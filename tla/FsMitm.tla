------------------------------- MODULE FsMitm -------------------------------
(***************************************************************************)
(* The fs module of rnx_mitm (rnx_mitm/source/fs_mitm): it sits between    *)
(* every game and fsp-srv.                                                 *)
(*                                                                         *)
(* Layered storages.  Sessions of overridden programs open a storage whose *)
(* tables a thread of their own builds, in the background; sessions of one *)
(* program share one storage, which a weak reference finds and which dies  *)
(* with its last user.  TotalThreads threads serve all sessions, and each  *)
(* waits where its request waits.                                          *)
(*                                                                         *)
(* Redirected saves.  The first time a game opens its save data it is      *)
(* copied to a directory on the SD card; any step may fail, and the        *)
(* console may be switched off after any step.                             *)
(***************************************************************************)
EXTENDS Naturals, FiniteSets, Sequences

CONSTANTS
    FsSessions,    \* sessions of fsp-srv
    GamePrograms,  \* programs with a romfs on the SD card
    StorageIds,    \* addresses a LayeredRomfsStorage may have
    TotalThreads

VARIABLES
    game_of,             \* client_info.program_id of each session
    client,              \* what each session is at, and the storage it holds
    storage_cache,       \* g_storage_cache: None where the reference has expired
    data_storage_lock,   \* the session whose request holds g_data_storage_lock
    started_req_thread,  \* g_started_req_thread
    req_mq, ack_mq,      \* g_req_mq, g_ack_mq
    initializer,         \* the romfs initializer thread
    storages,            \* the LayeredRomfsStorages there are
    sd_save,             \* the directory of the save, on the SD card
    save_request         \* the request or session that has the save open

storageVars == <<game_of, client, storage_cache, data_storage_lock, started_req_thread,
                 req_mq, ack_mq, initializer, storages>>
saveVars == <<sd_save, save_request>>

None == "none"

ASSUME NoneIsNothing ==
    None \notin StorageIds /\ None \notin GamePrograms /\ None \notin FsSessions

---------------------------------------------------------------------------
(* Layered storages.                                                       *)

NoStorage == [program |-> None, is_initialized |-> FALSE]

Busy == {c \in FsSessions : client[c].at # "idle"}

(* Interfaces: held by sessions, or by the request that makes one.         *)
InterfaceHolders(clients, s) ==
    {c \in FsSessions : clients[c].storage = s /\ clients[c].at \notin {"request", "acknowledge"}}

Users(clients, thread, s) ==
    {c \in FsSessions : clients[c].storage = s} \cup (IF thread.storage = s THEN {"initializer"} ELSE {})

(* shared_ptr and weak_ptr: what nobody uses is gone.                      *)
Collected(clients, thread, table) ==
    [s \in StorageIds |-> IF Users(clients, thread, s) = {} THEN NoStorage ELSE table[s]]

Expired(clients, cache) ==
    [p \in GamePrograms |->
        IF cache[p] # None /\ InterfaceHolders(clients, cache[p]) = {} THEN None ELSE cache[p]]

At(c, at, s) == [client EXCEPT ![c] = [at |-> at, storage |-> s]]

(* OpenDataStorageByCurrentProcess, OpenDataStorageByDataId: eligible, and *)
(* fsp-srv has opened the storage below.  Then the lock.                   *)
OpenDataStorage(c) ==
    /\ client[c] = [at |-> "idle", storage |-> None]
    /\ Cardinality(Busy) < TotalThreads
    /\ client' = At(c, "lock", None)
    /\ UNCHANGED <<game_of, storage_cache, data_storage_lock, started_req_thread,
                   req_mq, ack_mq, initializer, storages>>

(* GetStorageCacheEntry, and a new LayeredRomfsStorage if there is none.   *)
FindStorage(c) ==
    LET cached_storage == storage_cache[game_of[c]]
    IN  /\ client[c].at = "lock"
        /\ data_storage_lock = None
        /\ \/ /\ cached_storage # None
              /\ client' = At(c, "idle", cached_storage)
              /\ UNCHANGED <<data_storage_lock, storages>>
           \/ /\ cached_storage = None
              /\ \E s \in {x \in StorageIds : storages[x] = NoStorage} :
                    /\ client' = At(c, "request", s)
                    /\ storages' = [storages EXCEPT ![s].program = game_of[c]]
              /\ data_storage_lock' = c
        /\ UNCHANGED <<game_of, storage_cache, started_req_thread, req_mq, ack_mq, initializer>>

(* RequestInitializeStorage starts the thread once, sends the address ...  *)
RequestInitializeStorage(c) ==
    /\ client[c].at = "request"
    /\ req_mq = <<>>
    /\ started_req_thread' = TRUE
    /\ req_mq' = <<client[c].storage>>
    /\ client' = At(c, "acknowledge", client[c].storage)
    /\ UNCHANGED <<game_of, storage_cache, data_storage_lock, ack_mq, initializer, storages>>

(* ... and waits for it to come back.                                      *)
ReceiveAck(c) ==
    /\ client[c].at = "acknowledge"
    /\ ack_mq = <<client[c].storage>>       \* AMS_ABORT_UNLESS(ack == storage_uptr)
    /\ ack_mq' = <<>>
    /\ client' = At(c, "publish", client[c].storage)
    /\ UNCHANGED <<game_of, storage_cache, data_storage_lock, started_req_thread,
                   req_mq, initializer, storages>>

(* SetStorageCacheEntry, which prefers a storage that is there already.    *)
SetStorageCacheEntry(c) ==
    LET p == game_of[c]
        cur == IF storage_cache[p] # None THEN storage_cache[p] ELSE client[c].storage
    IN  /\ client[c].at = "publish"
        /\ client' = At(c, "idle", cur)
        /\ storage_cache' = [storage_cache EXCEPT ![p] = cur]
        /\ storages' = Collected(client', initializer, storages)
        /\ data_storage_lock' = None
        /\ UNCHANGED <<game_of, started_req_thread, req_mq, ack_mq, initializer>>

(* Mutant: the reference is taken after the acknowledgement.               *)
InitializerReceiveUnreferenced ==
    /\ started_req_thread
    /\ initializer.at = "receive"
    /\ req_mq # <<>>
    /\ initializer' = [at |-> "acknowledge", storage |-> None, target |-> Head(req_mq)]
    /\ req_mq' = <<>>
    /\ UNCHANGED <<game_of, client, storage_cache, data_storage_lock, started_req_thread,
                   ack_mq, storages>>

(* RomfsInitializerThreadFunction: a reference of its own, then the        *)
(* acknowledgement, then InitializeImpl.                                   *)
InitializerReceive ==
    /\ started_req_thread
    /\ initializer.at = "receive"
    /\ req_mq # <<>>
    /\ initializer' = [at |-> "acknowledge", storage |-> Head(req_mq), target |-> Head(req_mq)]
    /\ req_mq' = <<>>
    /\ UNCHANGED <<game_of, client, storage_cache, data_storage_lock, started_req_thread,
                   ack_mq, storages>>

InitializerAck ==
    /\ initializer.at = "acknowledge"
    /\ ack_mq = <<>>
    /\ ack_mq' = <<initializer.target>>
    /\ initializer' = [initializer EXCEPT !.at = "initialize"]
    /\ UNCHANGED <<game_of, client, storage_cache, data_storage_lock, started_req_thread,
                   req_mq, storages>>

InitializeImpl ==
    /\ initializer.at = "initialize"
    /\ initializer' = [at |-> "receive", storage |-> None, target |-> None]
    /\ storages' = Collected(client, initializer',
                             [storages EXCEPT ![initializer.target].is_initialized = TRUE])
    /\ UNCHANGED <<game_of, client, storage_cache, data_storage_lock, started_req_thread,
                   req_mq, ack_mq>>

(* Read and GetSize wait for the initialize_event.                         *)
ReadStorage(c) ==
    /\ client[c].at = "idle" /\ client[c].storage # None
    /\ Cardinality(Busy) < TotalThreads
    /\ client' = At(c, "read", client[c].storage)
    /\ UNCHANGED <<game_of, storage_cache, data_storage_lock, started_req_thread,
                   req_mq, ack_mq, initializer, storages>>

AnswerRead(c) ==
    /\ client[c].at = "read"
    /\ storages[client[c].storage].is_initialized
    /\ client' = At(c, "idle", client[c].storage)
    /\ UNCHANGED <<game_of, storage_cache, data_storage_lock, started_req_thread,
                   req_mq, ack_mq, initializer, storages>>

CloseStorage(c) ==
    /\ client[c].at = "idle" /\ client[c].storage # None
    /\ Cardinality(Busy) < TotalThreads
    /\ client' = At(c, "idle", None)
    /\ storages' = Collected(client', initializer, storages)
    /\ storage_cache' = Expired(client', storage_cache)
    /\ UNCHANGED <<game_of, data_storage_lock, started_req_thread, req_mq, ack_mq, initializer>>

StorageProgress ==
    \/ \E c \in FsSessions : \/ FindStorage(c) \/ RequestInitializeStorage(c) \/ ReceiveAck(c)
                             \/ SetStorageCacheEntry(c) \/ AnswerRead(c)
    \/ InitializerReceive \/ InitializerAck \/ InitializeImpl

StorageNext ==
    \/ StorageProgress
    \/ \E c \in FsSessions : OpenDataStorage(c) \/ ReadStorage(c) \/ CloseStorage(c)

StorageInit ==
    /\ game_of \in [FsSessions -> GamePrograms]
    /\ client = [c \in FsSessions |-> [at |-> "idle", storage |-> None]]
    /\ storage_cache = [p \in GamePrograms |-> None]
    /\ data_storage_lock = None
    /\ started_req_thread = FALSE
    /\ req_mq = <<>> /\ ack_mq = <<>>
    /\ initializer = [at |-> "receive", storage |-> None, target |-> None]
    /\ storages = [s \in StorageIds |-> NoStorage]

StorageSpec == StorageInit /\ [][StorageNext]_storageVars

---------------------------------------------------------------------------
(* Redirected saves.  A save directory holds a committed version and a     *)
(* working one; both are among:                                            *)

SaveContents == {"absent", "empty", "part", "old", "new"}

(* Which saves are redirected: the setting fsmitm_redirect_saves_to_sd is  *)
(* not looked at; the file saveredirection, where it exists, prevents it.  *)
RedirectsSave(hbl_or_game, flag_file, redirect_save, type) ==
    hbl_or_game /\ ~flag_file /\ redirect_save /\ type = "account"

(* GetSaveDataSpaceIdString and GetDirectorySaveDataPath; 0 is the invalid *)
(* id of a user, a system save or a program.                               *)
SpaceIdString(space_id) == IF space_id = "ProperSystem" THEN "System" ELSE space_id

DirectorySaveDataPath(client_program, space_id, a) ==
    LET program == IF a.program_id = 0 THEN client_program ELSE a.program_id
    IN  IF a.system_save_data_id # 0 /\ a.user_id = 0
        THEN <<SpaceIdString(space_id), a.type, a.system_save_data_id>>
        ELSE <<SpaceIdString(space_id), a.type, program, a.user_id>>

SaveAttributes == [type : {"account", "device"}, program_id : 0..2, user_id : 0..2,
                   system_save_data_id : 0..1]

CloseSave == [at |-> "closed", is_new_save |-> FALSE]

(* Mutant: any error makes it a new one.                                   *)
LookForSaveCatchAll ==
    /\ save_request.at = "closed"
    /\ \E found \in {sd_save.present, FALSE} :
            save_request' = [at |-> "looked", is_new_save |-> ~found]
    /\ UNCHANGED sd_save

(* OpenSaveDataFileSystem, for a request that is redirected: a game or     *)
(* homebrew, account save data, the flags as the code reads them, and      *)
(* fsp-srv can open the save of the console.  First: is the directory      *)
(* there?  Only ResultPathNotFound makes the save a new one.               *)
LookForSave ==
    /\ save_request.at = "closed"
    /\ \E found \in {sd_save.present, TRUE} :
            save_request' = [at |-> "looked", is_new_save |-> ~found]
    /\ UNCHANGED sd_save

(* EnsureDirectoryRecursively.                                             *)
EnsureDirectory ==
    /\ save_request.at = "looked"
    /\ \/ /\ sd_save' = [sd_save EXCEPT !.present = TRUE]
          /\ save_request' = [save_request EXCEPT !.at = "ensured"]
       \/ save_request' = CloseSave /\ UNCHANGED sd_save

(* DirectorySaveDataFileSystem::Initialize of the library makes both       *)
(* versions, or the working one again from the committed one.              *)
InitializeSave ==
    /\ save_request.at = "ensured"
    /\ \/ /\ sd_save.working = "absent"
          /\ sd_save' = [sd_save EXCEPT !.working = "empty"]
          /\ save_request' \in {save_request, CloseSave}
       \/ /\ sd_save.working # "absent"
          /\ sd_save' = [sd_save EXCEPT
                !.committed = IF @ = "absent" THEN sd_save.working ELSE @,
                !.working = IF sd_save.committed = "absent" THEN @ ELSE sd_save.committed]
          /\ save_request' = [save_request EXCEPT !.at = "initialized"]
       \/ save_request' = CloseSave /\ UNCHANGED sd_save

(* The copy, whose errors nobody looks at, ends with a commit.             *)
CopySaveFromFileSystem ==
    /\ save_request.at = "initialized"
    /\ save_request' = [save_request EXCEPT !.at = "open"]
    /\ \/ ~save_request.is_new_save /\ UNCHANGED sd_save
       \/ save_request.is_new_save /\ sd_save' = [sd_save EXCEPT !.working = "old", !.committed = "old"]
       \/ save_request.is_new_save /\ sd_save' = [sd_save EXCEPT !.working = "part"]

(* The game writes and commits, or closes the save.                        *)
PlaySave ==
    /\ save_request.at \in {"open", "played"}
    /\ \/ /\ sd_save' = [sd_save EXCEPT !.working = "new"]
          /\ save_request' = [save_request EXCEPT !.at = "played"]
       \/ /\ sd_save' = [sd_save EXCEPT !.committed = sd_save.working]
          /\ UNCHANGED save_request
       \/ /\ save_request' = CloseSave
          /\ UNCHANGED sd_save

(* The console is switched off.                                            *)
SwitchOff == save_request' = CloseSave /\ UNCHANGED sd_save

SaveNext ==
    \/ LookForSave \/ EnsureDirectory \/ InitializeSave \/ CopySaveFromFileSystem
    \/ PlaySave \/ SwitchOff

SaveInit ==
    /\ sd_save = [present |-> FALSE, working |-> "absent", committed |-> "absent"]
    /\ save_request = CloseSave

SaveSpec == SaveInit /\ [][SaveNext]_saveVars

---------------------------------------------------------------------------
(* Properties.                                                             *)

(* Sessions of one program share one storage, which is of that program;    *)
(* the initializer thread never works on a storage that is gone (the       *)
(* acknowledgement it waits for is why); and what it acknowledges is what  *)
(* the request waits for, as the code asserts (RequestInitializeStorage).  *)
StoragesShared ==
    /\ \A c, d \in FsSessions :
        game_of[c] = game_of[d] /\ client[c].at \in {"idle", "read"} /\ client[d].at \in {"idle", "read"}
            => client[c].storage = client[d].storage \/ None \in {client[c].storage, client[d].storage}
    /\ initializer.target # None => storages[initializer.target] # NoStorage
    /\ \A c \in FsSessions : client[c].storage # None =>
            storages[client[c].storage].program = game_of[c]
    /\ \A c \in FsSessions : client[c].at = "acknowledge" /\ ack_mq # <<>> =>
            ack_mq = <<client[c].storage>>

(* A request never waits for what nobody will do: not even when all threads*)
(* that serve requests wait for a storage to be built (Read).              *)
RequestsGoOn == Busy # {} => ENABLED StorageProgress

(* Two users' saves, or those of two games or partitions, never share a    *)
(* directory (GetDirectorySaveDataPath).                                   *)
SavesApart ==
    \A x, y \in [client : 1..2, space : {"User", "SdUser", "System", "ProperSystem"},
                 attribute : {a \in SaveAttributes : RedirectsSave(TRUE, FALSE, TRUE, a.type)}] :
        LET Of(z) == <<IF z.attribute.program_id = 0 THEN z.client ELSE z.attribute.program_id,
                       SpaceIdString(z.space), z.attribute.user_id>>
        IN  /\ DirectorySaveDataPath(x.client, x.space, x.attribute)
                 = DirectorySaveDataPath(y.client, y.space, y.attribute)
            /\ x.attribute.user_id # 0
            => Of(x) = Of(y)

(* What the game has committed to the redirected save is there the next    *)
(* time, whatever failed in between: neither a failure to look for the     *)
(* directory nor an interrupted open brings the old save back.             *)
CommitsKept == save_request.at = "open" /\ sd_save.committed = "new" => sd_save.working = "new"

(* The comment of OpenSaveDataFileSystem: the first time the save is made  *)
(* the existing one is copied over, so a game that has committed nothing   *)
(* finds its old save.                                                     *)
OldSaveFound == save_request.at = "open" /\ sd_save.committed # "new" => sd_save.working = "old"
=============================================================================
