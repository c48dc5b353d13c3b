---------------------------- MODULE Boot0Storage ----------------------------
(***************************************************************************)
(* The BOOT0 partition that rnx_mitm gives to the clients of fs            *)
(* (fsmitm_boot0storage.cpp, .hpp): writes of any place and size are made  *)
(* of whole sectors, never change the keyblobs (EKS), and change the public*)
(* keys of the BCTs only for who may.  Every write to the remote storage   *)
(* may fail, and ends the request.                                         *)
(*                                                                         *)
(* The image is a sequence; offsets count from 0.                          *)
(***************************************************************************)
EXTENDS Integers, Sequences, SequencesExt

CONSTANTS
    SectorSize,
    BctSize, BctPubkStart, BctPubkEnd,  \* of a BCT
    BctEndOffset, EksStart, EksEnd

AlignUp(n, a)   == ((n + a - 1) \div a) * a
AlignDown(n, a) == (n \div a) * a

Part(s, from, size) == SubSeq(s, from + 1, from + size)
Overlay(s, at, data) ==
    [n \in DOMAIN s |-> IF n - 1 \in at..(at + Len(data) - 1) THEN data[n - at] ELSE s[n]]

(* A request under way: the image, the writes that will still succeed, and *)
(* whether one failed.                                                     *)
Request(image, left) == [image |-> image, left |-> left, ok |-> TRUE]

RemoteWrite(st, at, data) ==
    CASE ~st.ok -> st
      [] st.ok /\ st.left = 0 -> [st EXCEPT !.ok = FALSE]
      [] OTHER -> [st EXCEPT !.image = Overlay(@, at, data), !.left = @ - 1]

---------------------------------------------------------------------------
(* SectoredStorageAdapter.                                                 *)

(* A part of one sector: it is read, changed and written.                  *)
WriteInSector(st, seek, at, data) ==
    RemoteWrite(st, seek, Overlay(Part(st.image, seek, SectorSize), at, data))

(* Mutant: what is left over is written as a sector of its own.            *)
WriteLeftover(st, offset, data) ==
    RemoteWrite(st, offset, data \o [n \in 1..(SectorSize - Len(data)) |-> <<"sector_buf", n>>])

WriteTail(st, offset, data) == WriteInSector(st, offset, 0, data)

SectoredWrite(st, offset, data) ==
    LET seek == AlignDown(offset, SectorSize)
        sector_ofs == offset - seek
        size == Len(data)
        in_sector == SectorSize - sector_ofs
        aligned == AlignDown(size - in_sector, SectorSize)
        left_over == size - in_sector - aligned
        first == WriteInSector(st, seek, sector_ofs, Part(data, 0, in_sector))
        middle == IF aligned = 0 THEN first
                  ELSE RemoteWrite(first, offset + in_sector, Part(data, in_sector, aligned))
    IN  CASE size = 0 -> st
          [] size # 0 /\ sector_ofs = 0 /\ size % SectorSize = 0 -> RemoteWrite(st, offset, data)
          [] size # 0 /\ ~(sector_ofs = 0 /\ size % SectorSize = 0) ->
                IF size + sector_ofs <= SectorSize THEN WriteInSector(st, seek, sector_ofs, data)
                ELSE IF left_over = 0 THEN middle
                ELSE WriteTail(middle, offset + in_sector + aligned,
                               Part(data, in_sector + aligned, left_over))

SectoredRead(image, offset, size) ==
    LET seek == AlignDown(offset, SectorSize)
        sector_ofs == offset - seek
        sector_buf == Part(image, seek, SectorSize)
        in_sector == SectorSize - sector_ofs
        aligned == AlignDown(size - in_sector, SectorSize)
        left_over == size - in_sector - aligned
        last == IF left_over = 0 THEN <<>>
                ELSE Part(Part(image, offset + in_sector + aligned, SectorSize), 0, left_over)
    IN  CASE size = 0 -> <<>>
          [] size # 0 /\ sector_ofs = 0 /\ size % SectorSize = 0 -> Part(image, offset, size)
          [] size # 0 /\ ~(sector_ofs = 0 /\ size % SectorSize = 0) ->
                IF size + sector_ofs <= SectorSize THEN Part(sector_buf, sector_ofs, size)
                ELSE Part(sector_buf, sector_ofs, in_sector)
                     \o Part(image, offset + in_sector, aligned) \o last

---------------------------------------------------------------------------
(* Boot0Storage.                                                           *)

(* AutoRCM on a patched unit would brick it.                               *)
CanModifyBctPublicKey(client, patched) == IF patched THEN client = "ns" ELSE client = "hbl"

InPubk(offset) ==
    offset < BctEndOffset /\ offset % BctSize >= BctPubkStart /\ offset % BctSize < BctPubkEnd

TouchesNoPubk(offset) ==
    \/ offset >= BctEndOffset
    \/ AlignUp(offset, BctSize) >= BctEndOffset /\ offset % BctSize >= BctPubkEnd

(* "Update the bct buffer": all of the BCTs are written again.             *)
MergedBcts(image, offset, data) ==
    [n \in 1..BctEndOffset |->
        IF n - 1 \in offset..(offset + Len(data) - 1) /\ ~InPubk(n - 1) THEN data[n - offset]
        ELSE image[n]]

WriteKeepingPubks(st, offset, data) ==
    LET past == offset + Len(data) > BctEndOffset
        within == BctEndOffset - offset
        after == IF past THEN SectoredWrite(st, BctEndOffset, Part(data, within, Len(data) - within))
                 ELSE st
    IN  IF ~after.ok THEN after
        ELSE SectoredWrite(after, 0, MergedBcts(after.image, offset,
                                        IF past THEN Part(data, 0, within) ELSE data))

WriteOutsideEks(st, offset, data, may) ==
    IF data = <<>> THEN st
    ELSE IF may \/ TouchesNoPubk(offset) THEN SectoredWrite(st, offset, data)
    ELSE WriteKeepingPubks(st, offset, data)

(* Write: what is before and what is behind the EKS.                       *)
Write(st, offset, data, may) ==
    LET size == Len(data)
        diff == EksEnd - offset
        behind == IF offset + size > EksEnd
                  THEN SectoredWrite(st, EksEnd, Part(data, diff, size - diff)) ELSE st
    IN  CASE offset <= EksStart /\ offset + size < EksStart -> WriteOutsideEks(st, offset, data, may)
          [] offset <= EksStart /\ offset + size >= EksStart ->
                IF ~behind.ok THEN behind
                ELSE WriteOutsideEks(behind, offset, Part(data, 0, EksStart - offset), may)
          [] offset > EksStart /\ offset < EksEnd ->
                IF offset + size <= EksEnd THEN st
                ELSE WriteOutsideEks(st, EksEnd, Part(data, diff, size - diff), may)
          [] OTHER -> WriteOutsideEks(st, offset, data, may)

---------------------------------------------------------------------------
(* Properties.                                                             *)

Protected(p, may) == (EksStart <= p /\ p < EksEnd) \/ (~may /\ InPubk(p))

(* A write that succeeds changes exactly the bytes it is of, except those  *)
(* that are protected from its client.  One that fails at any of its remote*)
(* writes leaves every byte old or new, and the protected ones old: the    *)
(* keys of the console survive every update that is cut off.               *)
WritesWhatItMay(image, offset, data, left, may) ==
    LET done == Write(Request(image, left), offset, data, may)
        covered(p) == p \in offset..(offset + Len(data) - 1) /\ ~Protected(p, may)
    IN  \A n \in DOMAIN image :
            \/ done.image[n] = IF covered(n - 1) THEN data[n - offset] ELSE image[n]
            \/ ~done.ok /\ done.image[n] = image[n]

(* A read returns the bytes of the image, however it is aligned.           *)
ReadsBack(image, offset, size) == SectoredRead(image, offset, size) = Part(image, offset, size)
=============================================================================
