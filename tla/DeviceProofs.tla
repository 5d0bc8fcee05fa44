------------------------------ MODULE DeviceProofs ------------------------------
(***************************************************************************)
(* The file functions for files of any content and length below the       *)
(* default limit of fgets, and any sequence of calls: they return what     *)
(* PHP's return and leave PHP's file on the flash.                         *)
(*                                                                         *)
(* The console for lines and histories of any size: the keys edit the text *)
(* as those of an editor, the terminal shows it, and the history is what   *)
(* was entered last.                                                       *)
(*                                                                         *)
(* The shell of the device for every tree of files, every size of the      *)
(* flash, every set of commands and uploads, and any number of power cuts: *)
(* what a command may change, and what its answer means.                   *)
(***************************************************************************)
EXTENDS Streams, LineEditor, DeviceShell, FiniteSetTheorems, WellFoundedInduction, TLAPS

\* A set of numbers has a least one.
LEMMA Least ==
  ASSUME NEW S \in SUBSET Nat, S # {}
  PROVE  \E i \in S : \A j \in S : i <= j
<1>1. PICK i \in S : \A j \in S : <<j, i>> \notin OpToRel(<, Nat)
  BY NatLessThanWellFounded, WFMin, Zenon
<1>2. \A j \in S : ~(j < i)
  BY <1>1 DEF OpToRel
<1> QED
  BY <1>2

-----------------------------------------------------------------------------
(* The file functions.                                                     *)

\* Where PHP and the code agree: fgets has no limit of the caller's (with one
\* the code reads a byte more than PHP does), its default is longer than any
\* file, and no file holds a zero byte, which ends the string fgets returns.
Agreeing ==
  StreamsAssumption /\ Limits \subseteq {0} /\ DefaultLimit > MaxSize /\ "nul" \notin FileBytes

Flags == [read : BOOLEAN, write : BOOLEAN, create : BOOLEAN, trunc : BOOLEAN, append : BOOLEAN]
Handles == [kind : {"file"}, flags : Flags, pos : Nat, eof : BOOLEAN, dirty : BOOLEAN, data : Contents]

\* An open handle has PHP's file and position; what it has not changed is what
\* the flash holds.
HandleIsPhps ==
  object = "open" =>
    /\ handle \in Handles /\ handle.data = ref.data /\ handle.pos = ref.pos
    /\ handle.pos <= Len(handle.data)
    /\ ~handle.dirty => disk = handle.data
    /\ handle.flags.append /\ disk # NoFile =>
         Len(disk) <= Len(handle.data) /\ \A i \in 1 .. Len(disk) : disk[i] = handle.data[i]

StreamInv ==
  /\ disk \in {NoFile} \cup Contents
  /\ object \in {"none", "open", "closed"}
  /\ object # "open" => handle = NoHandle /\ (disk # NoFile => disk = ref.data)
  /\ ref \in [data : Contents, pos : Nat]
  /\ HandleIsPhps
  /\ got = want

-----------------------------------------------------------------------------
(* The contents of a file.                                                 *)

LEMMA ContentsAre ==
  ASSUME MaxSize \in Nat
  PROVE  \A s : s \in Contents <=> s \in Seq(FileBytes) /\ Len(s) <= MaxSize
<1>1. ASSUME NEW s \in Contents
      PROVE  s \in Seq(FileBytes) /\ Len(s) <= MaxSize
  <2>1. PICK n \in 0 .. MaxSize : s \in [1 .. n -> FileBytes]
    BY DEF Contents
  <2> QED
    BY <2>1
<1>2. ASSUME NEW s \in Seq(FileBytes), Len(s) <= MaxSize
      PROVE  s \in Contents
  <2>1. Len(s) \in 0 .. MaxSize /\ s \in [1 .. Len(s) -> FileBytes]
    BY <1>2
  <2> QED
    BY <2>1 DEF Contents
<1> QED
  BY <1>1, <1>2

\* The end of a sequence.
LEMMA RestOf ==
  ASSUME NEW s \in Seq(FileBytes), NEW p \in Nat, p <= Len(s)
  PROVE  /\ SubSeq(s, p + 1, Len(s)) \in Seq(FileBytes)
         /\ Len(SubSeq(s, p + 1, Len(s))) = Len(s) - p
OBVIOUS

\* The first place of a byte is the least of its places.
LEMMA FirstIsLeast ==
  ASSUME NEW s \in Seq(FileBytes), NEW x
  PROVE  LET ends == {i \in DOMAIN s : s[i] = x}
         IN /\ ends = {} => FirstIndex(s, x) = 0
            /\ ends # {} => /\ FirstIndex(s, x) \in ends
                            /\ FirstIndex(s, x) = CHOOSE i \in ends : \A j \in ends : i <= j
<1> DEFINE ends == {i \in DOMAIN s : s[i] = x}
<1>1. DOMAIN s = 1 .. Len(s) /\ Len(s) \in Nat /\ ends \in SUBSET Nat
  OBVIOUS
<1>2. x \in ToSet(s) <=> ends # {}
  BY DEF ToSet
<1>3. ASSUME ends # {}
      PROVE  /\ FirstIndex(s, x) \in ends
             /\ FirstIndex(s, x) = CHOOSE i \in ends : \A j \in ends : i <= j
  <2> DEFINE first(i) == s[i] = x /\ \A j \in 1 .. i - 1 : s[j] # x
             least(i) == \A j \in ends : i <= j
  <2>1. \E i \in ends : least(i)
    BY <1>1, <1>3, Least
  <2>2. \A i \in DOMAIN s : first(i) <=> i \in ends /\ least(i)
    BY <1>1
  <2>3. \A i, j \in ends : least(i) /\ least(j) => i = j
    BY <1>1
  <2>4. FirstIndex(s, x) = CHOOSE i \in DOMAIN s : first(i)
    BY <1>2, <1>3 DEF FirstIndex
  <2>5. PICK m \in ends : least(m)
    BY <2>1
  <2>6. (CHOOSE i \in ends : least(i)) = m
    <3>1. \E i \in ends : least(i)
      BY <2>5
    <3>2. (CHOOSE i \in ends : least(i)) \in ends /\ least(CHOOSE i \in ends : least(i))
      BY <3>1
    <3> HIDE DEF least
    <3> QED
      BY <2>3, <2>5, <3>2
  <2>7. (CHOOSE i \in DOMAIN s : first(i)) = m
    <3>1. m \in DOMAIN s /\ first(m)
      BY <2>2, <2>5
    <3>2. (CHOOSE i \in DOMAIN s : first(i)) \in DOMAIN s /\ first(CHOOSE i \in DOMAIN s : first(i))
      BY <3>1
    <3>3. \A i \in DOMAIN s : first(i) => i = m
      BY <2>2, <2>3, <2>5
    <3> HIDE DEF first
    <3> QED
      BY <3>2, <3>3
  <2> QED
    BY <2>4, <2>5, <2>6, <2>7
<1>4. ends = {} => FirstIndex(s, x) = 0
  BY <1>2 DEF FirstIndex
<1> QED
  BY <1>3, <1>4

\* A write at or before the end of a file.
LEMMA WrittenIs ==
  ASSUME NEW data \in Seq(FileBytes), NEW bytes \in Seq(FileBytes), NEW at \in Nat, at <= Len(data)
  PROVE  /\ Written(data, at, bytes) \in Seq(FileBytes)
         /\ at + Len(bytes) <= Len(Written(data, at, bytes))
         /\ Len(data) <= Len(Written(data, at, bytes))
         /\ Len(Written(data, at, bytes)) = IF at + Len(bytes) > Len(data) THEN at + Len(bytes) ELSE Len(data)
         /\ at = Len(data) => /\ Written(data, at, bytes) = data \o bytes
                              /\ \A i \in 1 .. Len(data) : Written(data, at, bytes)[i] = data[i]
<1> DEFINE n == IF at + Len(bytes) > Len(data) THEN at + Len(bytes) ELSE Len(data)
           w == Written(data, at, bytes)
<1>1. n \in Nat /\ at + Len(bytes) <= n /\ Len(data) <= n /\ Len(data) \in Nat /\ Len(bytes) \in Nat
  OBVIOUS
<1>2. /\ DOMAIN w = 1 .. n
      /\ \A i \in 1 .. n : w[i] = IF i > at /\ i <= at + Len(bytes) THEN bytes[i - at]
                                  ELSE IF i <= Len(data) THEN data[i] ELSE "nul"
  BY DEF Written
<1>3. ASSUME NEW i \in 1 .. n PROVE w[i] \in FileBytes
  <2>1. CASE i > at /\ i <= at + Len(bytes)
    <3>1. i - at \in 1 .. Len(bytes)
      BY <1>1, <2>1
    <3> QED
      BY <1>2, <2>1, <3>1
  <2>2. CASE ~(i > at /\ i <= at + Len(bytes))
    <3>1. i \in 1 .. Len(data)
      BY <1>1, <2>2
    <3> QED
      BY <1>2, <2>2, <3>1
  <2> QED
    BY <2>1, <2>2
<1>4. w \in [1 .. n -> FileBytes]
  BY <1>2, <1>3 DEF Written
<1>5. w \in Seq(FileBytes) /\ Len(w) = n
  <2> HIDE DEF w, n
  <2> QED
    BY <1>1, <1>4
<1>6. ASSUME at = Len(data)
      PROVE  w = data \o bytes /\ \A i \in 1 .. Len(data) : w[i] = data[i]
  <2>1. \A i \in 1 .. Len(data) : w[i] = data[i]
    BY <1>1, <1>2, <1>6
  <2>2. n = Len(data) + Len(bytes)
    BY <1>1, <1>6
  <2>3. \A i \in 1 .. n : w[i] = (data \o bytes)[i]
    BY <1>1, <1>2, <1>6, <2>2
  <2>4. data \o bytes \in Seq(FileBytes) /\ Len(data \o bytes) = n
    BY <2>2
  <2> HIDE DEF w, n
  <2> QED
    BY <1>5, <2>1, <2>3, <2>4
<1> QED
  BY <1>1, <1>5, <1>6

-----------------------------------------------------------------------------
(* Calls.                                                                  *)

LEMMA FlagsAre ==
  ASSUME NEW mode
  PROVE  /\ open_flags(mode) \in Flags
         /\ open_flags(mode).append => ~open_flags(mode).trunc
         /\ open_flags("w").write /\ open_flags("w").trunc /\ ~open_flags("w").append
         /\ open_flags("a").write /\ ~open_flags("a").trunc /\ open_flags("a").append
<1>1. open_flags(mode) \in Flags
  BY DEF open_flags, Flags
<1>2. open_flags(mode).append => ~open_flags(mode).trunc
  BY DEF open_flags
<1>3. open_flags("w").write /\ open_flags("w").trunc /\ ~open_flags("w").append
  BY DEF open_flags
<1>4. open_flags("a").write /\ ~open_flags("a").trunc /\ open_flags("a").append
  BY DEF open_flags
<1> QED
  BY <1>1, <1>2, <1>3, <1>4

\* What an open handle begins with.
LEMMA OpenedIs ==
  ASSUME Agreeing, disk \in {NoFile} \cup Contents, NEW mode
  PROVE  /\ Opened(mode) \in Handles /\ Opened(mode).pos = 0 /\ Opened(mode).flags = open_flags(mode)
         /\ (Opened(mode).dirty <=> open_flags(mode).trunc \/ disk = NoFile)
         /\ Opened(mode).data = IF open_flags(mode).trunc \/ disk = NoFile THEN <<>> ELSE disk
         /\ 0 <= Len(Opened(mode).data)
         /\ ~Opened(mode).dirty => disk = Opened(mode).data
         /\ Opened(mode).flags.append /\ disk # NoFile => Opened(mode).data = disk
<1> DEFINE data == IF open_flags(mode).trunc \/ disk = NoFile THEN <<>> ELSE disk
           dirty == open_flags(mode).trunc \/ disk = NoFile
<1>1. Opened(mode) = [kind |-> "file", flags |-> open_flags(mode), pos |-> 0, eof |-> FALSE,
                      dirty |-> dirty, data |-> data]
  BY DEF Opened
<1>2. data \in Contents
  <2>1. <<>> \in Contents
    <3>1. <<>> \in Seq(FileBytes) /\ Len(<<>>) = 0 /\ MaxSize \in Nat
      BY DEF Agreeing, StreamsAssumption
    <3>2. Len(<<>>) <= MaxSize
      BY <3>1
    <3> QED
      BY <3>1, <3>2, ContentsAre
  <2> QED
    BY <2>1
<1>3. dirty \in BOOLEAN /\ open_flags(mode) \in Flags
  BY FlagsAre DEF Flags
<1>4. 0 <= Len(data)
  BY <1>2, ContentsAre DEF Agreeing, StreamsAssumption
<1>5. ~dirty => disk = data
  OBVIOUS
<1>6. open_flags(mode).append /\ disk # NoFile => data = disk
  BY FlagsAre
<1> HIDE DEF data, dirty
<1>7. Opened(mode) \in Handles
  BY <1>1, <1>2, <1>3 DEF Handles
<1>8. /\ Opened(mode).pos = 0 /\ Opened(mode).flags = open_flags(mode)
      /\ Opened(mode).data = data /\ Opened(mode).dirty = dirty
  BY <1>1
<1>9. dirty <=> open_flags(mode).trunc \/ disk = NoFile
  BY DEF dirty
<1>10. data = IF open_flags(mode).trunc \/ disk = NoFile THEN <<>> ELSE disk
  BY DEF data
<1>11. ~Opened(mode).dirty => disk = Opened(mode).data
  BY <1>5, <1>8
<1> QED
  BY <1>4, <1>6, <1>7, <1>8, <1>9, <1>10, <1>11

LEMMA FopenKeeps ==
  ASSUME Agreeing, StreamInv, NEW mode, Fopen(mode)
  PROVE  StreamInv'
<1>1. object # "open" /\ disk' = disk /\ disk \in {NoFile} \cup Contents
  BY DEF Fopen, StreamInv
<1>2. CASE pphp_fs_open_ok(mode)
  <2>1. /\ handle' = Opened(mode) /\ object' = "open" /\ got' = want'
        /\ ref' = [ref EXCEPT !.data = Opened(mode).data, !.pos = 0]
    BY <1>2 DEF Fopen
  <2>2. Opened(mode).data \in Contents
    BY <1>1, OpenedIs DEF Handles
  <2>3. ref' \in [data : Contents, pos : Nat] /\ ref'.data = Opened(mode).data /\ ref'.pos = 0
    BY <2>1, <2>2 DEF StreamInv
  <2>4. HandleIsPhps'
    BY <1>1, <2>1, <2>3, OpenedIs DEF HandleIsPhps
  <2> QED
    BY <1>1, <2>1, <2>3, <2>4 DEF StreamInv
<1>3. CASE ~pphp_fs_open_ok(mode)
  <2>1. UNCHANGED <<disk, handle, object, ref>> /\ got' = want'
    BY <1>1, <1>3 DEF Fopen
  <2> QED
    BY <2>1 DEF StreamInv, HandleIsPhps
<1> QED
  BY <1>2, <1>3

\* What is known while a stream is open.
LEMMA OpenIs ==
  ASSUME Agreeing, StreamInv, Open
  PROVE  /\ object = "open" /\ handle \in Handles /\ handle.data = ref.data /\ handle.pos = ref.pos
         /\ handle.pos \in Nat /\ handle.pos <= Len(handle.data) /\ handle.data \in Seq(FileBytes)
         /\ Len(handle.data) <= MaxSize /\ handle.data \in Contents
         /\ ref \in [data : Contents, pos : Nat] /\ Len(handle.data) \in Nat /\ MaxSize \in Nat
<1>1. /\ object = "open" /\ handle \in Handles /\ handle.data = ref.data /\ handle.pos = ref.pos
      /\ handle.pos <= Len(handle.data) /\ ref \in [data : Contents, pos : Nat]
  BY DEF Open, StreamInv, HandleIsPhps
<1>2. handle.data \in Contents /\ handle.pos \in Nat /\ MaxSize \in Nat
  BY <1>1 DEF Handles, Agreeing, StreamsAssumption
<1> QED
  BY <1>1, <1>2, ContentsAre

\* Reading and seeking move the handle and PHP's position alike.
LEMMA MovedKeeps ==
  ASSUME Agreeing, StreamInv, Open, NEW p \in Nat, p <= Len(handle.data), NEW eof \in BOOLEAN,
         handle' = [handle EXCEPT !.pos = p, !.eof = eof], ref' = [ref EXCEPT !.pos = p],
         got' = want', UNCHANGED <<disk, object>>
  PROVE  StreamInv'
<1>1. /\ handle' \in Handles /\ handle'.pos = p /\ handle'.data = handle.data
      /\ handle'.dirty = handle.dirty /\ handle'.flags = handle.flags
  BY OpenIs DEF Handles
<1>2. ref' \in [data : Contents, pos : Nat] /\ ref'.pos = p /\ ref'.data = ref.data
  BY OpenIs
<1>3. HandleIsPhps'
  BY <1>1, <1>2, OpenIs DEF HandleIsPhps, StreamInv
<1> QED
  BY <1>2, <1>3, OpenIs DEF StreamInv

\* A call that changes nothing.
LEMMA IdleKeeps ==
  ASSUME StreamInv, got' = want', UNCHANGED <<disk, handle, object, ref>>
  PROVE  StreamInv'
BY DEF StreamInv, HandleIsPhps

LEMMA FreadKeeps ==
  ASSUME Agreeing, StreamInv, NEW n \in Counts, Fread(n)
  PROVE  StreamInv'
<1>1. Open /\ UNCHANGED <<disk, object>> /\ n \in Nat
  BY DEF Fread, Agreeing, StreamsAssumption
<1>2. CASE ~handle.flags.read
  BY <1>1, <1>2, IdleKeeps DEF Fread
<1>3. CASE handle.flags.read
  <2> DEFINE most == Lesser(handle.pos + n, Len(handle.data))
             bytes == SubSeq(handle.data, handle.pos + 1, most)
  <2>1. Readable(handle, n) = bytes /\ RefRead(n) = bytes
    BY <1>1, OpenIs DEF Readable, RefRead
  <2>2. /\ got' = Text(bytes) /\ want' = Text(bytes)
        /\ handle' = [handle EXCEPT !.pos = handle.pos + Len(bytes), !.eof = bytes = <<>>]
        /\ ref' = [ref EXCEPT !.pos = ref.pos + Len(bytes)]
    BY <1>3, <2>1 DEF Fread, pphp_fs_read
  <2>3. most \in Nat /\ handle.pos <= most /\ most <= Len(handle.data)
    BY <1>1, OpenIs DEF Lesser
  <2> HIDE DEF most
  <2>4. Len(bytes) = most - handle.pos /\ bytes \in Seq(FileBytes)
    BY <1>1, <2>3, OpenIs
  <2>5. handle.pos + Len(bytes) \in Nat /\ handle.pos + Len(bytes) <= Len(handle.data)
    BY <1>1, <2>3, <2>4, OpenIs
  <2>6. ref.pos + Len(bytes) = handle.pos + Len(bytes) /\ (bytes = <<>>) \in BOOLEAN
    BY <1>1, OpenIs
  <2> HIDE DEF bytes
  <2> QED
    BY <1>1, <2>2, <2>5, <2>6, MovedKeeps
<1> QED
  BY <1>2, <1>3

LEMMA FseekKeeps ==
  ASSUME Agreeing, StreamInv, NEW offset \in -1 .. 1, NEW whence \in {"set", "cur", "end"},
         Fseek(offset, whence)
  PROVE  StreamInv'
<1>1. Open /\ UNCHANGED <<disk, object>>
  BY DEF Fseek
<1> DEFINE p == Target(handle, offset, whence)
<1>2. p = Target(ref, offset, whence) /\ p \in Int
  BY <1>1, OpenIs DEF Target
<1> HIDE DEF p
<1>3. CASE p < 0
  <2>1. got' = want' /\ UNCHANGED <<handle, ref>>
    BY <1>2, <1>3 DEF Fseek, p
  <2> QED
    BY <1>1, <2>1, IdleKeeps
<1>4. CASE ~(p < 0)
  <2> DEFINE eof == FALSE
  <2>1. /\ p <= Len(handle.data) /\ got' = want' /\ handle' = [handle EXCEPT !.pos = p, !.eof = eof]
        /\ ref' = [ref EXCEPT !.pos = p]
    BY <1>2, <1>4 DEF Fseek, p
  <2>2. eof \in BOOLEAN /\ p \in Nat
    BY <1>2, <1>4
  <2> HIDE DEF eof
  <2> QED
    BY <1>1, <2>1, <2>2, MovedKeeps
<1> QED
  BY <1>3, <1>4

\* With no limit of the caller's, fgets and PHP read the same line.
LEMMA LinesAgree ==
  ASSUME Agreeing, StreamInv, Open
  PROVE  /\ RefLine(0) \in Seq(FileBytes) /\ Len(RefLine(0)) \in Nat
         /\ handle.pos + Len(RefLine(0)) <= Len(handle.data)
         /\ Line(DefaultLimit).result = TextOrFalse(RefLine(0))
         /\ \E eof \in BOOLEAN :
              Line(DefaultLimit).handle = [handle EXCEPT !.pos = handle.pos + Len(RefLine(0)), !.eof = eof]
<1> DEFINE data == handle.data
           pos == handle.pos
           rest == SubSeq(data, pos + 1, Len(data))
           ends == {i \in DOMAIN rest : rest[i] = "nl"}
           nl == FirstIndex(rest, "nl")
           used == IF nl = 0 THEN Len(rest) ELSE nl
           returned == SubSeq(rest, 1, used)
           hitEnd == nl = 0 /\ used < DefaultLimit
<1>1. /\ data \in Seq(FileBytes) /\ pos \in Nat /\ pos <= Len(data) /\ Len(data) \in Nat
      /\ Len(data) <= MaxSize /\ MaxSize \in Nat /\ DefaultLimit \in Nat /\ DefaultLimit > MaxSize
      /\ ref.data = data /\ ref.pos = pos
  BY OpenIs DEF Agreeing, StreamsAssumption
<1>2. Lesser(pos + DefaultLimit, Len(data)) = Len(data) /\ Lesser(pos + Len(data), Len(data)) = Len(data)
  BY <1>1 DEF Lesser
<1>3. Readable(handle, DefaultLimit) = rest /\ RefRead(Len(ref.data)) = rest
  BY <1>1, <1>2 DEF Readable, RefRead
<1>4. rest \in Seq(FileBytes) /\ Len(rest) = Len(data) - pos /\ Len(rest) \in Nat /\ DOMAIN rest = 1 .. Len(rest)
  BY <1>1, RestOf
<1>5. RefLine(0) = IF ends = {} THEN rest ELSE SubSeq(rest, 1, CHOOSE i \in ends : \A j \in ends : i <= j)
  <2>1. RefLine(0) =
          LET all == RefRead(Len(ref.data))
              nls == {i \in DOMAIN all : all[i] = "nl"}
          IN IF nls = {} THEN all ELSE SubSeq(all, 1, CHOOSE i \in nls : \A j \in nls : i <= j)
    BY DEF RefLine
  <2>2. RefRead(Len(ref.data)) = rest
    BY <1>3
  <2> HIDE DEF rest
  <2> QED
    BY <2>1, <2>2, Zenon
<1>6. /\ Line(DefaultLimit).result = IF returned = <<>> THEN False ELSE Text(CString(returned))
      /\ Line(DefaultLimit).handle = [handle EXCEPT !.pos = handle.pos + used, !.eof = hitEnd]
  BY <1>3 DEF Line, LineRead
<1> HIDE DEF data, pos, rest
<1>7. /\ ends = {} => nl = 0
      /\ ends # {} => nl \in ends /\ nl = CHOOSE i \in ends : \A j \in ends : i <= j
  <2> HIDE DEF nl
  <2> QED
    BY <1>4, FirstIsLeast DEF nl
<1>8. used \in 0 .. Len(rest) /\ RefLine(0) = returned
  <2>1. CASE ends = {}
    <3>1. used = Len(rest) /\ SubSeq(rest, 1, Len(rest)) = rest
      BY <1>4, <1>7, <2>1
    <3> QED
      BY <1>4, <1>5, <2>1, <3>1
  <2>2. CASE ends # {}
    <3>1. nl \in 1 .. Len(rest)
      BY <1>4, <1>7, <2>2
    <3>2. used = nl
      BY <1>4, <3>1
    <3>3. RefLine(0) = SubSeq(rest, 1, nl)
      <4> HIDE DEF nl, ends
      <4> QED
        BY <1>5, <1>7, <2>2
    <3>4. used \in 0 .. Len(rest)
      BY <1>4, <3>1, <3>2
    <3> QED
      BY <3>2, <3>3, <3>4
  <2> QED
    BY <2>1, <2>2
<1>9. hitEnd \in BOOLEAN
  OBVIOUS
<1> HIDE DEF used, nl, hitEnd, ends
<1>10. returned \in Seq(FileBytes) /\ Len(returned) = used
  BY <1>4, <1>8
<1> HIDE DEF returned
\* No byte is a zero byte: the C string is the whole line.
<1>11. CString(returned) = returned
  <2>1. "nul" \notin ToSet(returned)
    BY <1>10 DEF ToSet, Agreeing
  <2> QED
    BY <2>1 DEF CString, FirstIndex
<1>12. pos + used <= Len(data)
  BY <1>1, <1>4, <1>8
<1>13. Line(DefaultLimit).handle = [handle EXCEPT !.pos = handle.pos + Len(RefLine(0)), !.eof = hitEnd]
  BY <1>6, <1>8, <1>10
<1>14. Line(DefaultLimit).result = TextOrFalse(RefLine(0))
  BY <1>6, <1>8, <1>11 DEF TextOrFalse
<1>15. Len(RefLine(0)) = used /\ used \in Nat /\ RefLine(0) \in Seq(FileBytes)
  BY <1>4, <1>8, <1>10
<1>16. handle.pos + Len(RefLine(0)) <= Len(handle.data)
  BY <1>12, <1>15 DEF data, pos
<1> QED
  BY <1>9, <1>13, <1>14, <1>15, <1>16

LEMMA FgetsKeeps ==
  ASSUME Agreeing, StreamInv, NEW limit \in Limits, Fgets(limit)
  PROVE  StreamInv'
<1>1. limit = 0 /\ Open /\ UNCHANGED <<disk, object>>
  BY DEF Fgets, Agreeing
<1>2. /\ got' = Line(DefaultLimit).result /\ handle' = Line(DefaultLimit).handle
      /\ want' = TextOrFalse(RefLine(0)) /\ ref' = [ref EXCEPT !.pos = ref.pos + Len(RefLine(0))]
  BY <1>1 DEF Fgets
<1>3. PICK eof \in BOOLEAN :
        Line(DefaultLimit).handle = [handle EXCEPT !.pos = handle.pos + Len(RefLine(0)), !.eof = eof]
  BY <1>1, LinesAgree
<1> DEFINE p == handle.pos + Len(RefLine(0))
<1>4. p \in Nat /\ p <= Len(handle.data) /\ ref.pos + Len(RefLine(0)) = p /\ got' = want'
  <2>1. /\ Len(RefLine(0)) \in Nat /\ handle.pos + Len(RefLine(0)) <= Len(handle.data)
        /\ Line(DefaultLimit).result = TextOrFalse(RefLine(0))
    BY <1>1, LinesAgree
  <2>2. handle.pos \in Nat /\ ref.pos = handle.pos
    BY <1>1, OpenIs
  <2> QED
    BY <1>2, <2>1, <2>2
<1>5. handle' = [handle EXCEPT !.pos = p, !.eof = eof] /\ ref' = [ref EXCEPT !.pos = p]
  BY <1>2, <1>3, <1>4
<1> HIDE DEF p
<1> QED
  BY <1>1, <1>4, <1>5, MovedKeeps

LEMMA FwriteKeeps ==
  ASSUME Agreeing, StreamInv, NEW bytes \in Contents, Fwrite(bytes)
  PROVE  StreamInv'
<1>1. Open /\ UNCHANGED <<disk, object>> /\ bytes \in Seq(FileBytes) /\ Len(bytes) \in Nat
  BY ContentsAre DEF Fwrite, Agreeing, StreamsAssumption
<1>2. CASE ~pphp_fs_write_ok(handle, bytes)
  BY <1>1, <1>2, IdleKeeps DEF Fwrite
<1>3. CASE pphp_fs_write_ok(handle, bytes)
  <2> DEFINE at == WritePosition(handle)
             more == Written(handle.data, at, bytes)
  <2>1. at \in Nat /\ at <= Len(handle.data) /\ (handle.flags.append => at = Len(handle.data))
    BY <1>1, OpenIs DEF WritePosition
  <2>2. at + Len(bytes) <= MaxSize
    BY <1>3 DEF pphp_fs_write_ok
  <2>3. (IF handle.flags.append THEN Len(ref.data) ELSE ref.pos) = at
    BY <1>1, OpenIs DEF WritePosition
  <2>4. /\ handle' = [handle EXCEPT !.data = more, !.pos = at + Len(bytes), !.dirty = TRUE]
        /\ got' = want' /\ ref' = [ref EXCEPT !.data = more, !.pos = at + Len(bytes)]
    BY <1>1, <1>3, <2>3, OpenIs DEF Fwrite, pphp_fs_write
  <2> HIDE DEF at
  <2>5. /\ more \in Seq(FileBytes) /\ at + Len(bytes) <= Len(more) /\ Len(more) <= MaxSize
        /\ Len(handle.data) <= Len(more)
        /\ handle.flags.append => \A i \in 1 .. Len(handle.data) : more[i] = handle.data[i]
    BY <1>1, <2>1, <2>2, OpenIs, WrittenIs
  <2> HIDE DEF more
  <2>6. more \in Contents /\ at + Len(bytes) \in Nat
    BY <1>1, <2>1, <2>5, ContentsAre DEF Agreeing, StreamsAssumption
  <2>7. /\ handle' \in Handles /\ handle'.data = more /\ handle'.pos = at + Len(bytes)
        /\ handle'.dirty = TRUE /\ handle'.flags = handle.flags
    BY <1>1, <2>1, <2>4, <2>6, OpenIs DEF Handles
  <2>8. ref' \in [data : Contents, pos : Nat] /\ ref'.data = more /\ ref'.pos = at + Len(bytes)
    BY <1>1, <2>1, <2>4, <2>6, OpenIs
  <2>9. handle.flags.append /\ disk # NoFile =>
          Len(disk) <= Len(more) /\ \A i \in 1 .. Len(disk) : disk[i] = more[i]
    <3> SUFFICES ASSUME handle.flags.append, disk # NoFile
                 PROVE  Len(disk) <= Len(more) /\ \A i \in 1 .. Len(disk) : disk[i] = more[i]
      OBVIOUS
    <3>1. Len(disk) <= Len(handle.data) /\ \A i \in 1 .. Len(disk) : disk[i] = handle.data[i]
      BY <1>1, OpenIs DEF StreamInv, HandleIsPhps
    <3>2. Len(disk) \in Nat /\ Len(handle.data) \in Nat /\ Len(more) \in Nat
      BY <1>1, <2>5, OpenIs, ContentsAre DEF StreamInv, Agreeing, StreamsAssumption
    <3> QED
      BY <2>5, <3>1, <3>2
  <2>10. HandleIsPhps'
    BY <1>1, <2>5, <2>7, <2>8, <2>9 DEF HandleIsPhps
  <2> QED
    BY <1>1, <2>4, <2>8, <2>10, OpenIs DEF StreamInv
<1> QED
  BY <1>2, <1>3

LEMMA FcloseKeeps ==
  ASSUME Agreeing, StreamInv, Fclose
  PROVE  StreamInv'
<1>1. /\ Open /\ disk' = pphp_fs_close(handle) /\ handle' = NoHandle /\ object' = "closed"
      /\ got' = want' /\ UNCHANGED ref
  BY DEF Fclose
<1>2. disk' = handle.data /\ handle.data = ref.data /\ handle.data \in Contents
  BY <1>1, OpenIs DEF pphp_fs_close, StreamInv, HandleIsPhps
<1>3. ref \in [data : Contents, pos : Nat]
  BY DEF StreamInv
<1> QED
  BY <1>1, <1>2, <1>3 DEF StreamInv, HandleIsPhps

\* What the flash holds while no stream is open is what PHP's file holds.
LEMMA ClosedIs ==
  ASSUME Agreeing, StreamInv, object # "open"
  PROVE  /\ disk \in {NoFile} \cup Contents /\ handle = NoHandle
         /\ disk # NoFile => disk \in Contents /\ disk \in Seq(FileBytes) /\ disk = ref.data
         /\ ref \in [data : Contents, pos : Nat] /\ MaxSize \in Nat
BY ContentsAre DEF StreamInv, Agreeing, StreamsAssumption

LEMMA FilePutKeeps ==
  ASSUME Agreeing, StreamInv, NEW bytes \in Contents, NEW append \in BOOLEAN, FilePut(bytes, append)
  PROVE  StreamInv'
<1> DEFINE mode == IF append THEN "a" ELSE "w"
           h == Opened(mode)
           data == IF append /\ disk # NoFile THEN disk ELSE <<>>
           more == IF append /\ disk # NoFile THEN disk \o bytes ELSE bytes
<1>1. /\ object # "open" /\ UNCHANGED <<handle, object>> /\ bytes \in Seq(FileBytes) /\ Len(bytes) \in Nat
      /\ Len(bytes) <= MaxSize /\ MaxSize \in Nat
  BY ContentsAre DEF FilePut, Agreeing, StreamsAssumption
<1>2. /\ disk \in {NoFile} \cup Contents /\ handle = NoHandle
      /\ disk # NoFile => disk \in Contents /\ disk \in Seq(FileBytes) /\ disk = ref.data
      /\ ref \in [data : Contents, pos : Nat]
  BY <1>1, ClosedIs
<1>3. h.flags = open_flags(mode) /\ h.pos = 0 /\ h \in Handles /\ h.data = data
      /\ (~h.dirty => disk = data)
  <2>1. /\ Opened(mode).flags = open_flags(mode) /\ Opened(mode).pos = 0 /\ Opened(mode) \in Handles
        /\ Opened(mode).data = IF open_flags(mode).trunc \/ disk = NoFile THEN <<>> ELSE disk
        /\ ~Opened(mode).dirty => disk = Opened(mode).data
    BY <1>2, OpenedIs
  <2>2. CASE append
    BY <2>1, <2>2, FlagsAre
  <2>3. CASE ~append
    BY <2>1, <2>3, FlagsAre
  <2> QED
    BY <2>2, <2>3
<1>4. data \in Seq(FileBytes) /\ data \in Contents /\ Len(data) \in Nat
  <2>1. h.data \in Contents
    BY <1>3 DEF Handles
  <2> QED
    BY <1>1, <1>3, <2>1, ContentsAre
<1>5. WritePosition(h) = Len(data)
  <2>1. CASE append
    BY <1>3, <2>1, FlagsAre DEF WritePosition
  <2>2. CASE ~append
    <3>1. Len(data) = 0 /\ ~h.flags.append
      BY <1>3, <2>2, FlagsAre
    <3> QED
      BY <1>3, <3>1 DEF WritePosition
  <2> QED
    BY <2>1, <2>2
<1> HIDE DEF h
<1>6. CASE pphp_fs_write_ok(h, bytes)
  <2>1. /\ disk' = pphp_fs_close(pphp_fs_write(h, bytes)) /\ got' = want'
        /\ ref' = [ref EXCEPT !.data = more]
    BY <1>6 DEF FilePut, h
  <2>2. Len(data) + Len(bytes) <= MaxSize
    BY <1>5, <1>6 DEF pphp_fs_write_ok
  <2>3. data \o bytes = more
    <3>1. <<>> \o bytes = bytes
      BY <1>1
    <3> QED
      BY <3>1
  <2>4. Written(data, Len(data), bytes) = more
    <3> HIDE DEF data, more
    <3>1. Len(data) \in Nat /\ Len(data) <= Len(data)
      BY <1>4
    <3>2. Written(data, Len(data), bytes) = data \o bytes
      BY <1>1, <1>4, <3>1, WrittenIs
    <3> QED
      BY <2>3, <3>2
  <2>5. disk' = more
    <3>1. pphp_fs_write(h, bytes) = [h EXCEPT !.data = more, !.pos = Len(data) + Len(bytes), !.dirty = TRUE]
      BY <1>3, <1>5, <2>4 DEF pphp_fs_write
    <3>2. pphp_fs_write(h, bytes).data = more /\ pphp_fs_write(h, bytes).dirty = TRUE
      BY <1>3, <3>1 DEF Handles
    <3> QED
      BY <2>1, <3>2 DEF pphp_fs_close
  <2>6. more \in Contents
    <3>1. data \o bytes \in Seq(FileBytes) /\ Len(data \o bytes) = Len(data) + Len(bytes)
      BY <1>1, <1>4
    <3> QED
      BY <1>1, <2>2, <2>3, <3>1, ContentsAre
  <2> HIDE DEF more
  <2>7. ref' \in [data : Contents, pos : Nat] /\ ref'.data = more
    BY <1>2, <2>1, <2>6
  <2> QED
    BY <1>1, <1>2, <2>1, <2>5, <2>6, <2>7 DEF StreamInv, HandleIsPhps
<1>7. CASE ~pphp_fs_write_ok(h, bytes)
  <2>1. /\ disk' = pphp_fs_close(h) /\ got' = want' /\ ref' = [ref EXCEPT !.data = h.data]
    BY <1>7 DEF FilePut, h
  <2>2. disk' = data
    BY <1>3, <2>1 DEF pphp_fs_close
  <2> HIDE DEF data
  <2>3. ref' \in [data : Contents, pos : Nat] /\ ref'.data = data
    BY <1>2, <1>3, <1>4, <2>1
  <2> QED
    BY <1>1, <1>2, <1>4, <2>1, <2>2, <2>3 DEF StreamInv, HandleIsPhps
<1> QED
  BY <1>6, <1>7

LEMMA FileGetKeeps ==
  ASSUME Agreeing, StreamInv, FileGet
  PROVE  StreamInv'
<1>1. object # "open" /\ UNCHANGED <<disk, handle, object, ref>>
  BY DEF FileGet
<1>2. CASE disk = NoFile
  BY <1>1, <1>2, IdleKeeps DEF FileGet
<1>3. CASE disk # NoFile
  <2>1. disk \in Seq(FileBytes) /\ disk = ref.data /\ Len(disk) \in Nat
    BY <1>1, <1>3, ClosedIs
  <2> DEFINE h == [Opened("r") EXCEPT !.pos = 0]
  <2>2. h.data = disk /\ h.pos = 0
    BY <1>3 DEF Opened, open_flags
  <2>3. got' = Text(Readable(h, Len(disk))) /\ want' = Text(ref.data)
    BY <1>3 DEF FileGet, pphp_fs_read
  <2>4. Readable(h, Len(disk)) = SubSeq(disk, 1, Len(disk))
    <3>1. Lesser(0 + Len(disk), Len(disk)) = Len(disk) /\ 0 + 1 = 1
      BY <2>1 DEF Lesser
    <3> HIDE DEF h
    <3> QED
      BY <2>2, <3>1 DEF Readable
  <2>5. SubSeq(disk, 1, Len(disk)) = disk
    BY <2>1
  <2> HIDE DEF h
  <2>6. got' = want'
    BY <2>1, <2>3, <2>4, <2>5
  <2> QED
    BY <1>1, <2>6, IdleKeeps
<1> QED
  BY <1>2, <1>3

LEMMA RestKeeps ==
  ASSUME Agreeing, StreamInv, Ftell \/ UseClosed \/ UNCHANGED streamVars
  PROVE  StreamInv'
<1>1. UNCHANGED <<disk, handle, object, ref>>
  BY DEF Ftell, UseClosed, streamVars
<1>2. got' = want'
  <2>1. CASE Ftell
    BY <2>1, OpenIs DEF Ftell
  <2>2. CASE UseClosed
    BY <2>2 DEF UseClosed
  <2>3. CASE UNCHANGED streamVars
    BY <2>3 DEF streamVars, StreamInv
  <2> QED
    BY <2>1, <2>2, <2>3
<1> QED
  BY <1>1, <1>2, IdleKeeps

LEMMA StreamInit ==
  ASSUME Agreeing, StreamsInit
  PROVE  StreamInv
<1>1. <<>> \in Contents
  <2>1. <<>> \in Seq(FileBytes) /\ Len(<<>>) = 0 /\ MaxSize \in Nat
    BY DEF Agreeing, StreamsAssumption
  <2>2. Len(<<>>) <= MaxSize
    BY <2>1
  <2> QED
    BY <2>1, <2>2, ContentsAre
<1>2. disk \in {NoFile} \cup Contents
  BY DEF StreamsInit
<1>3. ref \in [data : Contents, pos : Nat] /\ (disk # NoFile => disk = ref.data)
  BY <1>1, <1>2 DEF StreamsInit
<1> QED
  BY <1>2, <1>3 DEF StreamsInit, StreamInv, HandleIsPhps

LEMMA StreamStep ==
  ASSUME Agreeing, StreamInv, [StreamsNext]_streamVars
  PROVE  StreamInv'
<1>1. ASSUME NEW mode \in Modes, Fopen(mode) PROVE StreamInv'
  BY <1>1, FopenKeeps
<1>2. ASSUME NEW n \in Counts, Fread(n) PROVE StreamInv'
  BY <1>2, FreadKeeps
<1>3. ASSUME NEW limit \in Limits, Fgets(limit) PROVE StreamInv'
  BY <1>3, FgetsKeeps
<1>4. ASSUME NEW s \in Contents, Fwrite(s) PROVE StreamInv'
  BY <1>4, FwriteKeeps
<1>5. ASSUME NEW offset \in -1 .. 1, NEW whence \in {"set", "cur", "end"}, Fseek(offset, whence)
      PROVE StreamInv'
  BY <1>5, FseekKeeps
<1>6. CASE Fclose
  BY <1>6, FcloseKeeps
<1>7. ASSUME NEW s \in Contents, NEW append \in BOOLEAN, FilePut(s, append) PROVE StreamInv'
  BY <1>7, FilePutKeeps
<1>8. CASE FileGet
  BY <1>8, FileGetKeeps
<1>9. CASE Ftell \/ UseClosed \/ UNCHANGED streamVars
  BY <1>9, RestKeeps
<1> QED
  BY <1>1, <1>2, <1>3, <1>4, <1>5, <1>6, <1>7, <1>8, <1>9 DEF StreamsNext

LEMMA StreamShape ==
  ASSUME Agreeing, StreamInv
  PROVE  FilesAsPhp
<1>1. StreamsTypeOK
  <2>1. CASE object = "open"
    <3>1. handle \in Handles /\ handle.data \in Contents /\ handle.pos \in 0 .. MaxSize
      BY <2>1, OpenIs DEF Open
    <3>2. handle.kind = "file"
      BY <3>1 DEF Handles
    <3> QED
      BY <2>1, <3>1, <3>2 DEF StreamsTypeOK, StreamInv
  <2>2. CASE object # "open"
    BY <2>2 DEF StreamsTypeOK, StreamInv, NoHandle
  <2> QED
    BY <2>1, <2>2
<1>2. MatchesPhp /\ ClosedFileIsPhps
  BY DEF MatchesPhp, ClosedFileIsPhps, StreamInv
<1>3. AppendKeepsPrefix
  <2> SUFFICES ASSUME object = "open", handle.flags.append, disk # NoFile
               PROVE  IsPrefix(disk, handle.data)
    BY DEF AppendKeepsPrefix
  <2>1. Len(disk) <= Len(handle.data) /\ \A i \in 1 .. Len(disk) : disk[i] = handle.data[i]
    BY DEF StreamInv, HandleIsPhps
  <2>2. disk \in Seq(FileBytes) /\ handle.data \in Seq(FileBytes)
    BY OpenIs, ContentsAre DEF Open, StreamInv, Agreeing, StreamsAssumption
  <2>3. SubSeq(disk, 1, Len(disk)) = SubSeq(handle.data, 1, Len(disk))
    BY <2>1, <2>2
  <2> QED
    BY <2>1, <2>3 DEF IsPrefix
<1> QED
  BY <1>1, <1>2, <1>3 DEF FilesAsPhp

\* Whatever the calls, the contents and the room on the flash: every call
\* returns what PHP returns, and what is closed is on the flash as PHP's file.
THEOREM StreamsAsPhp == Agreeing /\ StreamsSpec => []FilesAsPhp
<1> SUFFICES ASSUME Agreeing PROVE StreamsSpec => []FilesAsPhp
  OBVIOUS
<1>1. StreamsInit => StreamInv
  BY StreamInit
<1>2. StreamInv /\ [StreamsNext]_streamVars => StreamInv'
  BY StreamStep
<1>3. StreamInv => FilesAsPhp
  BY StreamShape
<1> QED
  BY <1>1, <1>2, <1>3, PTL DEF StreamsSpec

-----------------------------------------------------------------------------
(* The terminal.                                                           *)

\* What the console sends besides \b.
Shown == Letters \cup {" "}

\* What the bytes do is what any account of them says, byte by byte.
LEMMA SentIs ==
  ASSUME NEW scr, NEW bytes, Len(bytes) \in Nat, NEW g, g[0] = scr,
         \A n \in 1 .. Len(bytes) : g[n] = Put(g[n - 1], bytes[n])
  PROVE  Sent(scr, bytes) = g[Len(bytes)]
<1> DEFINE N == Len(bytes)
           Body(f, n) == IF n = 0 THEN scr ELSE Put(f[n - 1], bytes[n])
           h == [n \in 0 .. N |-> g[n]]
           F == CHOOSE f : f = [n \in 0 .. N |-> Body(f, n)]
<1>1. h = [n \in 0 .. N |-> Body(h, n)]
  <2> SUFFICES ASSUME NEW n \in 0 .. N PROVE h[n] = Body(h, n)
    OBVIOUS
  <2>1. CASE n = 0
    BY <2>1
  <2>2. CASE n # 0
    <3>1. n \in 1 .. N /\ n - 1 \in 0 .. N
      BY <2>2
    <3> QED  BY <2>2, <3>1
  <2> QED  BY <2>1, <2>2
<1>2. F = [n \in 0 .. N |-> Body(F, n)]
  <2> HIDE DEF Body, h
  <2> QED  BY <1>1
<1>3. Sent(scr, bytes) = F[N]
  BY DEF Sent
<1> HIDE DEF F
<1>4. \A n \in 0 .. N : F[n] = h[n]
  <2> SUFFICES ASSUME NEW x \in 0 .. N, F[x] # h[x] PROVE FALSE
    OBVIOUS
  <2> DEFINE S == {n \in 0 .. N : F[n] # h[n]}
  <2>1. S \in SUBSET Nat /\ S # {}
    OBVIOUS
  <2>2. PICK n \in S : \A j \in S : n <= j
    BY <2>1, Least
  <2>3. n # 0
    BY <1>1, <1>2, <2>2
  <2>4. n \in 0 .. N /\ n - 1 \in 0 .. N /\ n - 1 \notin S
    BY <2>2, <2>3
  <2>5. F[n - 1] = h[n - 1]
    BY <2>4
  <2>6. F[n] = Put(F[n - 1], bytes[n])
    BY <1>2, <2>3, <2>4
  <2>7. h[n] = Put(h[n - 1], bytes[n])
    BY <1>1, <2>3, <2>4
  <2> QED  BY <2>2, <2>5, <2>6, <2>7
<1> QED  BY <1>3, <1>4

\* A row over which a text is written from a column on.
Over(row, column, text) ==
  [k \in 1 .. (IF column + Len(text) > Len(row) THEN column + Len(text) ELSE Len(row)) |->
     IF k > column /\ k <= column + Len(text) THEN text[k - column] ELSE row[k]]

LEMMA OverIs ==
  ASSUME NEW row \in Seq(Shown), NEW column \in 0 .. Len(row), NEW text \in Seq(Shown)
  PROVE  /\ Over(row, column, text) \in Seq(Shown)
         /\ Len(Over(row, column, text)) = IF column + Len(text) > Len(row) THEN column + Len(text) ELSE Len(row)
<1> DEFINE n == IF column + Len(text) > Len(row) THEN column + Len(text) ELSE Len(row)
<1>1. n \in Nat /\ column + Len(text) <= n /\ Len(row) <= n
  OBVIOUS
<1>2. \A k \in 1 .. n : k > column /\ k <= column + Len(text) => k - column \in 1 .. Len(text)
  OBVIOUS
<1>3. \A k \in 1 .. n : ~(k > column /\ k <= column + Len(text)) => k \in 1 .. Len(row)
  OBVIOUS
<1>4. \A k \in 1 .. Len(text) : text[k] \in Shown
  OBVIOUS
<1>5. \A k \in 1 .. Len(row) : row[k] \in Shown
  OBVIOUS
<1> HIDE DEF n
<1>6. Over(row, column, text) \in [1 .. n -> Shown]
  BY <1>2, <1>3, <1>4, <1>5 DEF Over, n
<1> QED  BY <1>1, <1>6 DEF n

\* One text after the other.
LEMMA JoinIs ==
  ASSUME NEW S, NEW x \in Seq(S), NEW y \in Seq(S)
  PROVE  /\ x \o y \in Seq(S) /\ Len(x \o y) = Len(x) + Len(y)
         /\ \A k \in 1 .. Len(x) + Len(y) :
              (x \o y)[k] = IF k <= Len(x) THEN x[k] ELSE y[k - Len(x)]
OBVIOUS

\* Sequences with the same length and elements are the same.
LEMMA SameText ==
  ASSUME NEW S, NEW x \in Seq(S), NEW y \in Seq(S), Len(x) = Len(y),
         \A k \in 1 .. Len(x) : x[k] = y[k]
  PROVE  x = y
<1>1. x \in [1 .. Len(x) -> S] /\ y \in [1 .. Len(x) -> S]
  OBVIOUS
<1> QED  BY <1>1

\* A character replaces the one under the cursor.
LEMMA PutIs ==
  ASSUME NEW row \in Seq(Shown), NEW column \in 0 .. Len(row), NEW c \in Shown
  PROVE  Put([row |-> row, column |-> column], c) =
           [row |-> Over(row, column, <<c>>), column |-> column + 1]
<1>1. c # DEL /\ c # LEFT
  BY EditorAssumption DEF Shown, DEL, LEFT
<1> DEFINE left == SubSeq(row, 1, column)
           mid == <<c>>
           right == SubSeq(row, column + 2, Len(row))
           new == (left \o mid) \o right
           old == Over(row, column, mid)
<1>2. Put([row |-> row, column |-> column], c) = [row |-> new, column |-> column + 1]
  BY <1>1 DEF Put
<1>3. mid \in Seq(Shown) /\ Len(mid) = 1 /\ mid[1] = c
  OBVIOUS
<1>4. /\ left \in Seq(Shown) /\ Len(left) = column
      /\ \A k \in 1 .. column : left[k] = row[k]
  OBVIOUS
<1>5. /\ right \in Seq(Shown)
      /\ Len(right) = IF column + 1 > Len(row) THEN 0 ELSE Len(row) - column - 1
      /\ \A k \in 1 .. Len(right) : right[k] = row[k + column + 1]
  OBVIOUS
<1>6. /\ Len(row) \in Nat /\ column \in Nat /\ column <= Len(row) /\ Len(right) \in Nat
      /\ Len(right) + column + 1 = IF column + 1 > Len(row) THEN column + 1 ELSE Len(row)
  BY <1>5
<1> HIDE DEF mid, left, right
<1>7. /\ left \o mid \in Seq(Shown) /\ Len(left \o mid) = column + 1
      /\ \A k \in 1 .. column + 1 : (left \o mid)[k] = IF k <= column THEN row[k] ELSE c
  <2>1. /\ left \o mid \in Seq(Shown) /\ Len(left \o mid) = Len(left) + Len(mid)
        /\ \A k \in 1 .. Len(left) + Len(mid) :
             (left \o mid)[k] = IF k <= Len(left) THEN left[k] ELSE mid[k - Len(left)]
    BY <1>3, <1>4, JoinIs
  <2>2. ASSUME NEW k \in 1 .. column + 1 PROVE (left \o mid)[k] = IF k <= column THEN row[k] ELSE c
    <3>1. CASE k <= column
      BY <1>3, <1>4, <1>6, <2>1, <3>1
    <3>2. CASE k = column + 1
      <4>1. k - Len(left) = 1 /\ k \in 1 .. Len(left) + Len(mid) /\ ~(k <= Len(left)) /\ ~(k <= column)
        BY <1>3, <1>4, <1>6, <3>2
      <4>2. (left \o mid)[k] = mid[k - Len(left)]
        BY <2>1, <4>1
      <4>3. mid[k - Len(left)] = mid[1]
        BY <4>1
      <4> QED  BY <1>3, <4>1, <4>2, <4>3
    <3>3. k <= column \/ k = column + 1
      BY <1>6
    <3> QED  BY <3>1, <3>2, <3>3
  <2> QED  BY <1>3, <1>4, <2>1, <2>2
<1>8. /\ new \in Seq(Shown) /\ Len(new) = column + 1 + Len(right)
      /\ \A k \in 1 .. Len(new) : new[k] = IF k <= column + 1 THEN (left \o mid)[k] ELSE right[k - (column + 1)]
  <2> DEFINE x == left \o mid
  <2>1. x \in Seq(Shown) /\ right \in Seq(Shown) /\ Len(x) = column + 1
    BY <1>5, <1>7
  <2> HIDE DEF x
  <2>2. /\ x \o right \in Seq(Shown) /\ Len(x \o right) = Len(x) + Len(right)
        /\ \A k \in 1 .. Len(x) + Len(right) :
             (x \o right)[k] = IF k <= Len(x) THEN x[k] ELSE right[k - Len(x)]
    BY <2>1, JoinIs
  <2> QED  BY <2>1, <2>2 DEF x
<1>9. old \in Seq(Shown) /\ Len(old) = Len(new)
  <2>1. old \in Seq(Shown) /\ Len(old) = IF column + Len(mid) > Len(row) THEN column + Len(mid) ELSE Len(row)
    BY <1>3, OverIs
  <2> QED  BY <1>3, <1>6, <1>8, <2>1
<1>10. \A k \in 1 .. Len(new) : old[k] = IF k = column + 1 THEN c ELSE row[k]
  <2> SUFFICES ASSUME NEW k \in 1 .. Len(new) PROVE old[k] = IF k = column + 1 THEN c ELSE row[k]
    OBVIOUS
  <2>1. old[k] = IF k > column /\ k <= column + 1 THEN mid[k - column] ELSE row[k]
    BY <1>3, <1>6, <1>8 DEF Over
  <2> QED  BY <1>3, <1>6, <2>1
<1> HIDE DEF new, old
<1>11. ASSUME NEW k \in 1 .. Len(new) PROVE new[k] = old[k]
  <2>1. CASE k <= column + 1
    <3>1. k \in 1 .. column + 1
      BY <1>6, <2>1
    <3>2. new[k] = IF k <= column THEN row[k] ELSE c
      BY <1>7, <1>8, <2>1, <3>1
    <3> QED  BY <1>6, <1>10, <2>1, <3>2
  <2>2. CASE k > column + 1
    <3>1. k - (column + 1) \in 1 .. Len(right) /\ k - (column + 1) + column + 1 = k /\ k # column + 1
      BY <1>6, <1>8, <2>2
    <3>2. new[k] = right[k - (column + 1)]
      BY <1>6, <1>8, <2>2
    <3>3. right[k - (column + 1)] = row[k]
      BY <1>5, <3>1
    <3> QED  BY <1>10, <3>1, <3>2, <3>3
  <2> QED  BY <1>6, <2>1, <2>2
<1>12. new = old
  BY <1>8, <1>9, <1>11, SameText
<1> QED  BY <1>2, <1>12 DEF old, mid

\* \b moves the cursor.
LEMMA PutLeft ==
  ASSUME NEW row, NEW column \in Nat \ {0}
  PROVE  Put([row |-> row, column |-> column], LEFT) = [row |-> row, column |-> column - 1]
BY DEF Put, LEFT, DEL

\* One more character of a text.
LEMMA OverGrows ==
  ASSUME NEW row \in Seq(Shown), NEW column \in 0 .. Len(row), NEW text \in Seq(Shown),
         NEW t \in 0 .. Len(text) - 1
  PROVE  /\ Over(row, column, SubSeq(text, 1, t)) \in Seq(Shown)
         /\ column + t \in 0 .. Len(Over(row, column, SubSeq(text, 1, t)))
         /\ Over(Over(row, column, SubSeq(text, 1, t)), column + t, <<text[t + 1]>>)
              = Over(row, column, SubSeq(text, 1, t + 1))
<1> DEFINE x == SubSeq(text, 1, t)
           y == SubSeq(text, 1, t + 1)
           z == <<text[t + 1]>>
<1>1. /\ x \in Seq(Shown) /\ Len(x) = t /\ \A k \in 1 .. t : x[k] = text[k]
      /\ y \in Seq(Shown) /\ Len(y) = t + 1 /\ \A k \in 1 .. t + 1 : y[k] = text[k]
      /\ z \in Seq(Shown) /\ Len(z) = 1 /\ z[1] = text[t + 1]
  OBVIOUS
<1>2. t \in Nat /\ column \in Nat /\ Len(row) \in Nat /\ column <= Len(row)
  OBVIOUS
<1> HIDE DEF x, y, z
<1> DEFINE a == Over(row, column, x)
<1>3. /\ a \in Seq(Shown) /\ Len(a) = IF column + t > Len(row) THEN column + t ELSE Len(row)
      /\ \A k \in 1 .. Len(a) : a[k] = IF k > column /\ k <= column + t THEN x[k - column] ELSE row[k]
  <2>1. a \in Seq(Shown) /\ Len(a) = IF column + t > Len(row) THEN column + t ELSE Len(row)
    BY <1>1, OverIs
  <2> QED  BY <1>1, <2>1 DEF Over
<1>4. column + t \in 0 .. Len(a)
  BY <1>2, <1>3
<1> HIDE DEF a
<1> DEFINE b == Over(a, column + t, z)
           c == Over(row, column, y)
<1>5. /\ b \in Seq(Shown) /\ Len(b) = IF column + t + 1 > Len(a) THEN column + t + 1 ELSE Len(a)
      /\ \A k \in 1 .. Len(b) : b[k] = IF k > column + t /\ k <= column + t + 1 THEN z[k - (column + t)] ELSE a[k]
  <2>1. b \in Seq(Shown) /\ Len(b) = IF column + t + 1 > Len(a) THEN column + t + 1 ELSE Len(a)
    <3>1. Len(b) = IF (column + t) + Len(z) > Len(a) THEN (column + t) + Len(z) ELSE Len(a)
      BY <1>1, <1>3, <1>4, OverIs
    <3>2. b \in Seq(Shown)
      BY <1>1, <1>3, <1>4, OverIs
    <3> QED  BY <1>1, <3>1, <3>2
  <2> QED  BY <1>1, <2>1 DEF Over
<1>6. /\ c \in Seq(Shown) /\ Len(c) = IF column + (t + 1) > Len(row) THEN column + (t + 1) ELSE Len(row)
      /\ \A k \in 1 .. Len(c) : c[k] = IF k > column /\ k <= column + (t + 1) THEN y[k - column] ELSE row[k]
  <2>1. c \in Seq(Shown) /\ Len(c) = IF column + (t + 1) > Len(row) THEN column + (t + 1) ELSE Len(row)
    <3>1. Len(c) = IF column + Len(y) > Len(row) THEN column + Len(y) ELSE Len(row)
      BY <1>1, OverIs
    <3>2. c \in Seq(Shown)
      BY <1>1, OverIs
    <3> QED  BY <1>1, <3>1, <3>2
  <2> QED  BY <1>1, <2>1 DEF Over
<1> HIDE DEF b, c
<1>7. Len(b) = Len(c)
  BY <1>2, <1>3, <1>5, <1>6
<1>8. ASSUME NEW k \in 1 .. Len(b) PROVE b[k] = c[k]
  <2>1. CASE k = column + t + 1
    <3>1. k - (column + t) = 1 /\ k - column = t + 1 /\ t + 1 \in 1 .. t + 1
      BY <1>2, <2>1
    <3>2. b[k] = z[1] /\ c[k] = y[t + 1]
      BY <1>2, <1>5, <1>6, <1>7, <2>1, <3>1
    <3> QED  BY <1>1, <3>1, <3>2
  <2>2. CASE k > column /\ k <= column + t
    <3>1. k \in 1 .. Len(a) /\ k - column \in 1 .. t /\ k - column \in 1 .. t + 1
      BY <1>2, <1>3, <2>2
    <3>2. b[k] = a[k]
      <4>1. ~(k > column + t /\ k <= column + t + 1)
        BY <1>2, <2>2, <3>1
      <4> QED  BY <1>5, <4>1, Zenon
    <3>3. a[k] = x[k - column]
      BY <1>3, <2>2, <3>1
    <3>4. c[k] = y[k - column]
      BY <1>2, <1>6, <1>7, <2>2
    <3> QED  BY <1>1, <3>1, <3>2, <3>3, <3>4
  <2>3. CASE k <= column \/ k > column + t + 1
    <3>1. k \in 1 .. Len(a)
      BY <1>2, <1>3, <1>5, <2>3
    <3>2. b[k] = a[k]
      <4>1. ~(k > column + t /\ k <= column + t + 1)
        BY <1>2, <2>3, <3>1
      <4> QED  BY <1>5, <4>1, Zenon
    <3>3. a[k] = row[k]
      <4>1. ~(k > column /\ k <= column + t)
        BY <1>2, <2>3, <3>1
      <4> QED  BY <1>3, <3>1, <4>1
    <3>4. c[k] = row[k]
      BY <1>2, <1>6, <1>7, <2>3
    <3> QED  BY <3>2, <3>3, <3>4
  <2> QED  BY <1>2, <1>5, <2>1, <2>2, <2>3
<1>9. b = c
  BY <1>5, <1>6, <1>7, <1>8, SameText
<1> QED  BY <1>3, <1>4, <1>9 DEF a, b, c, x, y, z

\* The row before anything is written over it, and after all of it is.
LEMMA OverNothing ==
  ASSUME NEW row \in Seq(Shown), NEW column \in 0 .. Len(row)
  PROVE  Over(row, column, <<>>) = row
<1>1. <<>> \in Seq(Shown) /\ Len(<<>>) = 0
  OBVIOUS
<1>2. Over(row, column, <<>>) \in Seq(Shown) /\ Len(Over(row, column, <<>>)) = Len(row)
  <2>1. /\ Over(row, column, <<>>) \in Seq(Shown)
        /\ Len(Over(row, column, <<>>)) = IF column + Len(<<>>) > Len(row) THEN column + Len(<<>>) ELSE Len(row)
    BY <1>1, OverIs
  <2> QED  BY <1>1, <2>1
<1>3. \A k \in 1 .. Len(row) : Over(row, column, <<>>)[k] = row[k]
  BY <1>1, <1>2 DEF Over
<1> QED  BY <1>2, <1>3, SameText

\* Bytes that are \b p times, a text, and \b b times.
Draws(bytes, p, text, b) ==
  /\ Len(bytes) = p + Len(text) + b
  /\ \A k \in 1 .. Len(bytes) : bytes[k] = IF k > p /\ k <= p + Len(text) THEN text[k - p] ELSE LEFT

\* What the console sends: p times \b, a text, b times \b.
LEMMA Drawn ==
  ASSUME NEW row \in Seq(Shown), NEW column \in 0 .. Len(row), NEW text \in Seq(Shown),
         NEW p \in 0 .. column, NEW b \in 0 .. column - p + Len(text),
         NEW bytes, Draws(bytes, p, text, b)
  PROVE  Sent([row |-> row, column |-> column], bytes)
           = [row |-> Over(row, column - p, text), column |-> column - p + Len(text) - b]
<1> DEFINE m == Len(text)
           N == p + m + b
           From == column - p
           T(n) == IF n <= p THEN 0 ELSE IF n <= p + m THEN n - p ELSE m
           C(n) == IF n <= p THEN column - n ELSE IF n <= p + m THEN From + (n - p) ELSE From + m - (n - p - m)
           g == [n \in 0 .. N |-> [row |-> Over(row, From, SubSeq(text, 1, T(n))), column |-> C(n)]]
<1>1. /\ m \in Nat /\ N \in Nat /\ p \in Nat /\ b \in Nat /\ column \in Nat /\ From \in Nat
      /\ From \in 0 .. Len(row) /\ From <= column /\ b <= From + m /\ From + p = column
  OBVIOUS
<1> HIDE DEF m, From
<1>2. g[0] = [row |-> row, column |-> column]
  <2>1. T(0) = 0 /\ C(0) = column /\ SubSeq(text, 1, 0) = <<>> /\ 0 \in 0 .. N
    BY <1>1
  <2>2. Over(row, From, <<>>) = row
    BY <1>1, OverNothing
  <2> QED  BY <2>1, <2>2
<1>3. ASSUME NEW n \in 1 .. N PROVE g[n] = Put(g[n - 1], bytes[n])
  <2>1. n \in 0 .. N /\ n - 1 \in 0 .. N /\ Len(bytes) = N
    BY <1>1 DEF m, Draws
  <2>2. bytes[n] = IF n > p /\ n <= p + m THEN text[n - p] ELSE LEFT
    BY <2>1 DEF m, Draws
  <2>3. CASE n <= p
    <3>0. n - 1 <= p /\ n \in Int /\ column - (n - 1) \in Nat \ {0}
      BY <1>1, <2>3
    <3>1. T(n) = 0 /\ T(n - 1) = 0
      BY <2>3, <3>0
    <3>2. C(n) = C(n - 1) - 1 /\ C(n - 1) \in Nat \ {0}
      BY <1>1, <2>3, <3>0
    <3>3. bytes[n] = LEFT
      BY <2>2, <2>3, <3>0, <1>1
    <3> HIDE DEF T, C
    <3> QED  BY <2>1, <3>1, <3>2, <3>3, PutLeft
  <2>4. CASE n > p /\ n <= p + m
    <3>0. /\ T(n) = n - p /\ T(n - 1) = n - p - 1 /\ C(n) = From + (n - p) /\ C(n - 1) = From + (n - p - 1)
          /\ n - p \in 1 .. m
      <4>1. CASE n - 1 = p
        BY <1>1, <2>4, <4>1
      <4>2. CASE n - 1 # p
        BY <1>1, <2>4, <4>2
      <4> QED  BY <4>1, <4>2
    <3>1. /\ T(n) = T(n - 1) + 1 /\ T(n - 1) \in 0 .. m - 1 /\ C(n) = C(n - 1) + 1
          /\ C(n - 1) = From + T(n - 1) /\ bytes[n] = text[T(n - 1) + 1]
      <4> HIDE DEF T, C
      <4>1. n - p \in Int /\ n - p - 1 \in 0 .. m - 1 /\ (n - p - 1) + 1 = n - p
        BY <1>1, <3>0
      <4>2. bytes[n] = text[n - p] /\ T(n - 1) + 1 = n - p
        BY <2>2, <2>4, <3>0, <4>1
      <4>3. From + (n - p) = From + (n - p - 1) + 1
        BY <1>1, <4>1
      <4> QED  BY <3>0, <4>1, <4>2, <4>3
    <3> DEFINE t == T(n - 1)
    <3> HIDE DEF T, C
    <3>2. t \in 0 .. Len(text) - 1 /\ text[t + 1] \in Shown
      BY <3>1 DEF m
    <3> HIDE DEF t
    <3>3. /\ Over(row, From, SubSeq(text, 1, t)) \in Seq(Shown)
          /\ From + t \in 0 .. Len(Over(row, From, SubSeq(text, 1, t)))
          /\ Over(Over(row, From, SubSeq(text, 1, t)), From + t, <<text[t + 1]>>)
               = Over(row, From, SubSeq(text, 1, t + 1))
      BY <1>1, <3>2, OverGrows
    <3>4. Put([row |-> Over(row, From, SubSeq(text, 1, t)), column |-> From + t], text[t + 1])
            = [row |-> Over(row, From, SubSeq(text, 1, t + 1)), column |-> From + t + 1]
      BY <3>2, <3>3, PutIs
    <3>5. g[n - 1] = [row |-> Over(row, From, SubSeq(text, 1, t)), column |-> From + t]
      BY <2>1, <3>1 DEF t
    <3>6. g[n] = [row |-> Over(row, From, SubSeq(text, 1, t + 1)), column |-> From + t + 1]
      BY <2>1, <3>1 DEF t
    <3> QED  BY <3>1, <3>4, <3>5, <3>6 DEF t
  <2>5. CASE n > p + m
    <3>0. n > p /\ n <= p + m + b /\ ~(n <= p) /\ n \in Int /\ ~(n <= p + m)
      <4>1. n \in Int /\ n <= p + m + b
        BY <1>1
      <4> QED  BY <1>1, <2>5, <4>1
    <3>1. T(n) = m
      BY <3>0
    <3>2. C(n) = From + m - (n - p - m) /\ C(n - 1) = From + m - (n - 1 - p - m) /\ T(n - 1) = m
      <4>1. CASE n - 1 = p
        <5>1. m = 0
          BY <1>1, <3>0, <4>1
        <5> QED  BY <1>1, <3>0, <4>1, <5>1
      <4>2. CASE n - 1 # p /\ n - 1 = p + m
        BY <1>1, <3>0, <4>2
      <4>3. CASE n - 1 > p + m
        BY <1>1, <3>0, <4>3
      <4> QED  BY <1>1, <3>0, <4>1, <4>2, <4>3
    <3>3. bytes[n] = LEFT
      BY <2>2, <3>0
    <3> HIDE DEF T, C
    <3>4. C(n) = C(n - 1) - 1 /\ C(n - 1) \in Nat \ {0}
      BY <1>1, <3>0, <3>2
    <3> QED  BY <2>1, <3>1, <3>2, <3>3, <3>4, PutLeft
  <2>6. n <= p \/ (n > p /\ n <= p + m) \/ n > p + m
    <3>1. n \in Int
      BY <1>1
    <3> QED  BY <1>1, <3>1
  <2> HIDE DEF g
  <2> QED  BY <2>3, <2>4, <2>5, <2>6
<1>4. Len(bytes) = N
  BY DEF m, Draws
<1>5. g[N] = [row |-> Over(row, From, text), column |-> From + m - b]
  <2>1. T(N) = m /\ C(N) = From + m - b /\ N \in 0 .. N
    <3>1. CASE N <= p
      <4>1. m = 0 /\ b = 0 /\ N = p
        BY <1>1, <3>1
      <4> QED  BY <1>1, <4>1
    <3>2. CASE N > p /\ b = 0
      BY <1>1, <3>2
    <3>3. CASE N > p /\ b > 0
      BY <1>1, <3>3
    <3> QED  BY <1>1, <3>1, <3>2, <3>3
  <2>2. SubSeq(text, 1, m) = text
    BY DEF m
  <2> QED  BY <2>1, <2>2
<1> HIDE DEF g, N
<1>6. N \in Nat
  BY <1>1 DEF N
<1> QED  BY <1>2, <1>3, <1>4, <1>5, <1>6, SentIs DEF From, m

-----------------------------------------------------------------------------
(* The line, the history and what the user sees of them.                   *)

\* What a line may hold.
Typed == Letters \cup {DEL}

LineInv ==
  /\ line \in [1 .. Size -> Typed \cup {NUL}]
  /\ length \in 0 .. Size - 1 /\ cursor \in 0 .. length
  /\ line[length + 1] = NUL
  /\ \A k \in 1 .. length : line[k] \in Typed
  /\ escape_state \in 0 .. 2 /\ repl_mode \in BOOLEAN

\* A line that is remembered after others.
KeptAfter(lines, text) ==
  IF text = <<>> \/ (lines # <<>> /\ Last(lines) = text) THEN lines ELSE Append(lines, text)

Recent(lines) ==
  SubSeq(lines, IF Len(lines) > HISTORY_COUNT THEN Len(lines) - HISTORY_COUNT + 1 ELSE 1, Len(lines))

HistoryInv ==
  /\ entered \in Seq(Seq(Typed))
  /\ history \in Seq(Seq(Typed)) /\ history_index \in 0 .. Len(history)
  /\ \A k \in 1 .. Len(history) : Len(history[k]) < Size /\ \E j \in 1 .. Len(entered) : history[k] = entered[j]
  /\ \E f : /\ f[0] = <<>> /\ \A n \in 1 .. Len(entered) : f[n] = KeptAfter(f[n - 1], entered[n])
            /\ f[Len(entered)] \in Seq(Seq(Typed))
            /\ history = Recent(f[Len(entered)])

\* What a cell of the row shows.
Cell(text, n, k) == IF k <= n THEN text[k] ELSE " "

\* A row shows the first n characters of a line, and blanks.
Shows(row, text, n) == \A k \in 1 .. Len(row) : row[k] = Cell(text, n, k)

\* A line is another with a text written over it from one place on.
Follows(new, m, from, text, old, n) ==
  \A k \in Nat \ {0} :
    Cell(new, m, k) = IF k > from /\ k <= from + Len(text) THEN text[k - from] ELSE Cell(old, n, k)

\* The row shows the line and blanks.  The lines hold no DEL, which moves
\* nothing on the terminal.
ScreenInv ==
  /\ \A k \in 1 .. length : line[k] \in Letters
  /\ \A k \in 1 .. Len(history) : history[k] \in Seq(Letters)
  /\ screen \in [row : Seq(Shown), column : Nat]
  /\ screen.column = cursor /\ Len(screen.row) >= length
  /\ Shows(screen.row, line, length)

EditorInv == LineInv /\ HistoryInv /\ (DEL \notin EraseKeys => ScreenInv)

\* The texts on either side of the cursor.
LEMMA SidesAre ==
  ASSUME LineInv
  PROVE  /\ SubSeq(line, 1, cursor) \in Seq(Typed) /\ Len(SubSeq(line, 1, cursor)) = cursor
         /\ \A k \in 1 .. cursor : SubSeq(line, 1, cursor)[k] = line[k]
         /\ SubSeq(line, cursor + 1, length) \in Seq(Typed)
         /\ Len(SubSeq(line, cursor + 1, length)) = length - cursor
         /\ \A k \in 1 .. length - cursor : SubSeq(line, cursor + 1, length)[k] = line[cursor + k]
         /\ Content \in Seq(Typed) /\ Len(Content) = length
         /\ \A k \in 1 .. length : Content[k] = line[k]
         /\ Content = SubSeq(line, 1, cursor) \o SubSeq(line, cursor + 1, length)
<1> DEFINE x == SubSeq(line, 1, cursor)
           y == SubSeq(line, cursor + 1, length)
<1>1. /\ Size \in Nat /\ length \in Nat /\ cursor \in Nat /\ cursor <= length /\ length < Size
      /\ line \in [1 .. Size -> Typed \cup {NUL}] /\ \A k \in 1 .. length : line[k] \in Typed
  BY EditorAssumption DEF LineInv
<1>2. x \in Seq(Typed) /\ Len(x) = cursor /\ \A k \in 1 .. cursor : x[k] = line[k]
  BY <1>1
<1>3. y \in Seq(Typed) /\ Len(y) = length - cursor /\ \A k \in 1 .. length - cursor : y[k] = line[cursor + k]
  BY <1>1
<1>4. Content \in Seq(Typed) /\ Len(Content) = length /\ \A k \in 1 .. length : Content[k] = line[k]
  BY <1>1 DEF Content
<1> HIDE DEF x, y
<1>5. x \o y \in Seq(Typed) /\ Len(x \o y) = length
  <2>1. x \o y \in Seq(Typed) /\ Len(x \o y) = Len(x) + Len(y)
    BY <1>2, <1>3, JoinIs
  <2> QED  BY <1>1, <1>2, <1>3, <2>1
<1>6. ASSUME NEW k \in 1 .. length PROVE (x \o y)[k] = line[k]
  <2>1. k \in 1 .. Len(x) + Len(y)
    BY <1>1, <1>2, <1>3
  <2>2. (x \o y)[k] = IF k <= Len(x) THEN x[k] ELSE y[k - Len(x)]
    BY <1>2, <1>3, <2>1, JoinIs
  <2>3. CASE k <= cursor
    BY <1>1, <1>2, <2>2, <2>3
  <2>4. CASE k > cursor
    <3>1. k - cursor \in 1 .. length - cursor /\ cursor + (k - cursor) = k
      BY <1>1, <2>4
    <3> QED  BY <1>1, <1>2, <1>3, <2>2, <2>4, <3>1
  <2>5. k <= cursor \/ k > cursor
    BY <1>1
  <2> QED  BY <2>3, <2>4, <2>5
<1>7. Content = x \o y
  BY <1>4, <1>5, <1>6, SameText
<1> QED  BY <1>2, <1>3, <1>4, <1>7 DEF x, y

\* Nothing but the state of an escape sequence changes.
LEMMA EscapeKeeps ==
  ASSUME EditorInv, escape_state' \in 0 .. 2,
         UNCHANGED <<buffer, history, history_index, repl_mode, screen, entered>>
  PROVE  EditorInv' /\ UNCHANGED Editor!vars
<1>1. LineInv'
  BY DEF EditorInv, LineInv, buffer
<1>2. HistoryInv'
  BY DEF EditorInv, HistoryInv, KeptAfter, Recent
<1>3. ScreenInv => ScreenInv'
  BY DEF ScreenInv, buffer
<1> QED  BY <1>1, <1>2, <1>3 DEF EditorInv, Editor!vars, buffer

\* The history stays as it is when no line is entered.
LEMMA HistoryStays ==
  ASSUME HistoryInv, history_index' \in 0 .. Len(history), UNCHANGED <<history, entered>>
  PROVE  HistoryInv'
BY DEF HistoryInv, KeptAfter, Recent

\* Numbers between others.
LEMMA Between ==
  ASSUME NEW c \in Nat, NEW p \in 0 .. c, NEW n \in Nat, c <= n
  PROVE  c - p \in 0 .. n /\ c - p \in Nat
OBVIOUS

\* A text over a row that shows a line makes it show the new line.
LEMMA OverShows ==
  ASSUME NEW row \in Seq(Shown), NEW from \in Nat, from <= Len(row), NEW text \in Seq(Shown),
         NEW old, NEW n \in Nat, Shows(row, old, n), n <= Len(row),
         NEW new, NEW m \in Nat, m <= n \/ m <= from + Len(text), Follows(new, m, from, text, old, n)
  PROVE  /\ Over(row, from, text) \in Seq(Shown) /\ Len(Over(row, from, text)) >= m
         /\ Shows(Over(row, from, text), new, m)
<1> DEFINE r == Over(row, from, text)
<1>1. from \in 0 .. Len(row) /\ Len(row) \in Nat /\ Len(text) \in Nat
  OBVIOUS
<1>2. r \in Seq(Shown) /\ Len(r) = IF from + Len(text) > Len(row) THEN from + Len(text) ELSE Len(row)
  BY <1>1, OverIs
<1>3. \A k \in 1 .. Len(r) : r[k] = IF k > from /\ k <= from + Len(text) THEN text[k - from] ELSE row[k]
  BY <1>2 DEF Over
<1> HIDE DEF r
<1>4. Len(r) >= m
  BY <1>1, <1>2
<1>5. ASSUME NEW k \in 1 .. Len(r) PROVE r[k] = Cell(new, m, k)
  <2>1. k \in Nat \ {0}
    BY <1>1, <1>2
  <2>2. CASE k > from /\ k <= from + Len(text)
    BY <1>3, <2>1, <2>2 DEF Follows
  <2>3. CASE ~(k > from /\ k <= from + Len(text))
    <3>1. k \in 1 .. Len(row)
      BY <1>1, <1>2, <2>1, <2>3
    <3> QED  BY <1>3, <2>1, <2>3, <3>1 DEF Follows, Shows
  <2> QED  BY <2>2, <2>3
<1> QED  BY <1>2, <1>4, <1>5 DEF r, Shows

\* What is sent for a change of the line makes the row show the new line.
LEMMA RowFollows ==
  ASSUME LineInv, ScreenInv, NEW p \in 0 .. cursor, NEW text \in Seq(Shown),
         NEW b \in 0 .. cursor - p + Len(text), NEW bytes, Draws(bytes, p, text, b),
         NEW new, NEW m \in Nat, m <= length \/ m <= cursor - p + Len(text),
         Follows(new, m, cursor - p, text, line, length)
  PROVE  LET r == Sent(screen, bytes)
         IN  /\ r \in [row : Seq(Shown), column : Nat] /\ r.column = cursor - p + Len(text) - b
             /\ Len(r.row) >= m /\ Shows(r.row, new, m)
<1>1. PICK row : row = screen.row
  OBVIOUS
<1>2. PICK from : from = cursor - p
  OBVIOUS
<1>3. cursor \in 0 .. length /\ length \in Nat /\ cursor \in Nat
  BY EditorAssumption DEF LineInv
<1>4. row \in Seq(Shown) /\ length <= Len(row) /\ Shows(row, line, length)
  BY <1>1 DEF ScreenInv
<1>5. screen = [row |-> row, column |-> cursor]
  BY <1>1 DEF ScreenInv
<1>6. Len(row) \in Nat /\ cursor \in 0 .. Len(row)
  BY <1>3, <1>4
<1>7. from \in Nat /\ from <= Len(row)
  BY <1>2, <1>3, <1>6, Between
<1>8. Sent(screen, bytes) = [row |-> Over(row, from, text), column |-> from + Len(text) - b]
  BY <1>2, <1>4, <1>5, <1>6, Drawn
<1>9. /\ Over(row, from, text) \in Seq(Shown) /\ Len(Over(row, from, text)) >= m
      /\ Shows(Over(row, from, text), new, m)
  BY <1>2, <1>3, <1>4, <1>7, OverShows
<1>10. from + Len(text) - b \in Nat
  <2>1. Len(text) \in Nat /\ b \in 0 .. from + Len(text)
    BY <1>2
  <2> QED  BY <1>7, <2>1
<1> QED  BY <1>2, <1>8, <1>9, <1>10

\* The row of a line that is drawn at once.
LEMMA RowIsText ==
  ASSUME NEW text \in Seq(Letters)
  PROVE  Sent(Blank, text) = [row |-> text, column |-> Len(text)]
<1>1. /\ text \in Seq(Shown) /\ <<>> \in Seq(Shown) /\ Len(<<>>) = 0 /\ Len(text) \in Nat
  <2>1. Letters \subseteq Shown
    BY DEF Shown
  <2>2. text \in [1 .. Len(text) -> Letters] /\ Len(text) \in Nat
    OBVIOUS
  <2>3. text \in [1 .. Len(text) -> Shown]
    BY <2>1, <2>2
  <2> QED  BY <2>2, <2>3
<1>2. Sent([row |-> <<>>, column |-> 0], text) = [row |-> Over(<<>>, 0, text), column |-> Len(text)]
  <2>1. PICK none : none = <<>>
    OBVIOUS
  <2>2. PICK zero : zero = 0
    OBVIOUS
  <2>3. /\ none \in Seq(Shown) /\ zero \in 0 .. Len(none) /\ zero \in 0 .. zero
        /\ zero \in 0 .. zero - zero + Len(text)
    BY <1>1, <2>1, <2>2
  <2>4. Draws(text, zero, text, zero)
    BY <1>1, <2>2 DEF Draws
  <2>5. Sent([row |-> none, column |-> zero], text)
          = [row |-> Over(none, zero - zero, text), column |-> zero - zero + Len(text) - zero]
    BY <1>1, <2>3, <2>4, Drawn
  <2>6. zero - zero = zero /\ zero - zero + Len(text) - zero = Len(text)
    BY <1>1, <2>2
  <2> QED  BY <2>1, <2>2, <2>5, <2>6
<1>3. Over(<<>>, 0, text) = text
  <2>1. /\ Over(<<>>, 0, text) \in Seq(Shown)
        /\ Len(Over(<<>>, 0, text)) = IF 0 + Len(text) > Len(<<>>) THEN 0 + Len(text) ELSE Len(<<>>)
    <3> DEFINE none == <<>>
    <3>1. none \in Seq(Shown) /\ 0 \in 0 .. Len(none)
      BY <1>1
    <3> HIDE DEF none
    <3>2. /\ Over(none, 0, text) \in Seq(Shown)
          /\ Len(Over(none, 0, text)) = IF 0 + Len(text) > Len(none) THEN 0 + Len(text) ELSE Len(none)
      BY <1>1, <3>1, OverIs
    <3> QED  BY <3>2 DEF none
  <2>2. Len(Over(<<>>, 0, text)) = Len(text)
    BY <1>1, <2>1
  <2>3. \A k \in 1 .. Len(text) : Over(<<>>, 0, text)[k] = text[k]
    BY <1>1, <2>2 DEF Over
  <2> QED  BY <1>1, <2>1, <2>2, <2>3, SameText
<1> QED  BY <1>1, <1>2, <1>3 DEF Blank

\* A cursor key moves over one character.
LEMMA MoveKeeps ==
  ASSUME EditorInv, escape_state' = 0, UNCHANGED <<history, repl_mode, entered, line, length, history_index>>,
         \/ cursor < length /\ screen' = Sent(screen, <<line[cursor + 1]>>) /\ cursor' = cursor + 1
         \/ cursor > 0 /\ screen' = Sent(screen, <<LEFT>>) /\ cursor' = cursor - 1
  PROVE  EditorInv' /\ (Editor!Left \/ Editor!Right)
<1>1. /\ LineInv /\ cursor \in Nat /\ length \in Nat /\ cursor <= length /\ length < Size /\ Size \in Nat
      /\ line \in [1 .. Size -> Typed \cup {NUL}]
      /\ \A k \in 1 .. length : line[k] \in Typed
  BY EditorAssumption DEF EditorInv, LineInv
<1>2. LineInv'
  BY <1>1 DEF LineInv
<1>3. HistoryInv'
  BY HistoryStays DEF EditorInv, HistoryInv
<1>4. CASE cursor < length /\ screen' = Sent(screen, <<line[cursor + 1]>>) /\ cursor' = cursor + 1
  <2>1. ScreenInv => ScreenInv'
    <3> SUFFICES ASSUME ScreenInv PROVE ScreenInv'
      OBVIOUS
    <3> DEFINE text == <<line[cursor + 1]>>
    <3>1. text \in Seq(Shown) /\ Len(text) = 1 /\ text[1] = line[cursor + 1]
      <4>1. cursor + 1 \in 1 .. length
        BY <1>1, <1>4
      <4>2. line[cursor + 1] \in Letters
        BY <4>1 DEF ScreenInv
      <4>3. line[cursor + 1] \in Shown
        BY <4>2 DEF Shown
      <4> QED  BY <4>3
    <3> HIDE DEF text
    <3>2. PICK zero : zero = 0
      OBVIOUS
    <3>3. /\ zero \in 0 .. cursor /\ zero \in 0 .. cursor - zero + Len(text)
          /\ cursor' = cursor - zero + Len(text) - zero /\ screen' = Sent(screen, text)
      BY <1>1, <1>4, <3>1, <3>2 DEF text
    <3>4. Draws(text, zero, text, zero)
      BY <3>1, <3>2 DEF Draws
    <3>5. Follows(line, length, cursor - zero, text, line, length)
      <4> SUFFICES ASSUME NEW k \in Nat \ {0}, k > cursor, k <= cursor + 1
                   PROVE  Cell(line, length, k) = text[k - (cursor - zero)]
        BY <1>1, <3>1, <3>2 DEF Follows
      <4>1. k = cursor + 1 /\ k - (cursor - zero) = 1 /\ k <= length
        BY <1>1, <1>4, <3>2
      <4> QED  BY <3>1, <4>1 DEF Cell
    <3>6. LET r == Sent(screen, text)
          IN  /\ r \in [row : Seq(Shown), column : Nat] /\ r.column = cursor - zero + Len(text) - zero
              /\ Len(r.row) >= length /\ Shows(r.row, line, length)
      <4>1. length \in Nat /\ length <= length
        BY <1>1
      <4> QED  BY <1>1, <3>1, <3>3, <3>4, <3>5, <4>1, RowFollows
    <3> QED  BY <3>3, <3>6 DEF ScreenInv, Shows
  <2>2. Editor!Right
    <3> DEFINE x == SubSeq(line, 1, cursor)
               y == SubSeq(line, cursor + 1, length)
               xx == SubSeq(line, 1, cursor + 1)
               yy == SubSeq(line, cursor + 2, length)
    <3>1. /\ x \in Seq(Typed) /\ Len(x) = cursor /\ \A k \in 1 .. cursor : x[k] = line[k]
          /\ y \in Seq(Typed) /\ Len(y) = length - cursor
          /\ \A k \in 1 .. length - cursor : y[k] = line[cursor + k]
      BY <1>1, SidesAre
    <3>2. /\ xx \in Seq(Typed) /\ Len(xx) = cursor + 1 /\ \A k \in 1 .. cursor + 1 : xx[k] = line[k]
      BY <1>1, <1>4
    <3>3. /\ yy \in Seq(Typed) /\ Len(yy) = length - cursor - 1
          /\ \A k \in 1 .. length - cursor - 1 : yy[k] = line[cursor + 1 + k]
      BY <1>1, <1>4
    <3> HIDE DEF x, y, xx, yy
    <3>4. y # <<>> /\ Head(y) = line[cursor + 1] /\ line[cursor + 1] \in Typed
      BY <1>1, <1>4, <3>1
    <3>5. xx = Append(x, Head(y))
      <4>1. /\ Append(x, Head(y)) \in Seq(Typed) /\ Len(Append(x, Head(y))) = cursor + 1
            /\ \A k \in 1 .. cursor + 1 : Append(x, Head(y))[k] = line[k]
        BY <1>1, <3>1, <3>4
      <4> QED  BY <3>2, <4>1, SameText
    <3>6. yy = Tail(y)
      <4>1. /\ Tail(y) \in Seq(Typed) /\ Len(Tail(y)) = length - cursor - 1
            /\ \A k \in 1 .. length - cursor - 1 : Tail(y)[k] = y[k + 1]
        BY <1>1, <1>4, <3>1, <3>4
      <4>2. \A k \in 1 .. length - cursor - 1 : Tail(y)[k] = yy[k]
        <5> SUFFICES ASSUME NEW k \in 1 .. length - cursor - 1 PROVE Tail(y)[k] = yy[k]
          OBVIOUS
        <5>1. k + 1 \in 1 .. length - cursor /\ cursor + (k + 1) = cursor + 1 + k
          BY <1>1
        <5> QED  BY <3>1, <3>3, <4>1, <5>1
      <4> QED  BY <3>3, <4>1, <4>2, SameText
    <3>7. /\ SubSeq(line, 1, cursor)' = xx /\ SubSeq(line, cursor + 1, length)' = yy
      <4>1. cursor' + 1 = cursor + 2
        BY <1>1, <1>4
      <4> QED  BY <1>4, <4>1 DEF xx, yy
    <3> QED  BY <3>4, <3>5, <3>6, <3>7 DEF Editor!Right, x, y
  <2> QED  BY <1>2, <1>3, <2>1, <2>2 DEF EditorInv
<1>5. CASE cursor > 0 /\ screen' = Sent(screen, <<LEFT>>) /\ cursor' = cursor - 1
  <2>1. ScreenInv => ScreenInv'
    <3> SUFFICES ASSUME ScreenInv PROVE ScreenInv'
      OBVIOUS
    <3>1. PICK bytes : bytes = <<LEFT>>
      OBVIOUS
    <3>2. PICK none : none = <<>>
      OBVIOUS
    <3>3. PICK one : one = 1
      OBVIOUS
    <3>4. PICK zero : zero = 0
      OBVIOUS
    <3>5. none \in Seq(Shown) /\ Len(none) = 0 /\ Len(bytes) = 1 /\ \A k \in 1 .. Len(bytes) : bytes[k] = LEFT
      BY <3>1, <3>2
    <3>6. /\ one \in 0 .. cursor /\ zero \in 0 .. cursor - one + Len(none)
          /\ cursor' = cursor - one + Len(none) - zero /\ screen' = Sent(screen, bytes)
      BY <1>1, <1>5, <3>1, <3>3, <3>4, <3>5
    <3>7. Draws(bytes, one, none, zero)
      BY <3>3, <3>4, <3>5 DEF Draws
    <3>8. Follows(line, length, cursor - one, none, line, length)
      BY <1>1, <3>3, <3>5 DEF Follows
    <3>9. LET r == Sent(screen, bytes)
          IN  /\ r \in [row : Seq(Shown), column : Nat] /\ r.column = cursor - one + Len(none) - zero
              /\ Len(r.row) >= length /\ Shows(r.row, line, length)
      <4>1. length \in Nat /\ length <= length
        BY <1>1
      <4> QED  BY <1>1, <3>5, <3>6, <3>7, <3>8, <4>1, RowFollows
    <3> QED  BY <3>6, <3>9 DEF ScreenInv, Shows
  <2>2. Editor!Left
    <3> DEFINE x == SubSeq(line, 1, cursor)
               y == SubSeq(line, cursor + 1, length)
               xx == SubSeq(line, 1, cursor - 1)
               yy == SubSeq(line, cursor, length)
    <3>1. /\ x \in Seq(Typed) /\ Len(x) = cursor /\ \A k \in 1 .. cursor : x[k] = line[k]
          /\ y \in Seq(Typed) /\ Len(y) = length - cursor
          /\ \A k \in 1 .. length - cursor : y[k] = line[cursor + k]
      BY <1>1, SidesAre
    <3>2. /\ xx \in Seq(Typed) /\ Len(xx) = cursor - 1 /\ \A k \in 1 .. cursor - 1 : xx[k] = line[k]
      BY <1>1, <1>5
    <3>3. /\ yy \in Seq(Typed) /\ Len(yy) = length - cursor + 1
          /\ \A k \in 1 .. length - cursor + 1 : yy[k] = line[cursor - 1 + k]
      BY <1>1, <1>5
    <3> HIDE DEF x, y, xx, yy
    <3>4. x # <<>> /\ Editor!Last(x) = line[cursor] /\ line[cursor] \in Typed
      BY <1>1, <1>5, <3>1 DEF Editor!Last
    <3>5. xx = Editor!Front(x)
      <4>1. /\ Editor!Front(x) \in Seq(Typed) /\ Len(Editor!Front(x)) = cursor - 1
            /\ \A k \in 1 .. cursor - 1 : Editor!Front(x)[k] = line[k]
        BY <1>1, <1>5, <3>1 DEF Editor!Front
      <4> QED  BY <3>2, <4>1, SameText
    <3>6. yy = <<Editor!Last(x)>> \o y
      <4> DEFINE z == <<Editor!Last(x)>>
      <4>1. z \in Seq(Typed) /\ Len(z) = 1 /\ z[1] = line[cursor]
        BY <3>4
      <4> HIDE DEF z
      <4>2. z \o y \in Seq(Typed) /\ Len(z \o y) = 1 + (length - cursor)
        <5>1. z \o y \in Seq(Typed) /\ Len(z \o y) = Len(z) + Len(y)
          BY <3>1, <4>1, JoinIs
        <5> QED  BY <3>1, <4>1, <5>1
      <4>3. ASSUME NEW k \in 1 .. length - cursor + 1 PROVE (z \o y)[k] = yy[k]
        <5>1. k \in 1 .. Len(z) + Len(y)
          BY <1>1, <3>1, <4>1
        <5>2. (z \o y)[k] = IF k <= 1 THEN z[k] ELSE y[k - 1]
          <6>1. (z \o y)[k] = IF k <= Len(z) THEN z[k] ELSE y[k - Len(z)]
            BY <3>1, <4>1, <5>1, JoinIs
          <6> QED  BY <4>1, <6>1
        <5>3. CASE k = 1
          <6>1. cursor - 1 + k = cursor
            BY <1>1, <5>3
          <6> QED  BY <3>3, <4>1, <5>2, <5>3, <6>1
        <5>4. CASE k # 1
          <6>1. k - 1 \in 1 .. length - cursor /\ cursor + (k - 1) = cursor - 1 + k /\ ~(k <= 1)
            BY <1>1, <5>4
          <6> QED  BY <3>1, <3>3, <5>2, <6>1
        <5> QED  BY <5>3, <5>4
      <4>4. 1 + (length - cursor) = length - cursor + 1
        BY <1>1
      <4>5. yy = z \o y
        BY <3>3, <4>2, <4>3, <4>4, SameText
      <4> QED  BY <4>5 DEF z
    <3>7. SubSeq(line, 1, cursor)' = xx /\ SubSeq(line, cursor + 1, length)' = yy
      <4>1. cursor' + 1 = cursor
        BY <1>1, <1>5
      <4> QED  BY <1>5, <4>1 DEF xx, yy
    <3> QED  BY <3>4, <3>5, <3>6, <3>7 DEF Editor!Left, x, y
  <2> QED  BY <1>2, <1>3, <2>1, <2>2 DEF EditorInv
<1> QED  BY <1>4, <1>5

\* What is part of what, and of the terminal's alphabet.
LEMMA Alphabets ==
  /\ Letters \subseteq Shown /\ " " \in Shown /\ Letters \subseteq Typed /\ NUL \notin Typed
  /\ LEFT \notin Shown
BY EditorAssumption DEF Shown, Typed, NUL, DEL, LEFT

\* What is typed or deleted in the middle of the line goes to the terminal.
LEMMA InsertKeeps ==
  ASSUME EditorInv, NEW byte \in Typed, DEL \notin EraseKeys => byte \in Letters,
         LineHasRoom, Insert(byte)
  PROVE  EditorInv' /\ Editor!Insert
<1>1. /\ LineInv /\ cursor \in Nat /\ length \in Nat /\ cursor <= length /\ length + 1 < Size /\ Size \in Nat
      /\ line \in [1 .. Size -> Typed \cup {NUL}]
      /\ \A k \in 1 .. length : line[k] \in Typed
  BY EditorAssumption DEF EditorInv, LineInv, LineHasRoom
<1>2. cursor' = cursor + 1 /\ length' = length + 1
      /\ UNCHANGED <<history, history_index, escape_state, repl_mode, entered>>
  BY DEF Insert
<1>3. /\ line' \in [1 .. Size -> Typed \cup {NUL}]
      /\ \A k \in 1 .. cursor : line'[k] = line[k]
      /\ line'[cursor + 1] = byte /\ line'[length + 2] = NUL
      /\ \A k \in cursor + 2 .. length + 1 : line'[k] = line[k - 1]
  <2>1. PICK longer : longer = Moved(line, cursor + 1, cursor, length - cursor)
    OBVIOUS
  <2>2. line' = [longer EXCEPT ![cursor + 1] = byte, ![length + 2] = NUL]
    BY <2>1 DEF Insert
  <2>3. longer = [k \in 1 .. Size |-> IF k > cursor + 1 /\ k <= length + 1 THEN line[k - 1] ELSE line[k]]
    <3>1. ASSUME NEW k \in 1 .. Size
          PROVE  /\ k > cursor + 1 /\ k <= cursor + 1 + (length - cursor) <=> k > cursor + 1 /\ k <= length + 1
                 /\ k - (cursor + 1) + cursor = k - 1
      BY <1>1
    <3> QED  BY <2>1, <3>1 DEF Moved
  <2>4. longer \in [1 .. Size -> Typed \cup {NUL}]
    <3>1. \A k \in 1 .. Size : k > cursor + 1 => k - 1 \in 1 .. Size
      BY <1>1
    <3> QED  BY <1>1, <2>3, <3>1
  <2>5. cursor + 1 \in 1 .. Size /\ length + 2 \in 1 .. Size /\ cursor + 1 # length + 2
    BY <1>1
  <2>6. /\ line' \in [1 .. Size -> Typed \cup {NUL}] /\ line'[cursor + 1] = byte /\ line'[length + 2] = NUL
        /\ \A k \in 1 .. Size : k # cursor + 1 /\ k # length + 2 => line'[k] = longer[k]
    BY <2>2, <2>4, <2>5
  <2>7. ASSUME NEW k \in 1 .. cursor PROVE line'[k] = line[k]
    <3>1. k \in 1 .. Size /\ k # cursor + 1 /\ k # length + 2 /\ ~(k > cursor + 1)
      BY <1>1
    <3> QED  BY <2>3, <2>6, <3>1
  <2>8. ASSUME NEW k \in cursor + 2 .. length + 1 PROVE line'[k] = line[k - 1]
    <3>1. k \in 1 .. Size /\ k # cursor + 1 /\ k # length + 2 /\ k > cursor + 1 /\ k <= length + 1
      BY <1>1
    <3> QED  BY <2>3, <2>6, <3>1
  <2> QED  BY <2>6, <2>7, <2>8
<1>4. \A k \in 1 .. length + 1 :
        line'[k] = IF k <= cursor THEN line[k] ELSE IF k = cursor + 1 THEN byte ELSE line[k - 1]
  BY <1>1, <1>3
<1>5. LineInv'
  <2>1. \A k \in 1 .. length + 1 : line'[k] \in Typed
    BY <1>1, <1>4
  <2>2. length' \in 0 .. Size - 1 /\ cursor' \in 0 .. length' /\ length' + 1 = length + 2
    BY <1>1, <1>2
  <2> QED  BY <1>1, <1>2, <1>3, <2>1, <2>2 DEF LineInv
<1>6. HistoryInv'
  BY <1>2, HistoryStays DEF EditorInv, HistoryInv
<1>7. ASSUME ScreenInv, byte \in Letters PROVE ScreenInv'
  <2>1. PICK text : text = SubSeq(line', cursor + 1, length + 1)
    OBVIOUS
  <2>2. \A k \in 1 .. length + 1 : line'[k] \in Letters
    BY <1>1, <1>4, <1>7 DEF ScreenInv
  <2>3. /\ text \in Seq(Letters) /\ Len(text) = length + 1 - cursor
        /\ \A k \in 1 .. length + 1 - cursor : text[k] = line'[cursor + k]
    BY <1>1, <1>3, <2>1, <2>2
  <2>4. text \in Seq(Shown)
    <3>1. text \in [1 .. Len(text) -> Letters] /\ Len(text) \in Nat
      BY <2>3
    <3>2. text \in [1 .. Len(text) -> Shown]
      BY <3>1, Alphabets
    <3> QED  BY <3>1, <3>2
  <2>5. PICK zero : zero = 0
    OBVIOUS
  <2>6. PICK b : b = length - cursor
    OBVIOUS
  <2>7. PICK bytes : bytes = text \o Back(b)
    OBVIOUS
  <2>8. screen' = Sent(screen, bytes)
    <3>1. length' - cursor' = b /\ SubSeq(line', cursor', length') = text
      BY <1>1, <1>2, <2>1, <2>6
    <3> QED  BY <2>7, <3>1 DEF Insert
  <2>9. Draws(bytes, zero, text, b)
    <3>1. Back(b) \in Seq({LEFT}) /\ Len(Back(b)) = b /\ \A k \in 1 .. b : Back(b)[k] = LEFT
      BY <1>1, <2>6 DEF Back
    <3>2. text \in Seq(Shown \cup {LEFT}) /\ Back(b) \in Seq(Shown \cup {LEFT})
      <4>1. text \in [1 .. Len(text) -> Shown \cup {LEFT}] /\ Back(b) \in [1 .. b -> Shown \cup {LEFT}] /\ b \in Nat /\ Len(text) \in Nat
        BY <1>1, <2>4, <2>6, <3>1
      <4> QED  BY <4>1
    <3>3. /\ Len(bytes) = Len(text) + Len(Back(b))
          /\ \A k \in 1 .. Len(text) + Len(Back(b)) :
               bytes[k] = IF k <= Len(text) THEN text[k] ELSE Back(b)[k - Len(text)]
      BY <2>7, <3>2, JoinIs
    <3>4. ASSUME NEW k \in 1 .. Len(bytes)
          PROVE  bytes[k] = IF k > 0 /\ k <= 0 + Len(text) THEN text[k - 0] ELSE LEFT
      <4>1. Len(text) \in Nat /\ b \in Nat
        BY <1>1, <2>3, <2>6
      <4>2. CASE k <= Len(text)
        BY <3>1, <3>3, <4>1, <4>2
      <4>3. CASE ~(k <= Len(text))
        <5>1. k - Len(text) \in 1 .. b
          BY <3>1, <3>3, <4>1, <4>3
        <5> QED  BY <3>1, <3>3, <4>1, <4>3, <5>1
      <4> QED  BY <4>2, <4>3
    <3>5. Len(bytes) = 0 + Len(text) + b
      BY <1>1, <2>3, <2>6, <3>1, <3>3
    <3> QED  BY <2>5, <3>4, <3>5 DEF Draws
  <2>10. Follows(line', length', cursor - zero, text, line, length)
    <3> SUFFICES ASSUME NEW k \in Nat \ {0}
                 PROVE  Cell(line', length + 1, k) = IF k > cursor /\ k <= cursor + Len(text)
                                                     THEN text[k - cursor] ELSE Cell(line, length, k)
      BY <1>1, <1>2, <2>5 DEF Follows
    <3>1. CASE k <= cursor
      <4>1. k \in 1 .. cursor /\ ~(k > cursor) /\ k <= length /\ k <= length + 1
        BY <1>1, <3>1
      <4>2. line'[k] = line[k]
        BY <1>3, <4>1
      <4> QED  BY <4>1, <4>2 DEF Cell
    <3>2. CASE k > cursor /\ k <= length + 1
      <4>1. k - cursor \in 1 .. length + 1 - cursor /\ cursor + (k - cursor) = k /\ k <= cursor + Len(text)
        BY <1>1, <2>3, <3>2
      <4> QED  BY <2>3, <3>2, <4>1 DEF Cell
    <3>3. CASE k > length + 1
      <4>1. ~(k <= cursor + Len(text)) /\ ~(k <= length) /\ ~(k <= length + 1)
        BY <1>1, <2>3, <3>3
      <4> QED  BY <4>1 DEF Cell
    <3>4. k <= cursor \/ (k > cursor /\ k <= length + 1) \/ k > length + 1
      BY <1>1
    <3> QED  BY <3>1, <3>2, <3>3, <3>4
  <2>11. LET r == Sent(screen, bytes)
         IN  /\ r \in [row : Seq(Shown), column : Nat] /\ r.column = cursor - zero + Len(text) - b
             /\ Len(r.row) >= length' /\ Shows(r.row, line', length')
    <3>1. /\ zero \in 0 .. cursor /\ b \in 0 .. cursor - zero + Len(text)
          /\ length' \in Nat /\ length' <= cursor - zero + Len(text)
      BY <1>1, <1>2, <2>3, <2>5, <2>6
    <3> QED  BY <1>1, <1>7, <2>4, <2>9, <2>10, <3>1, RowFollows
  <2>12. cursor' = cursor - zero + Len(text) - b
    BY <1>1, <1>2, <2>3, <2>5, <2>6
  <2> QED  BY <1>2, <1>7, <2>2, <2>8, <2>11, <2>12 DEF ScreenInv, Shows
<1>8. Editor!Insert
  <2> DEFINE x == SubSeq(line, 1, cursor)
             y == SubSeq(line, cursor + 1, length)
             xx == SubSeq(line', 1, cursor + 1)
             yy == SubSeq(line', cursor + 2, length + 1)
  <2>1. /\ x \in Seq(Typed) /\ Len(x) = cursor /\ \A k \in 1 .. cursor : x[k] = line[k]
        /\ y \in Seq(Typed) /\ Len(y) = length - cursor
        /\ \A k \in 1 .. length - cursor : y[k] = line[cursor + k]
        /\ Content = x \o y /\ Len(Content) = length
    BY <1>1, SidesAre
  <2>2. \A k \in 1 .. length + 1 : line'[k] \in Typed
    BY <1>1, <1>4
  <2>3. xx \in Seq(Typed) /\ Len(xx) = cursor + 1 /\ \A k \in 1 .. cursor + 1 : xx[k] = line'[k]
    BY <1>1, <1>3, <2>2
  <2>4. /\ yy \in Seq(Typed) /\ Len(yy) = length - cursor
        /\ \A k \in 1 .. length - cursor : yy[k] = line'[cursor + 1 + k]
    BY <1>1, <1>3, <2>2
  <2> HIDE DEF x, y, xx, yy
  <2>5. xx = Append(x, byte)
    <3>1. /\ Append(x, byte) \in Seq(Typed) /\ Len(Append(x, byte)) = cursor + 1
          /\ \A k \in 1 .. cursor : Append(x, byte)[k] = x[k]
          /\ Append(x, byte)[cursor + 1] = byte
      BY <1>1, <2>1
    <3>2. \A k \in 1 .. cursor + 1 : Append(x, byte)[k] = xx[k]
      BY <1>1, <1>3, <2>1, <2>3, <3>1
    <3> QED  BY <2>3, <3>1, <3>2, SameText
  <2>6. yy = y
    <3>1. ASSUME NEW k \in 1 .. length - cursor PROVE yy[k] = y[k]
      <4>1. cursor + 1 + k \in cursor + 2 .. length + 1 /\ cursor + 1 + k - 1 = cursor + k
        BY <1>1
      <4>2. PICK j : j = cursor + 1 + k
        OBVIOUS
      <4>3. j \in cursor + 2 .. length + 1
        BY <4>1, <4>2, Zenon
      <4>5. j - 1 = cursor + k
        BY <1>1, <4>2
      <4>4. line'[j] = line[j - 1]
        BY <1>3, <4>3
      <4> QED  BY <2>1, <2>4, <4>2, <4>4, <4>5
    <3> QED  BY <2>1, <2>4, <3>1, SameText
  <2>7. SubSeq(line, 1, cursor)' = xx /\ SubSeq(line, cursor + 1, length)' = yy
    <3>1. cursor' + 1 = cursor + 2
      BY <1>1, <1>2
    <3> QED  BY <1>2, <3>1 DEF xx, yy
  <2>8. Len(Editor!text) < Size - 1
    BY <1>1, <2>1 DEF Editor!text, x, y
  <2> QED  BY <1>2, <2>5, <2>6, <2>7, <2>8 DEF Editor!Insert, Typed, x, y
<1> QED  BY <1>5, <1>6, <1>7, <1>8 DEF EditorInv


\* One text after the other, of given lengths.
IsJoin(z, S, x, y, m, n) ==
  /\ z \in Seq(S) /\ Len(z) = m + n
  /\ \A k \in 1 .. m : z[k] = x[k]
  /\ \A k \in 1 .. n : z[m + k] = y[k]

LEMMA Joined ==
  ASSUME NEW S, NEW x \in Seq(S), NEW y \in Seq(S), NEW m \in Nat, NEW n \in Nat, Len(x) = m, Len(y) = n
  PROVE  IsJoin(x \o y, S, x, y, m, n)
<1>1. /\ x \o y \in Seq(S) /\ Len(x \o y) = m + n
      /\ \A k \in 1 .. m + n : (x \o y)[k] = IF k <= m THEN x[k] ELSE y[k - m]
  BY JoinIs
<1>2. ASSUME NEW k \in 1 .. m PROVE k \in 1 .. m + n /\ k <= m
  OBVIOUS
<1>3. ASSUME NEW k \in 1 .. n PROVE m + k \in 1 .. m + n /\ ~(m + k <= m) /\ m + k - m = k
  OBVIOUS
<1> PICK z : z = x \o y
  OBVIOUS
<1>4. ASSUME NEW k \in 1 .. n PROVE z[m + k] = y[k]
  BY <1>1, <1>3
<1> QED  BY <1>1, <1>2, <1>4 DEF IsJoin

\* What Backspace sends: one \b, the rest of the line, a blank, and back.
Blanked(rest) == rest \o <<" ">>
ErasedBytes(rest, b) == <<LEFT>> \o rest \o <<" ">> \o Back(b)
EndsBlank(text, rest) ==
  /\ text \in Seq(Shown) /\ Len(text) = Len(rest) + 1
  /\ \A k \in 1 .. Len(rest) : text[k] = rest[k]
  /\ text[Len(rest) + 1] = " "

LEMMA EraseDraws ==
  ASSUME NEW rest \in Seq(Letters), NEW b \in Nat, b = Len(rest) + 1, NEW one, one = 1,
         NEW text, text = Blanked(rest), NEW bytes, bytes = ErasedBytes(rest, b)
  PROVE  EndsBlank(text, rest) /\ Draws(bytes, one, text, b)
<1>1. PICK n : n = Len(rest) /\ n \in Nat
  OBVIOUS
<1>2. PICK All : All = Shown \cup {LEFT}
  OBVIOUS
<1>3. rest \in Seq(Shown) /\ rest \in Seq(All)
  <2>1. rest \in [1 .. n -> Letters]
    BY <1>1
  <2>2. rest \in [1 .. n -> Shown] /\ rest \in [1 .. n -> All]
    BY <1>2, <2>1, Alphabets
  <2> QED  BY <1>1, <2>2
<1>4. PICK blank : blank = <<" ">>
  OBVIOUS
<1>5. blank \in Seq(Shown) /\ blank \in Seq(All) /\ Len(blank) = 1 /\ blank[1] = " "
  <2>1. " " \in Shown /\ " " \in All
    BY <1>2, Alphabets
  <2>4. PICK space : space = " "
    OBVIOUS
  <2>5. space \in Shown /\ space \in All /\ blank = <<space>>
    BY <1>4, <2>1, <2>4
  <2>2. blank \in Seq(Shown)
    BY <2>5
  <2>3. blank \in Seq(All)
    BY <2>5
  <2> QED  BY <1>4, <2>2, <2>3
<1>0. one \in Nat /\ one \in 1 .. one
  OBVIOUS
<1>18. Len(blank) = one /\ blank[one] = " "
  BY <1>5, Zenon
<1>6. PICK left : left = <<LEFT>>
  OBVIOUS
<1>7. left \in Seq(All) /\ Len(left) = 1 /\ left[1] = LEFT
  <2>1. LEFT \in All
    BY <1>2
  <2> QED  BY <1>6, <2>1
<1>8. PICK back : back = Back(b)
  OBVIOUS
<1>9. back \in Seq(All) /\ Len(back) = b /\ \A k \in 1 .. b : back[k] = LEFT
  <2>1. LEFT \in All
    BY <1>2
  <2>2. back = [k \in 1 .. b |-> LEFT]
    BY <1>8 DEF Back
  <2> HIDE <1>2
  <2> QED  BY <2>1, <2>2
<1>10. /\ text \in Seq(Shown) /\ Len(text) = n + 1
       /\ \A k \in 1 .. n : text[k] = rest[k]
       /\ text[n + 1] = " "
  <2>1. text = rest \o blank
    BY <1>4 DEF Blanked
  <2>3. IsJoin(text, Shown, rest, blank, n, one)
    BY <1>0, <1>1, <1>3, <1>5, <1>18, <2>1, Joined, Zenon
  <2>4. text[n + one] = " "
    BY <1>0, <1>18, <2>3 DEF IsJoin
  <2>5. /\ text \in Seq(Shown) /\ Len(text) = n + one
        /\ \A k \in 1 .. n : text[k] = rest[k]
    BY <2>3 DEF IsJoin
  <2> QED  BY <2>4, <2>5
<1>11. PICK start : start = left \o rest
  OBVIOUS
<1>12. /\ start \in Seq(All) /\ Len(start) = 1 + n
       /\ start[1] = LEFT
       /\ \A k \in 1 .. n : start[1 + k] = rest[k]
  <2>1. one \in Nat /\ Len(left) = one /\ one \in 1 .. one /\ left[one] = LEFT
    BY <1>7
  <2>2. IsJoin(start, All, left, rest, one, n)
    BY <1>1, <1>3, <1>7, <1>11, <2>1, Joined, Zenon
  <2>3. start[one] = LEFT
    BY <2>1, <2>2 DEF IsJoin
  <2>4. start \in Seq(All) /\ Len(start) = one + n /\ \A k \in 1 .. n : start[one + k] = rest[k]
    BY <2>2 DEF IsJoin
  <2> QED  BY <2>3, <2>4
<1>13. PICK middle : middle = start \o blank
  OBVIOUS
<1>14. /\ middle \in Seq(All) /\ Len(middle) = 2 + n
       /\ middle[1] = LEFT
       /\ \A k \in 1 .. n : middle[1 + k] = rest[k]
       /\ middle[2 + n] = " "
  <2>1. 1 + n \in Nat
    BY <1>1
  <2>2. PICK m : m = 1 + n /\ m \in Nat /\ m + one = 2 + n /\ 1 \in 1 .. m
    BY <1>1
  <2>3. Len(start) = m
    BY <1>12, <2>2, Zenon
  <2>4. IsJoin(middle, All, start, blank, m, one)
    BY <1>0, <1>5, <1>12, <1>13, <1>18, <2>2, <2>3, Joined, Zenon
  <2>5. middle \in Seq(All) /\ Len(middle) = m + one /\ \A k \in 1 .. m : middle[k] = start[k]
    BY <2>4 DEF IsJoin
  <2>6. middle[m + one] = " "
    BY <1>0, <1>18, <2>4 DEF IsJoin
  <2>7. ASSUME NEW k \in 1 .. n PROVE 1 + k \in 1 .. m
    BY <1>1, <2>2
  <2>8. middle[1] = LEFT
    BY <1>12, <2>2, <2>5
  <2>9. \A k \in 1 .. n : middle[1 + k] = rest[k]
    BY <1>12, <2>5, <2>7
  <2> QED  BY <2>2, <2>5, <2>6, <2>8, <2>9
<1>15. /\ Len(bytes) = 2 + n + b
       /\ \A k \in 1 .. 2 + n : bytes[k] = middle[k]
       /\ \A k \in 1 .. b : bytes[2 + n + k] = LEFT
  <2>1. bytes = middle \o back
    BY <1>4, <1>6, <1>8, <1>11, <1>13 DEF ErasedBytes
  <2>2. PICK m : m = 2 + n
    OBVIOUS
  <2>6. m \in Nat
    BY <1>1, <2>2
  <2>7. Len(middle) = m /\ middle \in Seq(All)
    BY <1>14, <2>2, Zenon
  <2>8. back \in Seq(All) /\ Len(back) = b
    BY <1>9, Zenon
  <2>3. IsJoin(bytes, All, middle, back, m, b)
    BY <2>1, <2>6, <2>7, <2>8, Joined, Zenon
  <2>4. /\ Len(bytes) = m + b
        /\ \A k \in 1 .. m : bytes[k] = middle[k]
        /\ \A k \in 1 .. b : bytes[m + k] = back[k]
    BY <2>3 DEF IsJoin
  <2>5. \A k \in 1 .. b : bytes[m + k] = LEFT
    BY <1>9, <2>4
  <2> QED  BY <2>2, <2>4, <2>5
<1>16. ASSUME NEW k \in 1 .. 2 + n + b
       PROVE  bytes[k] = IF k > 1 /\ k <= 1 + (n + 1) THEN text[k - 1] ELSE LEFT
  <2>1. k \in Int /\ 1 <= k /\ k <= 2 + n + b
    BY <1>1
  <2>2. CASE k = 1
    <3>1. k \in 1 .. 2 + n /\ ~(k > 1)
      BY <1>1, <2>2
    <3>2. bytes[k] = middle[k] /\ middle[k] = LEFT
      BY <1>14, <1>15, <2>2, <3>1
    <3> QED  BY <3>1, <3>2
  <2>3. CASE k > 1 /\ k <= 1 + n
    <3>1. PICK j : j = k - 1
      OBVIOUS
    <3>2. j \in 1 .. n /\ 1 + j = k /\ k \in 1 .. 2 + n /\ k <= 1 + (n + 1)
      BY <1>1, <2>1, <2>3, <3>1
    <3>3. bytes[k] = rest[j]
      BY <1>14, <1>15, <3>2
    <3>4. text[j] = rest[j]
      BY <1>10, <3>2
    <3> QED  BY <2>3, <3>1, <3>2, <3>3, <3>4
  <2>4. CASE k = 2 + n
    <3>1. k \in 1 .. 2 + n /\ k - 1 = n + 1 /\ k > 1 /\ k <= 1 + (n + 1)
      BY <1>1, <2>4
    <3> QED  BY <1>10, <1>14, <1>15, <2>4, <3>1
  <2>5. CASE k > 2 + n
    <3>1. PICK j : j = k - (2 + n)
      OBVIOUS
    <3>2. j \in 1 .. b /\ 2 + n + j = k /\ ~(k <= 1 + (n + 1))
      BY <1>1, <2>1, <2>5, <3>1
    <3> QED  BY <1>15, <3>2
  <2>6. k = 1 \/ (k > 1 /\ k <= 1 + n) \/ k = 2 + n \/ k > 2 + n
    BY <1>1, <2>1
  <2> QED  BY <2>2, <2>3, <2>4, <2>5, <2>6
<1>17. Draws(bytes, one, text, b)
  <2>1. Len(bytes) = 1 + (n + 1) + b /\ 1 + (n + 1) + b = 2 + n + b
    BY <1>1, <1>15
  <2> QED  BY <1>10, <1>16, <2>1 DEF Draws
<1> QED  BY <1>1, <1>10, <1>17 DEF EndsBlank

LEMMA EraseKeeps ==
  ASSUME EditorInv, cursor # 0, Erase
  PROVE  EditorInv' /\ Editor!Erase
<1>1. /\ LineInv /\ cursor \in Nat \ {0} /\ length \in Nat \ {0} /\ cursor <= length /\ length < Size /\ Size \in Nat
      /\ line \in [1 .. Size -> Typed \cup {NUL}]
      /\ \A k \in 1 .. length : line[k] \in Typed
  BY EditorAssumption DEF EditorInv, LineInv
<1>2. cursor' = cursor - 1 /\ length' = length - 1
      /\ UNCHANGED <<history, history_index, escape_state, repl_mode, entered>>
  BY DEF Erase
<1>3. /\ line' \in [1 .. Size -> Typed \cup {NUL}] /\ line'[length] = NUL
      /\ \A k \in 1 .. cursor - 1 : line'[k] = line[k]
      /\ \A k \in cursor .. length - 1 : line'[k] = line[k + 1]
  <2>1. PICK shorter : shorter = Moved(line, cursor - 1, cursor, length - cursor)
    OBVIOUS
  <2>2. line' = [shorter EXCEPT ![length] = NUL]
    BY <2>1 DEF Erase
  <2>3. shorter = [k \in 1 .. Size |-> IF k >= cursor /\ k < length THEN line[k + 1] ELSE line[k]]
    <3>1. ASSUME NEW k \in 1 .. Size
          PROVE  /\ k > cursor - 1 /\ k <= cursor - 1 + (length - cursor) <=> k >= cursor /\ k < length
                 /\ k - (cursor - 1) + cursor = k + 1
      BY <1>1
    <3> QED  BY <2>1, <3>1 DEF Moved
  <2>4. shorter \in [1 .. Size -> Typed \cup {NUL}]
    <3>1. \A k \in 1 .. Size : k < length => k + 1 \in 1 .. Size
      BY <1>1
    <3> QED  BY <1>1, <2>3, <3>1
  <2>5. length \in 1 .. Size
    BY <1>1
  <2>6. /\ line' \in [1 .. Size -> Typed \cup {NUL}] /\ line'[length] = NUL
        /\ \A k \in 1 .. Size : k # length => line'[k] = shorter[k]
    BY <2>2, <2>4, <2>5
  <2>7. ASSUME NEW k \in 1 .. cursor - 1 PROVE line'[k] = line[k]
    <3>1. k \in 1 .. Size /\ k # length /\ ~(k >= cursor)
      BY <1>1
    <3> QED  BY <2>3, <2>6, <3>1
  <2>8. ASSUME NEW k \in cursor .. length - 1 PROVE line'[k] = line[k + 1]
    <3>1. k \in 1 .. Size /\ k # length /\ k >= cursor /\ k < length
      BY <1>1
    <3> QED  BY <2>3, <2>6, <3>1
  <2> QED  BY <2>6, <2>7, <2>8
<1>4. \A k \in 1 .. length - 1 : line'[k] = IF k < cursor THEN line[k] ELSE line[k + 1]
  BY <1>1, <1>3
<1>5. LineInv'
  <2>1. \A k \in 1 .. length - 1 : line'[k] \in Typed
    BY <1>1, <1>4
  <2>2. length' \in 0 .. Size - 1 /\ cursor' \in 0 .. length' /\ length' + 1 = length
    BY <1>1, <1>2
  <2> QED  BY <1>1, <1>2, <1>3, <2>1, <2>2 DEF LineInv
<1>6. HistoryInv'
  BY <1>2, HistoryStays DEF EditorInv, HistoryInv
<1>7. ASSUME ScreenInv PROVE ScreenInv'
  <2>1. PICK rest : rest = SubSeq(line', cursor, length - 1)
    OBVIOUS
  <2>2. \A k \in 1 .. length - 1 : line'[k] \in Letters
    BY <1>1, <1>4, <1>7 DEF ScreenInv
  <2>3. /\ rest \in Seq(Letters) /\ Len(rest) = length - cursor
        /\ \A k \in 1 .. length - cursor : rest[k] = line'[cursor - 1 + k]
    BY <1>1, <1>3, <2>1, <2>2
  <2>4. PICK b : b = length - cursor + 1
    OBVIOUS
  <2>5. PICK one : one = 1
    OBVIOUS
  <2>6. PICK text : text = Blanked(rest)
    OBVIOUS
  <2>7. PICK bytes : bytes = ErasedBytes(rest, b)
    OBVIOUS
  <2>8. screen' = Sent(screen, bytes)
    <3>1. length' - cursor' + 1 = b /\ cursor' + 1 = cursor
      BY <1>1, <1>2, <2>4
    <3>2. SubSeq(line', cursor' + 1, length') = rest
      BY <1>2, <2>1, <3>1
    <3> QED  BY <2>7, <3>1, <3>2 DEF Erase, ErasedBytes
  <2>9. b \in Nat /\ b = Len(rest) + 1
    BY <1>1, <2>3, <2>4
  <2>10. /\ text \in Seq(Shown) /\ Len(text) = Len(rest) + 1
         /\ \A k \in 1 .. Len(rest) : text[k] = rest[k]
         /\ text[Len(rest) + 1] = " "
         /\ Draws(bytes, one, text, b)
    <3>1. rest \in Seq(Letters)
      BY <2>3, Zenon
    <3>2. b \in Nat
      BY <2>9
    <3>3. b = Len(rest) + 1
      BY <2>9
    <3>4. EndsBlank(text, rest) /\ Draws(bytes, one, text, b)
      BY <2>5, <2>6, <2>7, <3>1, <3>2, <3>3, EraseDraws, Zenon
    <3> QED  BY <3>4 DEF EndsBlank
  <2>14. Len(text) = length - cursor + 1
    <3>1. Len(text) = Len(rest) + 1
      BY <2>10, Zenon
    <3>2. Len(rest) = length - cursor
      BY <2>3, Zenon
    <3> QED  BY <3>1, <3>2
  <2>11. Follows(line', length', cursor - one, text, line, length)
    <3> SUFFICES ASSUME NEW k \in Nat \ {0}
                 PROVE  Cell(line', length - 1, k) = IF k > cursor - 1 /\ k <= cursor - 1 + Len(text)
                                                     THEN text[k - (cursor - 1)] ELSE Cell(line, length, k)
      BY <1>1, <1>2, <2>5 DEF Follows
    <3>0. Len(text) = length - cursor + 1 /\ cursor - 1 + Len(text) = length
      BY <1>1, <2>14
    <3>1. CASE k < cursor
      <4>1. k \in 1 .. cursor - 1 /\ ~(k > cursor - 1) /\ k <= length /\ k <= length - 1
        BY <1>1, <3>1
      <4>2. line'[k] = line[k]
        BY <1>3, <4>1
      <4> QED  BY <4>1, <4>2 DEF Cell
    <3>2. CASE k >= cursor /\ k < length
      <4>1. PICK j : j = k - (cursor - 1)
        OBVIOUS
      <4>2. j \in 1 .. length - cursor /\ cursor - 1 + j = k /\ k <= length - 1 /\ k > cursor - 1 /\ k <= length
        BY <1>1, <3>2, <4>1
      <4>3. text[j] = rest[j] /\ rest[j] = line'[cursor - 1 + j]
        BY <2>3, <2>10, <4>2
      <4>4. text[j] = line'[k]
        BY <4>2, <4>3
      <4> QED  BY <3>0, <4>1, <4>2, <4>4 DEF Cell
    <3>3. CASE k = length
      <4>1. /\ k - (cursor - 1) = Len(rest) + 1 /\ k > cursor - 1 /\ k <= length /\ ~(k <= length - 1)
        BY <1>1, <2>3, <3>3
      <4> QED  BY <2>10, <3>0, <4>1 DEF Cell
    <3>4. CASE k > length
      <4>1. ~(k <= length) /\ ~(k <= length - 1)
        BY <1>1, <3>4
      <4> QED  BY <3>0, <4>1 DEF Cell
    <3>5. k < cursor \/ (k >= cursor /\ k < length) \/ k = length \/ k > length
      BY <1>1
    <3> QED  BY <3>1, <3>2, <3>3, <3>4, <3>5
  <2>12. LET r == Sent(screen, bytes)
         IN  /\ r \in [row : Seq(Shown), column : Nat] /\ r.column = cursor - one + Len(text) - b
             /\ Len(r.row) >= length' /\ Shows(r.row, line', length')
    <3>1. /\ one \in 0 .. cursor /\ b \in 0 .. cursor - one + Len(text)
          /\ length' \in Nat /\ length' <= length
      BY <1>1, <1>2, <2>4, <2>5, <2>14
    <3> QED  BY <1>1, <1>7, <2>10, <2>11, <3>1, RowFollows
  <2>13. cursor' = cursor - one + Len(text) - b
    BY <1>1, <1>2, <2>4, <2>5, <2>14
  <2> QED  BY <1>2, <1>7, <2>2, <2>8, <2>12, <2>13 DEF ScreenInv, Shows
<1>8. Editor!Erase
  <2> DEFINE x == SubSeq(line, 1, cursor)
             y == SubSeq(line, cursor + 1, length)
             xx == SubSeq(line', 1, cursor - 1)
             yy == SubSeq(line', cursor, length - 1)
  <2>1. /\ x \in Seq(Typed) /\ Len(x) = cursor /\ \A k \in 1 .. cursor : x[k] = line[k]
        /\ y \in Seq(Typed) /\ Len(y) = length - cursor
        /\ \A k \in 1 .. length - cursor : y[k] = line[cursor + k]
    BY <1>1, SidesAre
  <2>2. \A k \in 1 .. length - 1 : line'[k] \in Typed
    BY <1>1, <1>4
  <2>3. xx \in Seq(Typed) /\ Len(xx) = cursor - 1 /\ \A k \in 1 .. cursor - 1 : xx[k] = line'[k]
    BY <1>1, <1>3, <2>2
  <2>4. /\ yy \in Seq(Typed) /\ Len(yy) = length - cursor
        /\ \A k \in 1 .. length - cursor : yy[k] = line'[cursor - 1 + k]
    BY <1>1, <1>3, <2>2
  <2> HIDE DEF x, y, xx, yy
  <2>5. xx = Editor!Front(x)
    <3>1. /\ Editor!Front(x) \in Seq(Typed) /\ Len(Editor!Front(x)) = cursor - 1
          /\ \A k \in 1 .. cursor - 1 : Editor!Front(x)[k] = x[k]
      BY <1>1, <2>1 DEF Editor!Front
    <3>2. \A k \in 1 .. cursor - 1 : xx[k] = Editor!Front(x)[k]
      BY <1>1, <1>3, <2>1, <2>3, <3>1
    <3> QED  BY <2>3, <3>1, <3>2, SameText
  <2>6. yy = y
    <3>1. ASSUME NEW k \in 1 .. length - cursor PROVE yy[k] = y[k]
      <4>2. PICK j : j = cursor - 1 + k
        OBVIOUS
      <4>3. j \in cursor .. length - 1
        BY <1>1, <4>2
      <4>4. j + 1 = cursor + k
        BY <1>1, <4>2
      <4>5. line'[j] = line[j + 1]
        BY <1>3, <4>3
      <4> QED  BY <2>1, <2>4, <4>2, <4>4, <4>5
    <3> QED  BY <2>1, <2>4, <3>1, SameText
  <2>7. SubSeq(line, 1, cursor)' = xx /\ SubSeq(line, cursor + 1, length)' = yy
    <3>1. cursor' + 1 = cursor
      BY <1>1, <1>2
    <3> QED  BY <1>2, <3>1 DEF xx, yy
  <2>8. x # <<>>
    BY <1>1, <2>1
  <2> QED  BY <1>2, <2>5, <2>6, <2>7, <2>8 DEF Editor!Erase, x, y
<1> QED  BY <1>5, <1>6, <1>7, <1>8 DEF EditorInv

-----------------------------------------------------------------------------
(* Lines that are recalled, dropped and entered.                           *)

\* What the screen has to do with the line.
LineShown ==
  /\ \A k \in 1 .. length : line[k] \in Letters
  /\ screen \in [row : Seq(Shown), column : Nat]
  /\ screen.column = cursor /\ Len(screen.row) >= length
  /\ Shows(screen.row, line, length)

\* The buffer with a text in it.
Loaded(text) ==
  [k \in 1 .. Size |-> IF k <= Len(text) THEN text[k] ELSE IF k = Len(text) + 1 THEN NUL ELSE line[k]]

LEMMA LineLoaded ==
  ASSUME LineInv, NEW text \in Seq(Typed), Len(text) < Size, length' = Len(text), cursor' = Len(text),
         line' = Loaded(text), escape_state' \in 0 .. 2, repl_mode' \in BOOLEAN
  PROVE  /\ LineInv'
         /\ SubSeq(line', 1, cursor') = text /\ SubSeq(line', cursor' + 1, length') = <<>>
         /\ text \in Seq(Letters) /\ screen' = [row |-> text, column |-> Len(text)] => LineShown'
<1>1. PICK n : n = Len(text) /\ n \in Nat /\ n < Size /\ Size \in Nat
  BY EditorAssumption
<1>2. line \in [1 .. Size -> Typed \cup {NUL}]
  BY DEF LineInv
<1>3. line' \in [1 .. Size -> Typed \cup {NUL}] /\ line'[n + 1] = NUL /\ \A k \in 1 .. n : line'[k] = text[k]
  <2>1. \A k \in 1 .. n : text[k] \in Typed
    BY <1>1
  <2>2. line' = [k \in 1 .. Size |-> IF k <= n THEN text[k] ELSE IF k = n + 1 THEN NUL ELSE line[k]]
    BY <1>1 DEF Loaded
  <2>3. \A k \in 1 .. Size : k <= n => k \in 1 .. n
    BY <1>1
  <2>4. line' \in [1 .. Size -> Typed \cup {NUL}]
    BY <1>2, <2>1, <2>2, <2>3
  <2>5. n + 1 \in 1 .. Size /\ ~(n + 1 <= n) /\ \A k \in 1 .. n : k \in 1 .. Size /\ k <= n
    BY <1>1
  <2> QED  BY <2>2, <2>4, <2>5
<1>4. LineInv'
  <2>1. \A k \in 1 .. n : line'[k] \in Typed
    BY <1>1, <1>3
  <2>2. length' = n /\ cursor' = n /\ n \in 0 .. Size - 1 /\ n \in 0 .. n
    BY <1>1
  <2> QED  BY <1>3, <2>1, <2>2 DEF LineInv
<1>5. SubSeq(line', 1, cursor') = text
  <2>1. \A k \in 1 .. n : line'[k] \in Typed
    BY <1>1, <1>3
  <2>2. /\ SubSeq(line', 1, n) \in Seq(Typed) /\ Len(SubSeq(line', 1, n)) = n
        /\ \A k \in 1 .. n : SubSeq(line', 1, n)[k] = line'[k]
    BY <1>1, <1>3, <2>1
  <2>3. SubSeq(line', 1, n) = text
    BY <1>1, <1>3, <2>2, SameText
  <2> QED  BY <1>1, <2>3
<1>6. SubSeq(line', cursor' + 1, length') = <<>>
  BY <1>1
<1>7. ASSUME text \in Seq(Letters), screen' = [row |-> text, column |-> Len(text)]
      PROVE  LineShown'
  <2>1. text \in Seq(Shown)
    <3>1. text \in [1 .. n -> Letters]
      BY <1>1, <1>7
    <3>2. text \in [1 .. n -> Shown]
      BY <3>1, Alphabets
    <3> QED  BY <1>1, <3>2
  <2>2. screen'.row = text /\ screen'.column = n /\ screen' \in [row : Seq(Shown), column : Nat]
    BY <1>1, <1>7, <2>1
  <2>3. \A k \in 1 .. n : line'[k] \in Letters
    BY <1>1, <1>3, <1>7
  <2>4. \A k \in 1 .. Len(text) : text[k] = Cell(line', n, k)
    BY <1>1, <1>3 DEF Cell
  <2>5. length' = n /\ cursor' = n /\ Len(text) >= n
    BY <1>1
  <2> QED  BY <2>2, <2>3, <2>4, <2>5 DEF LineShown, Shows
<1> QED  BY <1>4, <1>5, <1>6, <1>7

\* An empty line.
LEMMA LineFresh ==
  ASSUME LineInv, FreshLine
  PROVE  /\ <<>> \in Seq(Typed) /\ <<>> \in Seq(Letters) /\ Len(<<>>) < Size
         /\ length' = Len(<<>>) /\ cursor' = Len(<<>>) /\ line' = Loaded(<<>>)
         /\ screen' = [row |-> <<>>, column |-> Len(<<>>)]
<1>1. /\ Size \in Nat /\ Size > 1 /\ line \in [1 .. Size -> Typed \cup {NUL}]
  BY EditorAssumption DEF LineInv
<1>2. line' = [line EXCEPT ![1] = NUL] /\ length' = 0 /\ cursor' = 0 /\ screen' = Blank
  BY DEF FreshLine
<1>3. line' = Loaded(<<>>)
  <2>1. \A k \in 1 .. Size : ~(k <= Len(<<>>)) /\ (k = Len(<<>>) + 1 <=> k = 1)
    OBVIOUS
  <2>2. Loaded(<<>>) = [k \in 1 .. Size |-> IF k = 1 THEN NUL ELSE line[k]]
    BY <2>1 DEF Loaded
  <2> QED  BY <1>1, <1>2, <2>2
<1>4. <<>> \in Seq(Typed) /\ <<>> \in Seq(Letters) /\ Len(<<>>) = 0
  OBVIOUS
<1> QED  BY <1>1, <1>2, <1>3, <1>4 DEF Blank

\* A line of the history, or none, takes the place of the line.
LEMMA RecallKeeps ==
  ASSUME EditorInv, NEW text \in Seq(Typed), Len(text) < Size, text \in ToSet(entered) \cup {<<>>},
         ScreenInv => text \in Seq(Letters) /\ screen' = [row |-> text, column |-> Len(text)],
         length' = Len(text), cursor' = Len(text), line' = Loaded(text),
         escape_state' \in 0 .. 2, history_index' \in 0 .. Len(history),
         UNCHANGED <<history, repl_mode, entered>>
  PROVE  EditorInv' /\ Editor!Recall
<1>1. LineInv /\ repl_mode' \in BOOLEAN
  BY DEF EditorInv, LineInv
<1>2. /\ LineInv'
      /\ SubSeq(line', 1, cursor') = text /\ SubSeq(line', cursor' + 1, length') = <<>>
      /\ text \in Seq(Letters) /\ screen' = [row |-> text, column |-> Len(text)] => LineShown'
  BY <1>1, LineLoaded
<1>3. HistoryInv'
  BY HistoryStays DEF EditorInv
<1>4. ScreenInv => ScreenInv'
  BY <1>2 DEF ScreenInv, LineShown
<1>5. Editor!Recall
  BY <1>2 DEF Editor!Recall, Editor!ToSet, ToSet
<1> QED  BY <1>2, <1>3, <1>4, <1>5 DEF EditorInv

LEMMA LoadKeeps ==
  ASSUME EditorInv, NEW index \in 0 .. Len(history), history_load(index), escape_state' = 0,
         UNCHANGED <<history, repl_mode, entered>>
  PROVE  EditorInv' /\ Editor!Recall
<1> DEFINE none == <<>>
<1>1. PICK text : text = IF index >= Len(history) THEN none ELSE history[index + 1]
  OBVIOUS
<1>2. /\ history_index' = index /\ length' = Len(text) /\ cursor' = Len(text)
      /\ line' = Loaded(text) /\ screen' = Sent(Blank, text)
  BY <1>1 DEF history_load, Loaded
<1>3. LineInv /\ HistoryInv /\ Size \in Nat /\ Size > 1
  BY EditorAssumption DEF EditorInv
<1>4. none \in Seq(Typed) /\ none \in Seq(Letters) /\ Len(none) = 0
  OBVIOUS
<1>5. /\ text \in Seq(Typed) /\ Len(text) < Size /\ text \in ToSet(entered) \cup {none}
      /\ ScreenInv => text \in Seq(Letters)
  <2> HIDE DEF none
  <2>1. CASE index >= Len(history)
    BY <1>1, <1>3, <1>4, <2>1
  <2>2. CASE ~(index >= Len(history))
    <3>1. history \in Seq(Seq(Typed))
      BY <1>3 DEF HistoryInv
    <3>2. index + 1 \in 1 .. Len(history)
      BY <2>2, <3>1
    <3>3. text = history[index + 1]
      BY <1>1, <2>2
    <3>4. text \in Seq(Typed)
      BY <3>1, <3>2, <3>3
    <3>5. Len(text) < Size /\ \E j \in 1 .. Len(entered) : text = entered[j]
      BY <1>3, <3>2, <3>3 DEF HistoryInv
    <3>6. entered \in Seq(Seq(Typed))
      BY <1>3 DEF HistoryInv
    <3>7. text \in ToSet(entered)
      BY <3>5, <3>6 DEF ToSet
    <3>8. ScreenInv => text \in Seq(Letters)
      BY <3>2, <3>3 DEF ScreenInv
    <3> QED  BY <3>4, <3>5, <3>7, <3>8
  <2> QED  BY <2>1, <2>2
<1>6. ScreenInv => screen' = [row |-> text, column |-> Len(text)]
  BY <1>2, <1>5, RowIsText
<1>7. escape_state' \in 0 .. 2 /\ history_index' \in 0 .. Len(history)
  BY <1>2
<1> QED  BY <1>2, <1>5, <1>6, <1>7, RecallKeeps DEF none

LEMMA CancelKeeps ==
  ASSUME EditorInv, Cancel
  PROVE  EditorInv' /\ Editor!Recall
<1>1. LineInv /\ HistoryInv /\ FreshLine /\ UNCHANGED <<history, escape_state, repl_mode, entered>>
      /\ history_index' = Len(history)
  BY DEF EditorInv, Cancel
<1>2. PICK text : text = <<>>
  OBVIOUS
<1>3. /\ text \in Seq(Typed) /\ text \in Seq(Letters) /\ Len(text) < Size
      /\ length' = Len(text) /\ cursor' = Len(text) /\ line' = Loaded(text)
      /\ screen' = [row |-> text, column |-> Len(text)]
  BY <1>1, <1>2, LineFresh
<1>4. escape_state' \in 0 .. 2 /\ history_index' \in 0 .. Len(history)
  <2>1. history \in Seq(Seq(Typed))
    BY <1>1 DEF HistoryInv
  <2> QED  BY <1>1, <2>1 DEF LineInv
<1> QED  BY <1>1, <1>2, <1>3, <1>4, RecallKeeps

\* The last lines of a list.
LEMMA RecentIs ==
  ASSUME NEW S, NEW lines \in Seq(S)
  PROVE  /\ Recent(lines) \in Seq(S)
         /\ Len(Recent(lines)) = IF Len(lines) > HISTORY_COUNT THEN HISTORY_COUNT ELSE Len(lines)
         /\ \A k \in 1 .. Len(Recent(lines)) : Recent(lines)[k] = lines[Len(lines) - Len(Recent(lines)) + k]
<1>1. HISTORY_COUNT \in Nat \ {0} /\ Len(lines) \in Nat
  BY EditorAssumption
<1>2. CASE Len(lines) > HISTORY_COUNT
  <2>1. PICK m : m = Len(lines) - HISTORY_COUNT + 1
    OBVIOUS
  <2>2. m \in Nat /\ m >= 1 /\ Len(lines) - m + 1 = HISTORY_COUNT
    BY <1>1, <1>2, <2>1
  <2>3. Recent(lines) = SubSeq(lines, m, Len(lines))
    BY <1>2, <2>1 DEF Recent
  <2>4. /\ Recent(lines) \in Seq(S) /\ Len(Recent(lines)) = HISTORY_COUNT
        /\ \A k \in 1 .. HISTORY_COUNT : Recent(lines)[k] = lines[m + k - 1]
    BY <1>1, <1>2, <2>1, <2>3
  <2>5. \A k \in 1 .. HISTORY_COUNT : m + k - 1 = Len(lines) - HISTORY_COUNT + k
    BY <1>1, <2>1
  <2> QED  BY <1>2, <2>4, <2>5
<1>3. CASE ~(Len(lines) > HISTORY_COUNT)
  <2>1. Recent(lines) = SubSeq(lines, 1, Len(lines))
    BY <1>3 DEF Recent
  <2>2. Recent(lines) \in Seq(S) /\ Len(Recent(lines)) = Len(lines) /\ \A k \in 1 .. Len(lines) : Recent(lines)[k] = lines[k]
    BY <1>1, <2>1
  <2>3. \A k \in 1 .. Len(lines) : Len(lines) - Len(lines) + k = k
    BY <1>1
  <2> QED  BY <1>1, <1>3, <2>2, <2>3
<1> QED  BY <1>2, <1>3

\* Storing in the history that is full drops the oldest line.
LEMMA RecentStore ==
  ASSUME NEW S, NEW lines \in Seq(S), NEW text \in S
  PROVE  /\ KeptAfter(lines, text) \in Seq(S)
         /\ history_store(Recent(lines), text) = Recent(KeptAfter(lines, text))
<1> DEFINE R == Recent(lines)
<1>1. PICK n : n = Len(lines) /\ n \in Nat
  OBVIOUS
<1>2. PICK h : h = HISTORY_COUNT /\ h \in Nat \ {0}
  BY EditorAssumption
<1>3. R \in Seq(S) /\ Len(R) = (IF n > h THEN h ELSE n) /\ \A k \in 1 .. Len(R) : R[k] = lines[n - Len(R) + k]
  BY <1>1, <1>2, RecentIs
<1> HIDE DEF R
<1>4. R # <<>> <=> lines # <<>>
  <2>1. (R = <<>> <=> Len(R) = 0) /\ (lines = <<>> <=> n = 0)
    BY <1>1, <1>3
  <2> QED  BY <1>1, <1>2, <1>3, <2>1
<1>5. lines # <<>> => Last(R) = Last(lines)
  <2> SUFFICES ASSUME lines # <<>> PROVE R[Len(R)] = lines[n]
    BY <1>1 DEF Last
  <2>1. Len(R) \in 1 .. Len(R) /\ n - Len(R) + Len(R) = n
    BY <1>1, <1>2, <1>3, <1>4
  <2> QED  BY <1>3, <2>1
<1>6. CASE text = <<>> \/ (lines # <<>> /\ Last(lines) = text)
  BY <1>4, <1>5, <1>6 DEF history_store, KeptAfter, R
<1>7. CASE ~(text = <<>> \/ (lines # <<>> /\ Last(lines) = text))
  <2>1. KeptAfter(lines, text) = Append(lines, text)
    BY <1>7 DEF KeptAfter
  <2>2. PICK more : more = Append(lines, text)
    OBVIOUS
  <2>3. more \in Seq(S) /\ Len(more) = n + 1 /\ more[n + 1] = text /\ \A k \in 1 .. n : more[k] = lines[k]
    BY <1>1, <2>2
  <2>4. PICK Q : Q = IF Len(R) = h THEN Tail(R) ELSE R
    OBVIOUS
  <2>5. history_store(R, text) = Append(Q, text)
    BY <1>2, <1>4, <1>5, <1>7, <2>4 DEF history_store
  <2>6. PICK q : q = IF n >= h THEN h - 1 ELSE n
    OBVIOUS
  <2>7. Q \in Seq(S) /\ Len(Q) = q /\ \A k \in 1 .. q : Q[k] = lines[n - q + k]
    <3>1. CASE n >= h
      <4>1. Len(R) = h /\ R # <<>> /\ q = h - 1 /\ Q = Tail(R)
        BY <1>1, <1>2, <1>3, <2>4, <2>6, <3>1
      <4>2. Tail(R) \in Seq(S) /\ Len(Tail(R)) = h - 1 /\ \A k \in 1 .. h - 1 : Tail(R)[k] = R[k + 1]
        BY <1>2, <1>3, <4>1
      <4>3. ASSUME NEW k \in 1 .. h - 1 PROVE k + 1 \in 1 .. h /\ n - h + (k + 1) = n - q + k
        BY <1>1, <1>2, <4>1
      <4>4. ASSUME NEW k \in 1 .. h - 1 PROVE Tail(R)[k] = lines[n - q + k]
        BY <1>3, <4>1, <4>2, <4>3
      <4> QED  BY <4>1, <4>2, <4>4
    <3>2. CASE n < h
      <4>1. Len(R) = n /\ Len(R) # h /\ q = n /\ Q = R
        BY <1>1, <1>2, <1>3, <2>4, <2>6, <3>2
      <4> QED  BY <1>3, <4>1
    <3> QED  BY <1>1, <1>2, <3>1, <3>2
  <2>8. PICK P : P = Append(Q, text)
    OBVIOUS
  <2>9. q \in Nat /\ n \in Nat
    BY <1>1, <1>2, <2>6
  <2>10. P \in Seq(S) /\ Len(P) = q + 1 /\ P[q + 1] = text /\ \A k \in 1 .. q : P[k] = Q[k]
    BY <2>7, <2>8, <2>9
  <2>11. PICK M : M = Recent(more)
    OBVIOUS
  <2>12. M \in Seq(S) /\ Len(M) = q + 1 /\ \A k \in 1 .. q + 1 : M[k] = more[n + 1 - (q + 1) + k]
    <3>1. /\ M \in Seq(S) /\ Len(M) = (IF n + 1 > h THEN h ELSE n + 1)
          /\ \A k \in 1 .. Len(M) : M[k] = more[n + 1 - Len(M) + k]
      <4>1. /\ M \in Seq(S) /\ Len(M) = (IF Len(more) > HISTORY_COUNT THEN HISTORY_COUNT ELSE Len(more))
            /\ \A k \in 1 .. Len(M) : M[k] = more[Len(more) - Len(M) + k]
        BY <2>3, <2>11, RecentIs
      <4>2. Len(more) = n + 1
        BY <2>3, Zenon
      <4>3. ASSUME NEW k \in 1 .. Len(M) PROVE M[k] = more[n + 1 - Len(M) + k]
        <5>1. M[k] = more[Len(more) - Len(M) + k]
          BY <4>1, Zenon
        <5>2. PICK l : l = Len(more)
          OBVIOUS
        <5>3. M[k] = more[l - Len(M) + k]
          BY <5>1, <5>2, Zenon
        <5>4. l = n + 1
          BY <4>2, <5>2, Zenon
        <5>5. PICK m : m = Len(M)
          OBVIOUS
        <5>6. n \in Nat /\ m \in Nat /\ k \in Int
          BY <1>1, <4>1, <5>5
        <5>7. l - m + k = n + 1 - m + k
          BY <5>4, <5>6
        <5> QED  BY <5>3, <5>5, <5>7, Zenon
      <4>4. Len(M) = (IF n + 1 > h THEN h ELSE n + 1)
        BY <1>2, <4>1, <4>2, Zenon
      <4> QED  BY <4>1, <4>3, <4>4, Zenon
    <3>2. Len(M) = q + 1
      BY <1>1, <1>2, <2>6, <3>1
    <3> QED  BY <3>1, <3>2
  <2>13. ASSUME NEW k \in 1 .. q + 1 PROVE M[k] = P[k]
    <3>1. CASE k = q + 1
      <4>1. n + 1 - (q + 1) + k = n + 1
        BY <2>9, <3>1
      <4> QED  BY <2>3, <2>10, <2>12, <3>1, <4>1
    <3>2. CASE k # q + 1
      <4>1. k \in 1 .. q /\ n + 1 - (q + 1) + k = n - q + k /\ n - q + k \in 1 .. n
        BY <1>1, <1>2, <2>6, <2>9, <3>2
      <4>2. M[k] = more[n - q + k]
        BY <2>12, <4>1
      <4>3. more[n - q + k] = lines[n - q + k]
        BY <2>3, <4>1
      <4> QED  BY <2>7, <2>10, <4>1, <4>2, <4>3
    <3> QED  BY <3>1, <3>2
  <2>14. M = P
    BY <2>10, <2>12, <2>13, SameText
  <2> QED  BY <2>1, <2>2, <2>3, <2>5, <2>8, <2>11, <2>14 DEF R
<1>8. KeptAfter(lines, text) \in Seq(S)
  BY DEF KeptAfter
<1> QED  BY <1>6, <1>7, <1>8 DEF R

\* What is in the history after a line is stored.
OneOf(lines, stored, text) ==
  \A k \in 1 .. Len(lines) : lines[k] = text \/ \E j \in 1 .. Len(stored) : lines[k] = stored[j]

LEMMA StoreKeeps ==
  ASSUME NEW S, NEW stored \in Seq(S), NEW text \in S
  PROVE  history_store(stored, text) \in Seq(S) /\ OneOf(history_store(stored, text), stored, text)
<1>1. HISTORY_COUNT \in Nat \ {0}
  BY EditorAssumption
<1>2. CASE text = <<>> \/ (stored # <<>> /\ Last(stored) = text)
  BY <1>2 DEF history_store, OneOf
<1>3. CASE ~(text = <<>> \/ (stored # <<>> /\ Last(stored) = text))
  <2>1. PICK Q : Q = IF Len(stored) = HISTORY_COUNT THEN Tail(stored) ELSE stored
    OBVIOUS
  <2>2. history_store(stored, text) = Append(Q, text)
    BY <1>3, <2>1 DEF history_store
  <2>3. Q \in Seq(S) /\ \A k \in 1 .. Len(Q) : \E j \in 1 .. Len(stored) : Q[k] = stored[j]
    <3>1. CASE Len(stored) = HISTORY_COUNT
      <4>1. /\ Q = Tail(stored) /\ Q \in Seq(S) /\ Len(Q) = Len(stored) - 1
            /\ \A k \in 1 .. Len(Q) : Q[k] = stored[k + 1] /\ k + 1 \in 1 .. Len(stored)
        BY <1>1, <2>1, <3>1
      <4> QED  BY <4>1
    <3>2. CASE Len(stored) # HISTORY_COUNT
      BY <2>1, <3>2
    <3> QED  BY <3>1, <3>2
  <2>4. PICK P : P = Append(Q, text)
    OBVIOUS
  <2>5. P \in Seq(S) /\ Len(P) = Len(Q) + 1 /\ P[Len(Q) + 1] = text /\ \A k \in 1 .. Len(Q) : P[k] = Q[k]
    BY <2>3, <2>4
  <2>6. ASSUME NEW k \in 1 .. Len(P) PROVE P[k] = text \/ \E j \in 1 .. Len(stored) : P[k] = stored[j]
    <3>1. CASE k = Len(Q) + 1
      BY <2>5, <3>1
    <3>2. CASE k # Len(Q) + 1
      <4>1. k \in 1 .. Len(Q)
        BY <2>3, <2>5, <3>2
      <4> QED  BY <2>3, <2>5, <4>1
    <3> QED  BY <3>1, <3>2
  <2> QED  BY <2>2, <2>4, <2>5, <2>6 DEF OneOf
<1> QED  BY <1>2, <1>3

\* A line that is entered is remembered.
LEMMA EnterRemembers ==
  ASSUME HistoryInv, NEW text \in Seq(Typed), Len(text) < Size, entered' = Append(entered, text),
         history' = history_store(history, text), history_index' = Len(history')
  PROVE  /\ HistoryInv'
         /\ (\A k \in 1 .. Len(history) : history[k] \in Seq(Letters)) /\ text \in Seq(Letters)
              => \A k \in 1 .. Len(history') : history'[k] \in Seq(Letters)
<1>1. PICK Texts : Texts = Seq(Typed)
  OBVIOUS
<1>2. text \in Texts /\ entered \in Seq(Texts) /\ history \in Seq(Texts)
  BY <1>1 DEF HistoryInv
<1>0. PICK N : N = Len(entered)
  OBVIOUS
<1>3. N = Len(entered) /\ N \in Nat
  BY <1>2, <1>0
<1>4. /\ entered' \in Seq(Texts) /\ Len(entered') = N + 1 /\ entered'[N + 1] = text
      /\ \A k \in 1 .. N : entered'[k] = entered[k]
  BY <1>2, <1>3
<1>5. /\ history' \in Seq(Texts)
      /\ \A k \in 1 .. Len(history') : history'[k] = text \/ \E j \in 1 .. Len(history) : history'[k] = history[j]
  <2>1. history' \in Seq(Texts) /\ OneOf(history', history, text)
    BY <1>2, StoreKeeps
  <2> QED  BY <2>1 DEF OneOf
<1>6. history_index' \in 0 .. Len(history')
  BY <1>5
<1>7. ASSUME NEW k \in 1 .. Len(history')
      PROVE  Len(history'[k]) < Size /\ \E j \in 1 .. N + 1 : history'[k] = entered'[j]
  <2>1. CASE history'[k] = text
    BY <1>3, <1>4, <2>1
  <2>2. ASSUME NEW j \in 1 .. Len(history), history'[k] = history[j]
        PROVE  Len(history'[k]) < Size /\ \E i \in 1 .. N + 1 : history'[k] = entered'[i]
    <3>1. PICK i \in 1 .. N : history[j] = entered[i]
      BY <1>3 DEF HistoryInv
    <3>2. i \in 1 .. N + 1 /\ entered'[i] = entered[i]
      BY <1>3, <1>4
    <3> QED  BY <2>2, <3>1, <3>2 DEF HistoryInv
  <2> QED  BY <1>5, <2>1, <2>2
<1>8. PICK f : /\ f[0] = <<>> /\ \A n \in 1 .. N : f[n] = KeptAfter(f[n - 1], entered[n])
               /\ f[N] \in Seq(Texts) /\ history = Recent(f[N])
  BY <1>1, <1>3 DEF HistoryInv
<1>9. PICK g : g = [n \in 0 .. N + 1 |-> IF n <= N THEN f[n] ELSE KeptAfter(f[N], text)]
  OBVIOUS
<1>10. g[N + 1] = KeptAfter(f[N], text) /\ \A n \in 0 .. N : g[n] = f[n]
  <2>1. N + 1 \in 0 .. N + 1 /\ ~(N + 1 <= N) /\ \A n \in 0 .. N : n \in 0 .. N + 1 /\ n <= N
    BY <1>3
  <2> QED  BY <1>9, <2>1, Zenon
<1>11. g[0] = <<>>
  BY <1>3, <1>8, <1>10
<1>12. ASSUME NEW n \in 1 .. N + 1 PROVE g[n] = KeptAfter(g[n - 1], entered'[n])
  <2>1. CASE n = N + 1
    <3>1. n - 1 = N /\ N \in 0 .. N
      BY <1>3, <2>1
    <3>2. entered'[n] = text /\ g[n - 1] = f[N] /\ g[n] = KeptAfter(f[N], text)
      BY <1>4, <1>10, <2>1, <3>1
    <3> QED  BY <3>2
  <2>2. CASE n # N + 1
    <3>1. n \in 1 .. N /\ n \in 0 .. N /\ n - 1 \in 0 .. N
      BY <1>3, <2>2
    <3>2. entered'[n] = entered[n] /\ g[n - 1] = f[n - 1] /\ g[n] = f[n] /\ f[n] = KeptAfter(f[n - 1], entered[n])
      BY <1>4, <1>8, <1>10, <3>1
    <3> QED  BY <3>2
  <2> QED  BY <2>1, <2>2
<1>13. g[N + 1] \in Seq(Texts) /\ history' = Recent(g[N + 1])
  BY <1>2, <1>8, <1>10, RecentStore
<1>14. \E h : /\ h[0] = <<>> /\ \A n \in 1 .. Len(entered') : h[n] = KeptAfter(h[n - 1], entered'[n])
              /\ h[Len(entered')] \in Seq(Texts) /\ history' = Recent(h[Len(entered')])
  BY <1>4, <1>11, <1>12, <1>13
<1>15. HistoryInv'
  BY <1>1, <1>4, <1>5, <1>6, <1>7, <1>14 DEF HistoryInv
<1>16. ASSUME \A k \in 1 .. Len(history) : history[k] \in Seq(Letters), text \in Seq(Letters)
       PROVE  \A k \in 1 .. Len(history') : history'[k] \in Seq(Letters)
  BY <1>5, <1>16
<1> QED  BY <1>15, <1>16

\* The C string of the buffer is the line.
LEMMA TerminatedIs ==
  ASSUME LineInv
  PROVE  Terminated([line EXCEPT ![length + 1] = NUL]) = Content
<1>1. /\ Size \in Nat /\ length \in Nat /\ length < Size /\ line \in [1 .. Size -> Typed \cup {NUL}]
      /\ line[length + 1] = NUL /\ length + 1 \in 1 .. Size
  BY EditorAssumption DEF LineInv
<1>2. [line EXCEPT ![length + 1] = NUL] = line
  BY <1>1
<1>3. \A k \in 1 .. length : line[k] # NUL
  <2>1. \A k \in 1 .. length : line[k] \in Typed
    BY DEF LineInv
  <2> QED  BY <2>1, Alphabets
<1> DEFINE Ends(n) == line[n] = NUL /\ \A k \in 1 .. (n - 1) : line[k] # NUL
<1>4. length + 1 \in DOMAIN line /\ Ends(length + 1)
  <2>1. length + 1 - 1 = length
    BY <1>1
  <2> QED  BY <1>1, <1>3, <2>1
<1>5. ASSUME NEW n \in DOMAIN line, Ends(n) PROVE n = length + 1
  <2>1. n \in 1 .. Size
    BY <1>1
  <2>2. ~(n <= length)
    BY <1>3, <1>5, <2>1
  <2>3. ~(n > length + 1)
    <3> SUFFICES ASSUME n > length + 1 PROVE FALSE
      OBVIOUS
    <3>1. length + 1 \in 1 .. n - 1
      BY <1>1, <2>1
    <3> QED  BY <1>1, <1>5, <3>1
  <2> QED  BY <1>1, <2>1, <2>2, <2>3
<1>6. (CHOOSE n \in DOMAIN line : Ends(n)) = length + 1
  <2> HIDE DEF Ends
  <2> QED  BY <1>4, <1>5
<1>7. PICK last : last = CHOOSE n \in DOMAIN line : Ends(n)
  OBVIOUS
<1>9. last - 1 = length
  <2>1. last = length + 1
    BY <1>6, <1>7, Zenon
  <2> QED  BY <1>1, <2>1
<1>8. Terminated(line) = SubSeq(line, 1, last - 1)
  BY <1>7, Zenon DEF Terminated
<1> QED  BY <1>2, <1>8, <1>9 DEF Content

LEMMA EnterKeeps ==
  ASSUME EditorInv, ExecuteLine
  PROVE  EditorInv' /\ Editor!Enter
<1>1. LineInv /\ HistoryInv
  BY DEF EditorInv
<1>2. /\ Content \in Seq(Typed) /\ Len(Content) = length /\ \A k \in 1 .. length : Content[k] = line[k]
      /\ Content = SubSeq(line, 1, cursor) \o SubSeq(line, cursor + 1, length)
  BY <1>1, SidesAre
<1>3. PICK text : text = Content
  OBVIOUS
<1>4. /\ entered' = Append(entered, text) /\ history' = history_store(history, text)
      /\ history_index' = Len(history')
      /\ repl_mode' = IF repl_mode THEN text # ExitLine ELSE text = ReplLine
      /\ FreshLine /\ UNCHANGED escape_state
  BY <1>1, <1>3, TerminatedIs DEF ExecuteLine
<1>5. text \in Seq(Typed) /\ Len(text) < Size
  BY <1>1, <1>2, <1>3, EditorAssumption DEF LineInv
<1>6. escape_state' \in 0 .. 2 /\ repl_mode' \in BOOLEAN
  BY <1>1, <1>4 DEF LineInv
<1>7. PICK none : none = <<>>
  OBVIOUS
<1>8. /\ none \in Seq(Typed) /\ none \in Seq(Letters) /\ Len(none) < Size
      /\ length' = Len(none) /\ cursor' = Len(none) /\ line' = Loaded(none)
      /\ screen' = [row |-> none, column |-> Len(none)]
  BY <1>1, <1>4, <1>7, LineFresh
<1>9. LineInv' /\ SubSeq(line', 1, cursor') = none /\ SubSeq(line', cursor' + 1, length') = <<>> /\ LineShown'
  BY <1>1, <1>6, <1>8, LineLoaded
<1>10. /\ HistoryInv'
       /\ (\A k \in 1 .. Len(history) : history[k] \in Seq(Letters)) /\ text \in Seq(Letters)
            => \A k \in 1 .. Len(history') : history'[k] \in Seq(Letters)
  BY <1>1, <1>4, <1>5, EnterRemembers
<1>11. ASSUME ScreenInv PROVE ScreenInv'
  <2>1. \A k \in 1 .. length : text[k] \in Letters
    BY <1>2, <1>3, <1>11 DEF ScreenInv
  <2>3. text \in Seq(Typed) /\ Len(text) = length
    BY <1>2, <1>3, Zenon
  <2>2. text \in Seq(Letters)
    BY <2>1, <2>3
  <2> QED  BY <1>9, <1>10, <1>11, <2>2 DEF ScreenInv, LineShown
<1>12. Editor!Enter
  BY <1>2, <1>3, <1>4, <1>7, <1>9 DEF Editor!Enter, Editor!text
<1> QED  BY <1>9, <1>10, <1>11, <1>12 DEF EditorInv

-----------------------------------------------------------------------------
(* The editor.                                                             *)

LEMMA EditorStarts == EditorInit => EditorInv /\ Editor!Init
<1> SUFFICES ASSUME EditorInit PROVE EditorInv /\ Editor!Init
  OBVIOUS
<1>1. /\ line = [k \in 1 .. Size |-> NUL] /\ length = 0 /\ cursor = 0 /\ history = <<>> /\ history_index = 0
      /\ escape_state = 0 /\ repl_mode = FALSE /\ screen = Blank /\ entered = <<>>
  BY DEF EditorInit
<1>2. LineInv
  <2>1. Size \in Nat /\ Size > 1
    BY EditorAssumption
  <2>2. line \in [1 .. Size -> Typed \cup {NUL}]
    BY <1>1
  <2>3. length + 1 \in 1 .. Size /\ length \in 0 .. Size - 1 /\ cursor \in 0 .. length
    BY <1>1, <2>1
  <2>4. line[length + 1] = NUL
    BY <1>1, <2>3, Zenon
  <2>5. \A k \in 1 .. length : line[k] \in Typed
    BY <1>1
  <2>6. escape_state \in 0 .. 2
    BY <1>1
  <2>7. repl_mode \in BOOLEAN
    BY <1>1, Zenon
  <2> QED  BY <2>2, <2>3, <2>4, <2>5, <2>6, <2>7 DEF LineInv
<1>3. HistoryInv
  <2>1. PICK none : none = <<>>
    OBVIOUS
  <2>2. PICK Texts : Texts = Seq(Typed)
    OBVIOUS
  <2>3. none \in Seq(Texts) /\ Len(none) = 0
    BY <2>1
  <2>4. Recent(none) = none
    <3>1. Recent(none) \in Seq(Texts) /\ Len(Recent(none)) = 0
      <4>1. /\ Recent(none) \in Seq(Texts)
            /\ Len(Recent(none)) = IF Len(none) > HISTORY_COUNT THEN HISTORY_COUNT ELSE Len(none)
        BY <2>3, RecentIs
      <4> QED  BY <2>3, <4>1, EditorAssumption
    <3> QED  BY <2>1, <3>1
  <2>5. PICK f : f = [n \in {0} |-> none]
    OBVIOUS
  <2>6. f[0] = none /\ history = none /\ entered = none
    BY <1>1, <2>1, <2>5
  <2>7. \E g : /\ g[0] = <<>> /\ \A n \in 1 .. Len(entered) : g[n] = KeptAfter(g[n - 1], entered[n])
               /\ g[Len(entered)] \in Seq(Texts) /\ history = Recent(g[Len(entered)])
    <3>1. Len(entered) = 0 /\ \A n \in 1 .. Len(entered) : FALSE
      BY <2>3, <2>6
    <3>2. f[Len(entered)] \in Seq(Texts) /\ history = Recent(f[Len(entered)])
      BY <2>3, <2>4, <2>6, <3>1, Zenon
    <3> QED  BY <2>1, <2>6, <3>1, <3>2, Zenon
  <2> QED  BY <1>1, <2>1, <2>2, <2>3, <2>6, <2>7 DEF HistoryInv
<1>4. ScreenInv
  <2>1. screen.row = <<>> /\ screen.column = 0 /\ screen \in [row : Seq(Shown), column : Nat]
    BY <1>1 DEF Blank
  <2> QED  BY <1>1, <2>1 DEF ScreenInv, Shows
<1>5. Editor!Init
  BY <1>1 DEF Editor!Init
<1> QED  BY <1>2, <1>3, <1>4, <1>5 DEF EditorInv

LEMMA EditorSteps == EditorInv /\ [EditorNext]_editorVars => EditorInv' /\ [Editor!Next]_(Editor!vars)
<1> SUFFICES ASSUME EditorInv, [EditorNext]_editorVars
             PROVE  EditorInv' /\ (Editor!Next \/ UNCHANGED Editor!vars)
  BY DEF Editor!vars
<1>1. LineInv /\ HistoryInv
  BY DEF EditorInv
<1>2. Len(history) \in Nat /\ history_index \in 0 .. Len(history)
  BY <1>1 DEF HistoryInv
<1>3. ASSUME UNCHANGED editorVars PROVE EditorInv' /\ UNCHANGED Editor!vars
  <2>1. escape_state' \in 0 .. 2 /\ UNCHANGED <<buffer, history, history_index, repl_mode, screen, entered>>
    BY <1>1, <1>3 DEF LineInv, editorVars, buffer
  <2> QED  BY <2>1, EscapeKeeps
<1>4. ASSUME NEW byte \in Keys, Press(byte)
      PROVE  EditorInv' /\ (Editor!Next \/ UNCHANGED Editor!vars)
  <2>1. CASE Escape(byte)
    <3>1. escape_state' \in 0 .. 2 /\ UNCHANGED <<buffer, history, history_index, repl_mode, screen, entered>>
      BY <2>1 DEF Escape
    <3> QED  BY <3>1, EscapeKeeps
  <2>2. CASE CursorKey(byte)
    <3>1. escape_state' = 0 /\ UNCHANGED <<history, repl_mode, entered>>
      BY <2>2 DEF CursorKey
    <3>2. CASE history_index > 0 /\ history_load(history_index - 1)
      <4>1. history_index - 1 \in 0 .. Len(history)
        BY <1>2, <3>2
      <4>2. EditorInv' /\ Editor!Recall
        BY <3>1, <3>2, <4>1, LoadKeeps
      <4> QED  BY <4>2 DEF Editor!Next
    <3>3. CASE history_index < Len(history) /\ history_load(history_index + 1)
      <4>1. history_index + 1 \in 0 .. Len(history)
        BY <1>2, <3>3
      <4>2. EditorInv' /\ Editor!Recall
        BY <3>1, <3>3, <4>1, LoadKeeps
      <4> QED  BY <4>2 DEF Editor!Next
    <3>4. CASE /\ UNCHANGED <<line, length, history_index>>
               /\ \/ cursor < length /\ screen' = Sent(screen, <<line[cursor + 1]>>) /\ cursor' = cursor + 1
                  \/ cursor > 0 /\ screen' = Sent(screen, <<LEFT>>) /\ cursor' = cursor - 1
      <4>1. UNCHANGED <<history, repl_mode, entered, line, length, history_index>>
        BY <3>1, <3>4
      <4>2. EditorInv' /\ (Editor!Left \/ Editor!Right)
        BY <3>1, <3>4, <4>1, MoveKeeps
      <4> QED  BY <4>2 DEF Editor!Next
    <3>5. CASE UNCHANGED <<buffer, history_index, screen>>
      <4>1. escape_state' \in 0 .. 2 /\ UNCHANGED <<buffer, history, history_index, repl_mode, screen, entered>>
        BY <3>1, <3>5
      <4> QED  BY <4>1, EscapeKeeps
    <3>6. \/ history_index > 0 /\ history_load(history_index - 1)
          \/ history_index < Len(history) /\ history_load(history_index + 1)
          \/ /\ UNCHANGED <<line, length, history_index>>
             /\ \/ cursor < length /\ screen' = Sent(screen, <<line[cursor + 1]>>) /\ cursor' = cursor + 1
                \/ cursor > 0 /\ screen' = Sent(screen, <<LEFT>>) /\ cursor' = cursor - 1
          \/ UNCHANGED <<buffer, history_index, screen>>
      BY <2>2 DEF CursorKey
    <3> QED  BY <3>2, <3>3, <3>4, <3>5, <3>6
  <2>3. CASE StartEscape
    <3>1. escape_state' \in 0 .. 2 /\ UNCHANGED <<buffer, history, history_index, repl_mode, screen, entered>>
      BY <2>3 DEF StartEscape
    <3> QED  BY <3>1, EscapeKeeps
  <2>4. CASE Cancel
    BY <2>4, CancelKeeps DEF Editor!Next
  <2>5. CASE ExecuteLine
    BY <2>5, EnterKeeps DEF Editor!Next
  <2>6. CASE cursor # 0 /\ Erase
    BY <2>6, EraseKeeps DEF Editor!Next
  <2>7. CASE (byte \in Letters \/ byte = DEL) /\ LineHasRoom /\ Insert(byte)
    <3>1. byte \in Typed
      BY <2>7 DEF Typed
    <3>2. DEL \notin EraseKeys => byte \in Letters
      BY <2>7 DEF Keys, DEL, ESC, CtrlC, Enter
    <3>3. EditorInv' /\ Editor!Insert
      BY <2>7, <3>1, <3>2, InsertKeeps
    <3> QED  BY <3>3 DEF Editor!Next
  <2> QED  BY <1>4, <2>1, <2>2, <2>3, <2>4, <2>5, <2>6, <2>7 DEF Press
<1> QED  BY <1>3, <1>4 DEF EditorNext

\* What is remembered is what any account of the lines entered says.
LEMMA RememberedIs ==
  ASSUME Len(entered) \in Nat, NEW g, g[0] = <<>>,
         \A n \in 1 .. Len(entered) : g[n] = KeptAfter(g[n - 1], entered[n])
  PROVE  Remembered = g[Len(entered)]
<1> DEFINE N == Len(entered)
           Body(f, n) == IF n = 0 THEN <<>>
                         ELSE IF entered[n] = <<>> \/ (f[n - 1] # <<>> /\ Last(f[n - 1]) = entered[n])
                              THEN f[n - 1]
                              ELSE Append(f[n - 1], entered[n])
           h == [n \in 0 .. N |-> g[n]]
           F == CHOOSE f : f = [n \in 0 .. N |-> Body(f, n)]
<1>0. ASSUME NEW f, NEW n \in 1 .. N PROVE Body(f, n) = KeptAfter(f[n - 1], entered[n])
  BY DEF KeptAfter
<1>1. h = [n \in 0 .. N |-> Body(h, n)]
  <2> SUFFICES ASSUME NEW n \in 0 .. N PROVE h[n] = Body(h, n)
    OBVIOUS
  <2>1. CASE n = 0
    BY <2>1
  <2>2. CASE n # 0
    <3>1. n \in 1 .. N /\ n - 1 \in 0 .. N
      BY <2>2
    <3>2. Body(h, n) = KeptAfter(h[n - 1], entered[n])
      BY <1>0, <3>1
    <3> HIDE DEF Body
    <3> QED  BY <2>2, <3>1, <3>2
  <2> QED  BY <2>1, <2>2
<1>2. F = [n \in 0 .. N |-> Body(F, n)]
  <2> HIDE DEF Body, h
  <2> QED  BY <1>1
<1>3. Remembered = F[N]
  BY DEF Remembered
<1> HIDE DEF F, Body
<1>4. F[0] = <<>>
  <2>1. 0 \in 0 .. N
    OBVIOUS
  <2>2. F[0] = Body(F, 0)
    BY <1>2, <2>1
  <2> QED  BY <2>2 DEF Body
<1>5. \A n \in 1 .. N : F[n] = KeptAfter(F[n - 1], entered[n])
  BY <1>0, <1>2
<1>6. \A n \in 0 .. N : F[n] = g[n]
  <2> SUFFICES ASSUME NEW x \in 0 .. N, F[x] # g[x] PROVE FALSE
    OBVIOUS
  <2> DEFINE S == {n \in 0 .. N : F[n] # g[n]}
  <2>1. S \in SUBSET Nat /\ S # {}
    OBVIOUS
  <2>2. PICK n \in S : \A j \in S : n <= j
    BY <2>1, Least
  <2>3. n # 0
    BY <1>4, <2>2
  <2>4. n \in 1 .. N /\ n - 1 \in 0 .. N /\ n - 1 \notin S
    BY <2>2, <2>3
  <2>5. F[n - 1] = g[n - 1]
    BY <2>4
  <2> QED  BY <1>5, <2>2, <2>4, <2>5
<1> QED  BY <1>3, <1>6

LEMMA EditorPromises == EditorInv => BufferIsString /\ HistoryIsRecent /\ (DEL \notin EraseKeys => ScreenMatches)
<1> SUFFICES ASSUME EditorInv
             PROVE  BufferIsString /\ HistoryIsRecent /\ (DEL \notin EraseKeys => ScreenMatches)
  OBVIOUS
<1>1. LineInv /\ HistoryInv
  BY DEF EditorInv
<1>2. entered \in Seq(Seq(Typed)) /\ Len(entered) \in Nat
  BY <1>1 DEF HistoryInv
<1>3. PICK f : /\ f[0] = <<>> /\ \A n \in 1 .. Len(entered) : f[n] = KeptAfter(f[n - 1], entered[n])
               /\ f[Len(entered)] \in Seq(Seq(Typed)) /\ history = Recent(f[Len(entered)])
  BY <1>1 DEF HistoryInv
<1>4. Remembered = f[Len(entered)]
  BY <1>2, <1>3, RememberedIs
<1>5. HistoryIsRecent
  BY <1>3, <1>4 DEF HistoryIsRecent, Recent
<1>6. Len(history) <= HISTORY_COUNT
  <2>1. PICK lines : lines = f[Len(entered)]
    OBVIOUS
  <2>2. PICK Texts : Texts = Seq(Typed)
    OBVIOUS
  <2>3. lines \in Seq(Texts) /\ history = Recent(lines)
    BY <1>3, <2>1, <2>2
  <2>4. Len(history) = IF Len(lines) > HISTORY_COUNT THEN HISTORY_COUNT ELSE Len(lines)
    BY <2>3, RecentIs
  <2>5. Len(lines) \in Nat
    BY <2>3
  <2> QED  BY <2>4, <2>5, EditorAssumption
<1>7. BufferIsString
  <2>1. Letters \cup {NUL, DEL} = Typed \cup {NUL}
    BY DEF Typed
  <2>2. line \in [1 .. Size -> Letters \cup {NUL, DEL}]
    BY <1>1, <2>1 DEF LineInv
  <2> QED  BY <1>1, <1>6, <2>2, EditorAssumption DEF BufferIsString, LineInv, HistoryInv
<1>8. ASSUME DEL \notin EraseKeys PROVE ScreenMatches
  <2>1. ScreenInv
    BY <1>8 DEF EditorInv
  <2>2. PICK row : row = screen.row
    OBVIOUS
  <2>3. row \in Seq(Shown) /\ length <= Len(row) /\ Shows(row, line, length) /\ screen.column = cursor
    BY <2>1, <2>2 DEF ScreenInv
  <2>9. length \in Nat
    BY <1>1, EditorAssumption DEF LineInv
  <2>10. \A k \in 1 .. Len(row) : row[k] = IF k <= length THEN line[k] ELSE " "
    BY <2>3 DEF Shows, Cell
  <2>11. Len(row) \in Nat
    BY <2>3
  <2>4. /\ Content \in Seq(Typed) /\ Len(Content) = length /\ \A k \in 1 .. length : Content[k] = line[k]
    BY <1>1, SidesAre
  <2>5. /\ SubSeq(row, 1, length) \in Seq(Shown) /\ Len(SubSeq(row, 1, length)) = length
        /\ \A k \in 1 .. length : SubSeq(row, 1, length)[k] = row[k]
    BY <2>3, <2>9, <2>11
  <2>6. ASSUME NEW k \in 1 .. length PROVE row[k] = line[k]
    <3>1. k \in 1 .. Len(row) /\ k <= length
      BY <2>3, <2>9, <2>11
    <3> QED  BY <2>10, <3>1, Zenon
  <2>12. PICK x : x = Content
    OBVIOUS
  <2>13. PICK y : y = SubSeq(row, 1, length)
    OBVIOUS
  <2>7. y = x
    <3>1. x \in Seq(Typed) /\ Len(x) = length /\ y \in Seq(Shown) /\ Len(y) = length
      BY <2>4, <2>5, <2>12, <2>13, Zenon
    <3>2. x = [k \in 1 .. length |-> x[k]] /\ y = [k \in 1 .. length |-> y[k]]
      <4>1. x \in [1 .. length -> Typed] /\ y \in [1 .. length -> Shown]
        BY <2>9, <3>1
      <4> QED  BY <4>1
    <3>3. \A k \in 1 .. length : y[k] = x[k]
      BY <2>4, <2>5, <2>6, <2>12, <2>13, Zenon
    <3> QED  BY <3>2, <3>3
  <2>8. ASSUME NEW k \in (length + 1) .. Len(row) PROVE row[k] = " "
    <3>1. k \in 1 .. Len(row) /\ ~(k <= length)
      BY <2>9, <2>11
    <3> QED  BY <2>10, <3>1, Zenon
  <2> QED  BY <2>2, <2>3, <2>7, <2>8, <2>9, <2>11, <2>12, <2>13 DEF ScreenMatches
<1> QED  BY <1>5, <1>7, <1>8

\* Whatever the size of the buffer and of the history, and whatever the
\* terminal sends for Backspace, the keys of the console edit the text as
\* those of an editor do, the buffer holds a string, and the history is what
\* was entered last.
THEOREM ConsoleEdits == EditorSpec => IsTextEditor /\ [](BufferIsString /\ HistoryIsRecent)
<1>1. EditorInit => EditorInv /\ Editor!Init
  BY EditorStarts
<1>2. EditorInv /\ [EditorNext]_editorVars => EditorInv' /\ [Editor!Next]_(Editor!vars)
  BY EditorSteps
<1>3. EditorInv => BufferIsString /\ HistoryIsRecent
  BY EditorPromises
<1> QED  BY <1>1, <1>2, <1>3, PTL DEF EditorSpec, IsTextEditor, Editor!Spec

\* On a terminal whose Backspace is not DEL, which the line may hold and the
\* row does not show, the row shows the line as well, with the cursor in its
\* place.
THEOREM ConsoleEditsText == DEL \notin EraseKeys => (EditorSpec => EditsText)
<1> SUFFICES ASSUME DEL \notin EraseKeys PROVE EditorSpec => EditsText
  OBVIOUS
<1>1. EditorInit => EditorInv /\ Editor!Init
  BY EditorStarts
<1>2. EditorInv /\ [EditorNext]_editorVars => EditorInv' /\ [Editor!Next]_(Editor!vars)
  BY EditorSteps
<1>3. EditorInv => BufferIsString /\ ScreenMatches /\ HistoryIsRecent
  BY EditorPromises
<1> QED  BY <1>1, <1>2, <1>3, PTL DEF EditorSpec, EditsText, IsTextEditor, Editor!Spec

-----------------------------------------------------------------------------
(* The shell.                                                              *)

\* What the shell says.
Answers == {"", "OK", "READY", "error", "prompt"}

Uploads == {<<"upload", p, Len(s)>> : p \in Nodes, s \in Payloads}
Lines == Commands \cup Uploads
Tokens == {LineToken(c) : c \in Lines} \cup {ByteToken(b) : b \in Bytes}

UploadJobs == [kind : {"upload"}, path : Nodes, size : Nat, data : Seq(Bytes)]
CopyJobs == [kind : {"copy"}, from : Seq(Bytes), path : Nodes, data : Seq(Bytes)]
RemoveJobs == [kind : {"remove"}, stack : Seq(Places), top : Places]

\* A path of nodes going down from p, which remove_tree has entered.
Descends(stack, p) ==
  /\ stack # <<>>
  /\ \A i \in 1 .. Len(stack) : stack[i] = p \/ stack[i] \in Below(p)

\* Where a job may write follows from the command it is part of.
JobFits ==
  /\ job.kind = "upload" =>
       /\ job \in UploadJobs /\ CanCreate(job.path) /\ saved.command[1] = "upload"
       /\ job.path = saved.command[2] /\ Len(job.data) <= job.size /\ Len(job.data) <= Capacity
  /\ job.kind = "copy" =>
       /\ job \in CopyJobs /\ CanCreate(job.path) /\ saved.command[1] = "cp"
       /\ job.path = saved.command[3] /\ Len(job.data) <= Capacity
  /\ job.kind = "remove" =>
       /\ job \in RemoveJobs /\ saved.command[1] = "rmr" /\ saved.command[2] \in Places
       /\ Descends(job.stack, saved.command[2])

\* The shape of the state.
Shape ==
  /\ DOMAIN flash = Nodes /\ \A p \in Nodes : IsContent(flash[p])
  /\ job \in {Prompt, Off} \cup UploadJobs \cup CopyJobs \cup RemoveJobs
  /\ input \in Seq(Tokens)
  /\ host \in [kind : {"idle", "waits", "sends", "success", "failure"}, path : Places,
               payload : Seq(Bytes), sent : Nat]
  /\ host.sent <= Len(host.payload)
  /\ replies \in Seq(Answers)

ShellInv == Shape /\ JobFits /\ TreeIsWhole /\ OnlyTargetChanges

\* What the assumption says of the constants.
LEMMA Given ==
  /\ IsFiniteSet(Nodes) /\ "/" \notin Nodes /\ Parent \in [Nodes -> Places]
  /\ Capacity \in Nat /\ MaxDepth \in Nat /\ Chunk \in Nat \ {0}
  /\ Payloads \subseteq Seq(Bytes) /\ "text" \in Bytes /\ \A c \in Commands : IsCommand(c)
BY DeviceShellAssumption

-----------------------------------------------------------------------------
(* The tree.                                                               *)

LEMMA BelowSelf ==
  ASSUME NEW p \in Nodes
  PROVE  p \in Below(p)
BY DEF Below, Closed

LEMMA BelowEntries ==
  ASSUME NEW p, NEW q \in Nodes, Parent[q] = p \/ Parent[q] \in Below(p)
  PROVE  q \in Below(p)
BY DEF Below, Closed

\* Where what is not absent lies in a directory, nothing is below what is
\* absent.
LEMMA NothingBelow ==
  ASSUME NEW f, \A q \in Nodes : f[q] # Absent => Parent[q] = "/" \/ f[Parent[q]] = Dir,
         NEW p \in Nodes, f[p] = Absent
  PROVE  \A q \in Below(p) : f[q] = Absent
<1> DEFINE S == {q \in Nodes : f[q] = Absent}
<1>1. ASSUME NEW q \in Nodes, q = p \/ Parent[q] \in S \cup {p}
      PROVE  q \in S
  <2>1. CASE q = p
    BY <2>1
  <2>2. CASE Parent[q] \in S \cup {p}
    BY <2>2, Given DEF Absent, Dir
  <2> QED
    BY <1>1, <2>1, <2>2
<1>2. Closed(S, p)
  BY <1>1 DEF Closed
<1> QED
  BY <1>2 DEF Below

-----------------------------------------------------------------------------
(* The flash.                                                              *)

\* What fits in the flash is no longer than the flash.
LEMMA RoomBounds ==
  ASSUME Shape, NEW p \in Nodes, NEW s \in Seq(Bytes), HasRoom(p, s)
  PROVE  Len(s) <= Capacity
<1> DEFINE files == {q \in Nodes \ {p} : IsFile(flash[q])}
           bytes == UNION {{q} \X DOMAIN Data(flash[q]) : q \in files}
<1>1. \A q \in files : DOMAIN Data(flash[q]) \subseteq 1 .. Capacity
  <2> SUFFICES ASSUME NEW q \in files PROVE DOMAIN Data(flash[q]) \subseteq 1 .. Capacity
    OBVIOUS
  <2>1. Data(flash[q]) \in Seq(Bytes) /\ Len(Data(flash[q])) <= Capacity
    BY DEF Shape, IsContent, Absent, Dir, IsFile
  <2> QED
    BY <2>1, Given
<1>2. bytes \subseteq Nodes \X (1 .. Capacity)
  BY <1>1
<1>3. IsFiniteSet(Nodes \X (1 .. Capacity))
  <2>1. IsFiniteSet(1 .. Capacity)
    BY Given, FS_Interval
  <2> QED
    BY <2>1, Given, FS_Product
<1>4. Cardinality(bytes) \in Nat
  BY <1>2, <1>3, FS_Subset, FS_CardinalityType
<1>5. UsedWithout(p) = Cardinality(bytes)
  BY DEF UsedWithout
<1> QED
  BY <1>4, <1>5, Given DEF HasRoom

\* Closing a file that could be created keeps the tree.
LEMMA CommitKeeps ==
  ASSUME Shape, TreeIsWhole, NEW p \in Nodes, CanCreate(p), NEW s \in Seq(Bytes),
         Len(s) <= Capacity, flash' = Commit(p, s)
  PROVE  /\ DOMAIN flash' = Nodes /\ \A q \in Nodes : IsContent(flash'[q])
         /\ \A q \in Nodes \ {p} : flash'[q] = flash[q]
         /\ flash'[p] = File(s)
         /\ TreeIsWhole'
<1>1. /\ DOMAIN flash' = Nodes /\ flash'[p] = File(s)
      /\ \A q \in Nodes \ {p} : flash'[q] = flash[q]
  BY DEF Shape, Commit
<1>2. IsContent(File(s))
  BY DEF IsContent, File, Data
<1>3. \A q \in Nodes : IsContent(flash'[q])
  BY <1>1, <1>2 DEF Shape
<1>4. ASSUME NEW q \in Nodes, flash'[q] # Absent
      PROVE  IsDir(Parent[q])'
  <2>1. IsDir(Parent[q])
    <3>1. CASE q = p
      BY <3>1 DEF CanCreate
    <3>2. CASE q # p
      BY <3>2, <1>1, <1>4 DEF TreeIsWhole
    <3> QED
      BY <3>1, <3>2
  <2>2. Parent[q] # p /\ Parent[q] \in Places
    BY <2>1, Given DEF CanCreate
  <2> QED
    BY <1>1, <2>1, <2>2 DEF IsDir, Places
<1> QED
  BY <1>1, <1>3, <1>4 DEF TreeIsWhole

Removed(p) == [flash EXCEPT ![p] = Absent]
Made(p) == [flash EXCEPT ![p] = Dir]
Renamed(p, q) == [flash EXCEPT ![q] = flash[p], ![p] = Absent]

\* So does removing what has no entries.
LEMMA RemoveKeeps ==
  ASSUME Shape, TreeIsWhole, NEW p \in Nodes, ~IsDir(p) \/ Children(p) = {},
         flash' = Removed(p)
  PROVE  /\ DOMAIN flash' = Nodes /\ \A q \in Nodes : IsContent(flash'[q])
         /\ \A q \in Nodes \ {p} : flash'[q] = flash[q]
         /\ flash'[p] = Absent
         /\ TreeIsWhole'
<1>1. /\ DOMAIN flash' = Nodes /\ flash'[p] = Absent
      /\ \A q \in Nodes \ {p} : flash'[q] = flash[q]
  BY DEF Shape, Removed
<1>2. \A q \in Nodes : IsContent(flash'[q])
  BY <1>1 DEF Shape, IsContent
<1>3. ASSUME NEW q \in Nodes, flash'[q] # Absent
      PROVE  IsDir(Parent[q])'
  <2>1. q # p /\ flash[q] # Absent
    BY <1>1, <1>3
  <2>2. IsDir(Parent[q]) /\ Parent[q] \in Places
    BY <2>1, Given DEF TreeIsWhole
  <2>3. Parent[q] # p
    BY <2>1, <2>2 DEF Children
  <2> QED
    BY <1>1, <2>2, <2>3 DEF IsDir, Places
<1> QED
  BY <1>1, <1>2, <1>3 DEF TreeIsWhole

\* And making a directory.
LEMMA MakeKeeps ==
  ASSUME Shape, TreeIsWhole, NEW p \in Nodes, IsDir(Parent[p]),
         flash' = Made(p)
  PROVE  /\ DOMAIN flash' = Nodes /\ \A q \in Nodes : IsContent(flash'[q])
         /\ \A q \in Nodes \ {p} : flash'[q] = flash[q]
         /\ TreeIsWhole'
<1>1. /\ DOMAIN flash' = Nodes /\ flash'[p] = Dir
      /\ \A q \in Nodes \ {p} : flash'[q] = flash[q]
  BY DEF Shape, Made
<1>2. \A q \in Nodes : IsContent(flash'[q])
  BY <1>1 DEF Shape, IsContent
<1>3. ASSUME NEW q \in Nodes, flash'[q] # Absent
      PROVE  IsDir(Parent[q])'
  <2>1. IsDir(Parent[q]) /\ Parent[q] \in Places
    BY <1>1, <1>3, Given DEF TreeIsWhole
  <2> QED
    BY <1>1, <2>1 DEF IsDir, Places
<1> QED
  BY <1>1, <1>2, <1>3 DEF TreeIsWhole

\* And moving a file or an empty directory, but not into itself.
LEMMA RenameKeeps ==
  ASSUME Shape, TreeIsWhole, NEW p \in Nodes, NEW q \in Nodes, p # q, Parent[q] # p,
         IsDir(Parent[q]), Children(p) = {},
         flash[q] = Absent \/ (IsFile(flash[p]) /\ IsFile(flash[q])) \/ (IsDir(p) /\ IsDir(q)),
         flash' = Renamed(p, q)
  PROVE  /\ DOMAIN flash' = Nodes /\ \A r \in Nodes : IsContent(flash'[r])
         /\ \A r \in Nodes \ {p, q} : flash'[r] = flash[r]
         /\ flash'[q] = flash[p]
         /\ TreeIsWhole'
<1>1. /\ DOMAIN flash' = Nodes /\ flash'[p] = Absent /\ flash'[q] = flash[p]
      /\ \A r \in Nodes \ {p, q} : flash'[r] = flash[r]
  BY DEF Shape, Renamed
<1>2. \A r \in Nodes : IsContent(flash'[r])
  BY <1>1 DEF Shape, IsContent
<1>3. ASSUME NEW r \in Nodes, flash'[r] # Absent
      PROVE  IsDir(Parent[r])'
  <2>1. r # p /\ IsDir(Parent[r]) /\ Parent[r] \in Places
    BY <1>1, <1>3, Given DEF TreeIsWhole
  <2>2. Parent[r] # p
    <3>1. CASE r = q
      BY <3>1
    <3>2. CASE r # q
      BY <3>2, <1>1, <1>3, <2>1 DEF Children
    <3> QED
      BY <3>1, <3>2
  <2>3. CASE Parent[r] = q
    <3>1. flash[q] = Dir
      BY <2>1, <2>3, Given DEF IsDir
    <3>2. flash[p] = Dir
      BY <3>1, Given DEF IsDir, IsFile, Dir, Absent
    <3> QED
      BY <1>1, <2>3, <3>2 DEF IsDir
  <2>4. CASE Parent[r] # q
    BY <1>1, <2>1, <2>2, <2>4 DEF IsDir, Places
  <2> QED
    BY <2>3, <2>4
<1> QED
  BY <1>1, <1>2, <1>3 DEF TreeIsWhole

-----------------------------------------------------------------------------
(* Steps in general.                                                       *)

Jobs == {Prompt, Off} \cup UploadJobs \cup CopyJobs \cup RemoveJobs

LEMMA Kinds ==
  /\ Prompt.kind = "prompt" /\ Off.kind = "off" /\ IdleHost.kind = "idle"
  /\ IdleHost \in [kind : {"idle"}, path : {"/"}, payload : Seq(Bytes), sent : {0}]
  /\ Len(IdleHost.payload) = 0
BY DEF Prompt, Off, IdleHost

\* A step that leaves the flash, the job and the command alone.
LEMMA QuietKeeps ==
  ASSUME ShellInv, UNCHANGED <<flash, job, saved>>
  PROVE  JobFits' /\ TreeIsWhole' /\ OnlyTargetChanges'
<1>1. JobFits'
  BY DEF ShellInv, JobFits, CanCreate, IsDir
<1>2. TreeIsWhole' /\ OnlyTargetChanges'
  BY DEF ShellInv, TreeIsWhole, IsDir, OnlyTargetChanges
<1> QED
  BY <1>1, <1>2

LEMMA RestFits ==
  ASSUME job' \in {Prompt, Off}
  PROVE  JobFits' /\ job' \in Jobs
BY Kinds DEF JobFits, Jobs

\* An answer ends the command.
LEMMA DoneIs ==
  ASSUME Shape, NEW text \in Answers, Done(text)
  PROVE  JobFits' /\ job' = Prompt /\ job' \in Jobs /\ replies' \in Seq(Answers)
         /\ replies' = replies \o <<text, "prompt">>
<1>1. job' = Prompt /\ replies' = replies \o <<text, "prompt">>
  BY DEF Done, Say
<1>2. "prompt" \in Answers
  BY DEF Answers
<1>3. replies' \in Seq(Answers)
  <2>1. replies \in Seq(Answers)
    BY DEF Shape
  <2>2. <<text, "prompt">> \in Seq(Answers)
    BY <1>2
  <2> QED
    BY <1>1, <2>1, <2>2
<1> QED
  BY <1>1, <1>3, RestFits

LEMMA TargetsKept ==
  ASSUME ShellInv, saved' = saved,
         \A q \in Nodes \ Targets(saved.command) : flash'[q] = flash[q]
  PROVE  OnlyTargetChanges'
BY DEF ShellInv, OnlyTargetChanges

\* The shape is kept by a step that keeps its parts.
LEMMA ShapeKept ==
  ASSUME Shape, DOMAIN flash' = Nodes, \A p \in Nodes : IsContent(flash'[p]),
         job' \in Jobs, input' \in Seq(Tokens), UNCHANGED host, replies' \in Seq(Answers)
  PROVE  Shape'
BY DEF Shape, Jobs

LEMMA InputIs ==
  ASSUME Shape, input # <<>>
  PROVE  /\ Head(input) = input[1] /\ Head(input) \in Tokens /\ Tail(input) \in Seq(Tokens)
         /\ Len(Tail(input)) = Len(input) - 1 /\ Len(input) \in Nat \ {0}
         /\ \A i \in 1 .. Len(Tail(input)) : Tail(input)[i] = input[i + 1]
         /\ Head(input)[1] = "line" => Head(input)[2] \in Lines /\ Head(input) = LineToken(Head(input)[2])
         /\ Head(input)[1] = "byte" => Head(input)[2] \in Bytes /\ Head(input) = ByteToken(Head(input)[2])
         /\ Head(input)[1] \in {"line", "byte"}
<1>1. /\ Head(input) = input[1] /\ Head(input) \in Tokens /\ Tail(input) \in Seq(Tokens)
      /\ Len(Tail(input)) = Len(input) - 1 /\ Len(input) \in Nat \ {0}
      /\ \A i \in 1 .. Len(Tail(input)) : Tail(input)[i] = input[i + 1]
  BY DEF Shape
<1>2. \A x \in Tokens : /\ x[1] = "line" => x[2] \in Lines /\ x = LineToken(x[2])
                        /\ x[1] = "byte" => x[2] \in Bytes /\ x = ByteToken(x[2])
                        /\ x[1] \in {"line", "byte"}
  BY DEF Tokens, LineToken, ByteToken
<1> QED
  BY <1>1, <1>2

-----------------------------------------------------------------------------
(* Commands.                                                               *)

LEMMA LineIs ==
  ASSUME NEW c \in Lines
  PROVE  \/ IsCommand(c)
         \/ c[1] = "upload" /\ c[2] \in Nodes /\ c[3] \in Nat
<1>1. CASE c \in Commands
  BY <1>1, Given
<1>2. CASE c \in Uploads
  <2>1. PICK p \in Nodes, s \in Payloads : c = <<"upload", p, Len(s)>>
    BY <1>2 DEF Uploads
  <2> QED
    BY <2>1, Given
<1> QED
  BY <1>1, <1>2 DEF Lines

\* What a command does before the next byte is read.
Began(c) ==
  /\ DOMAIN flash' = Nodes /\ \A p \in Nodes : IsContent(flash'[p])
  /\ \A q \in Nodes \ Targets(c) : flash'[q] = flash[q]
  /\ TreeIsWhole' /\ JobFits' /\ job' \in Jobs /\ replies' \in Seq(Answers)

LEMMA Unchanging ==
  ASSUME Shape, TreeIsWhole, UNCHANGED flash
  PROVE  /\ DOMAIN flash' = Nodes /\ \A p \in Nodes : IsContent(flash'[p])
         /\ \A q \in Nodes : flash'[q] = flash[q]
         /\ TreeIsWhole'
BY DEF Shape, TreeIsWhole, IsDir

LEMMA RefusedBegan ==
  ASSUME Shape, TreeIsWhole, NEW c, Done("error"), UNCHANGED flash
  PROVE  Began(c)
BY DoneIs, Unchanging DEF Began, Answers

LEMMA UploadBegan ==
  ASSUME Shape, TreeIsWhole, NEW c \in Lines, c[1] = "upload", upload_command(c[2], c[3]),
         saved'.command = c
  PROVE  Began(c)
<1>1. c[2] \in Nodes /\ c[3] \in Nat
  BY LineIs DEF IsCommand
<1>2. CASE ~CanCreate(c[2])
  BY <1>2, RefusedBegan DEF upload_command
<1>3. CASE CanCreate(c[2])
  <2>1. /\ job' = [kind |-> "upload", path |-> c[2], size |-> c[3], data |-> <<>>]
        /\ replies' = Append(replies, "READY") /\ flash' = flash
    BY <1>3 DEF upload_command
  <2>2. job' \in UploadJobs
    BY <1>1, <2>1 DEF UploadJobs
  <2>3. CanCreate(c[2])'
    BY <1>3, <2>1 DEF CanCreate, IsDir
  <2>4. Len(job'.data) = 0 /\ job'.size = c[3] /\ job'.path = c[2] /\ job'.kind = "upload"
    BY <2>1
  <2>5. JobFits'
    BY <1>1, <2>2, <2>3, <2>4, Given DEF JobFits, CanCreate, IsDir
  <2>6. replies' \in Seq(Answers)
    <3>1. "READY" \in Answers
      BY DEF Answers
    <3> QED
      BY <2>1, <3>1 DEF Shape
  <2> QED
    BY <2>1, <2>2, <2>5, <2>6, Unchanging DEF Began, Jobs
<1> QED
  BY <1>2, <1>3

LEMMA EchoBegan ==
  ASSUME Shape, TreeIsWhole, NEW c \in Lines, c[1] = "echo", echo_command(c[2], c[3])
  PROVE  Began(c)
<1>1. c[2] \in Places /\ c[3] \in Seq(Bytes)
  BY LineIs DEF IsCommand
<1>2. CASE ~CanCreate(c[2])
  BY <1>2, RefusedBegan DEF echo_command
<1>3. CASE CanCreate(c[2])
  <2>1. c[2] \in Nodes /\ Targets(c) = {c[2]}
    BY <1>1, <1>3 DEF CanCreate, Places, Targets
  <2>2. "" \in Answers /\ "error" \in Answers
    BY DEF Answers
  <2>3. CASE HasRoom(c[2], c[3])
    <3>1. flash' = Commit(c[2], c[3]) /\ Done("")
      BY <1>3, <2>3 DEF echo_command
    <3>2. Len(c[3]) <= Capacity
      BY <1>1, <2>1, <2>3, RoomBounds
    <3> QED
      BY <1>1, <1>3, <2>1, <2>2, <3>1, <3>2, CommitKeeps, DoneIs DEF Began
  <2>4. CASE ~HasRoom(c[2], c[3])
    <3>1. flash' = Commit(c[2], <<>>) /\ Done("error")
      BY <1>3, <2>4 DEF echo_command
    <3>2. <<>> \in Seq(Bytes) /\ Len(<<>>) <= Capacity
      BY Given
    <3> QED
      BY <1>3, <2>1, <2>2, <3>1, <3>2, CommitKeeps, DoneIs DEF Began
  <2> QED
    BY <2>3, <2>4
<1> QED
  BY <1>2, <1>3

LEMMA CopyBegan ==
  ASSUME Shape, TreeIsWhole, NEW c \in Lines, c[1] = "cp", cp_command(c[2], c[3]),
         saved'.command = c
  PROVE  Began(c)
<1>1. c[2] \in Places /\ c[3] \in Places
  BY LineIs DEF IsCommand
<1>2. CASE ~(c[2] # "/" /\ IsFile(flash[c[2]]) /\ CanCreate(c[3]))
  BY <1>2, RefusedBegan DEF cp_command
<1>3. CASE c[2] # "/" /\ IsFile(flash[c[2]]) /\ CanCreate(c[3])
  <2>1. /\ job' = [kind |-> "copy", from |-> Data(flash[c[2]]), path |-> c[3], data |-> <<>>]
        /\ replies' = replies /\ flash' = flash
    BY <1>3 DEF cp_command
  <2>2. c[2] \in Nodes /\ c[3] \in Nodes
    BY <1>1, <1>3 DEF CanCreate, Places
  <2>3. Data(flash[c[2]]) \in Seq(Bytes)
    BY <1>3, <2>2 DEF Shape, IsContent, IsFile, Absent, Dir
  <2>4. job' \in CopyJobs /\ replies' \in Seq(Answers)
    BY <2>1, <2>2, <2>3 DEF CopyJobs, Shape
  <2>5. CanCreate(c[3])'
    BY <1>3, <2>1 DEF CanCreate, IsDir
  <2>6. Len(job'.data) = 0 /\ job'.path = c[3] /\ job'.kind = "copy"
    BY <2>1
  <2>7. JobFits'
    BY <2>4, <2>5, <2>6, Given DEF JobFits, CanCreate, IsDir
  <2> QED
    BY <2>1, <2>4, <2>7, Unchanging DEF Began, Jobs
<1> QED
  BY <1>2, <1>3

LEMMA MoveBegan ==
  ASSUME Shape, TreeIsWhole, NEW c \in Lines, c[1] = "mv", mv_command(c[2], c[3])
  PROVE  Began(c)
<1> DEFINE p == c[2]
           q == c[3]
<1>1. p \in Places /\ q \in Places /\ (q \in Nodes => Parent[q] # p) /\ Targets(c) = {p, q}
  BY LineIs DEF IsCommand, Targets
<1> HIDE DEF p, q
<1>2. \/ Done("error") /\ UNCHANGED flash
      \/ /\ p # "/" /\ q # "/" /\ IsDir(Parent[q]) /\ Children(p) = {}
         /\ flash[q] = Absent \/ (IsFile(flash[p]) /\ IsFile(flash[q])) \/ (IsDir(p) /\ IsDir(q))
         /\ flash' = IF p = q THEN flash ELSE Renamed(p, q)
         /\ Done("")
  BY DEF mv_command, p, q, Renamed
<1>3. CASE Done("error") /\ UNCHANGED flash
  BY <1>3, RefusedBegan
<1>4. CASE /\ p # "/" /\ q # "/" /\ IsDir(Parent[q]) /\ Children(p) = {}
           /\ flash[q] = Absent \/ (IsFile(flash[p]) /\ IsFile(flash[q])) \/ (IsDir(p) /\ IsDir(q))
           /\ flash' = IF p = q THEN flash ELSE Renamed(p, q)
           /\ Done("")
  <2>1. p \in Nodes /\ q \in Nodes
    BY <1>1, <1>4 DEF Places
  <2>2. CASE p = q
    <3>1. UNCHANGED flash /\ Done("")
      BY <1>4, <2>2
    <3> QED
      BY <3>1, Unchanging, DoneIs DEF Began, Answers
  <2>3. CASE p # q
    <3>1. flash' = Renamed(p, q) /\ Done("") /\ Parent[q] # p
      BY <1>1, <1>4, <2>1, <2>3
    <3>2. /\ DOMAIN flash' = Nodes /\ \A r \in Nodes : IsContent(flash'[r])
          /\ \A r \in Nodes \ {p, q} : flash'[r] = flash[r]
          /\ TreeIsWhole'
      BY <1>4, <2>1, <2>3, <3>1, RenameKeeps
    <3> QED
      BY <1>1, <3>1, <3>2, DoneIs DEF Began, Answers
  <2> QED
    BY <2>2, <2>3
<1> QED
  BY <1>2, <1>3, <1>4

LEMMA RestBegan ==
  ASSUME Shape, TreeIsWhole, NEW c \in Lines, saved'.command = c,
         \/ c[1] = "mkdir" /\ mkdir_command(c[2])
         \/ c[1] = "rm" /\ rm_command(c[2])
         \/ c[1] = "rmr" /\ rmr_command(c[2])
  PROVE  Began(c)
<1>1. c[2] \in Places
  BY LineIs DEF IsCommand
<1>2. CASE c[1] = "mkdir" /\ mkdir_command(c[2])
  <2>1. CASE c[2] # "/" /\ ~Exists(c[2]) /\ IsDir(Parent[c[2]])
    <3>1. c[2] \in Nodes /\ Targets(c) = {c[2]}
      BY <1>1, <1>2, <2>1 DEF Places, Targets
    <3> QED
      <4>1. flash' = Made(c[2]) /\ Done("")
        BY <1>2, <2>1 DEF mkdir_command, Made
      <4> QED
        BY <2>1, <3>1, <4>1, MakeKeeps, DoneIs DEF Began, Answers
  <2>2. CASE ~(c[2] # "/" /\ ~Exists(c[2]) /\ IsDir(Parent[c[2]]))
    BY <1>2, <2>2, RefusedBegan DEF mkdir_command
  <2> QED
    BY <2>1, <2>2
<1>3. CASE c[1] = "rm" /\ rm_command(c[2])
  <2>1. CASE c[2] # "/" /\ IsFile(flash[c[2]])
    <3>1. c[2] \in Nodes /\ Targets(c) = {c[2]} /\ ~IsDir(c[2])
      BY <1>1, <1>3, <2>1 DEF Places, Targets, IsDir, IsFile, Dir
    <3> QED
      <4>1. flash' = Removed(c[2]) /\ Done("")
        BY <1>3, <2>1 DEF rm_command, Removed
      <4> QED
        BY <3>1, <4>1, RemoveKeeps, DoneIs DEF Began, Answers
  <2>2. CASE ~(c[2] # "/" /\ IsFile(flash[c[2]]))
    BY <1>3, <2>2, RefusedBegan DEF rm_command
  <2> QED
    BY <2>1, <2>2
<1>4. CASE c[1] = "rmr" /\ rmr_command(c[2])
  <2>1. /\ job' = [kind |-> "remove", stack |-> <<c[2]>>, top |-> c[2]]
        /\ replies' = replies /\ flash' = flash
    BY <1>4 DEF rmr_command
  <2>2. job' \in RemoveJobs /\ job'.kind = "remove" /\ job'.stack = <<c[2]>>
    BY <1>1, <2>1 DEF RemoveJobs
  <2>3. Descends(<<c[2]>>, c[2])
    BY DEF Descends
  <2>4. JobFits'
    BY <1>1, <1>4, <2>2, <2>3 DEF JobFits, Descends, Below, Closed
  <2> QED
    BY <2>1, <2>2, <2>4, Unchanging DEF Began, Jobs, Shape
<1> QED
  BY <1>2, <1>3, <1>4

LEMMA ExecuteBegan ==
  ASSUME Shape, TreeIsWhole, NEW c \in Lines, Execute(c), saved'.command = c
  PROVE  Began(c)
<1>1. c[1] \in {"upload", "echo", "cp", "mv", "mkdir", "rm", "rmr"}
  BY LineIs DEF IsCommand
<1>2. CASE c[1] = "upload"
  BY <1>2, UploadBegan DEF Execute
<1>3. CASE c[1] = "echo"
  BY <1>3, EchoBegan DEF Execute
<1>4. CASE c[1] = "cp"
  BY <1>4, CopyBegan DEF Execute
<1>5. CASE c[1] = "mv"
  BY <1>5, MoveBegan DEF Execute
<1>6. CASE c[1] \in {"mkdir", "rm", "rmr"}
  BY <1>6, RestBegan DEF Execute
<1> QED
  BY <1>1, <1>2, <1>3, <1>4, <1>5, <1>6
-----------------------------------------------------------------------------
(* What every step keeps.                                                  *)

LEMMA ShellInit ==
  ASSUME Init
  PROVE  ShellInv
<1>1. DOMAIN flash = Nodes /\ \A p \in Nodes : IsContent(flash[p])
  BY DeviceShellAssumption DEF Init
<1>2. job \in Jobs /\ JobFits
  BY Kinds DEF Init, Jobs, JobFits
<1>3. /\ host \in [kind : {"idle", "waits", "sends", "success", "failure"}, path : Places,
                   payload : Seq(Bytes), sent : Nat]
      /\ host.sent <= Len(host.payload)
  BY DEF Init, IdleHost, Places
<1>4. input \in Seq(Tokens) /\ replies \in Seq(Answers)
  BY DEF Init
<1>5. TreeIsWhole
  BY DeviceShellAssumption DEF Init, TreeIsWhole, IsDir
<1>6. OnlyTargetChanges
  BY DEF Init, OnlyTargetChanges
<1> QED
  BY <1>1, <1>2, <1>3, <1>4, <1>5, <1>6 DEF ShellInv, Shape, Jobs

Hosts == [kind : {"idle", "waits", "sends", "success", "failure"}, path : Places,
          payload : Seq(Bytes), sent : Nat]

\* The host's steps: they leave the device alone.
LEMMA HostKeeps ==
  ASSUME ShellInv, UNCHANGED <<flash, job, saved>>, input' \in Seq(Tokens), replies' \in Seq(Answers),
         host' \in Hosts, host'.sent <= Len(host'.payload)
  PROVE  ShellInv'
<1>1. JobFits' /\ TreeIsWhole' /\ OnlyTargetChanges'
  BY QuietKeeps
<1>2. Shape'
  BY DEF ShellInv, Shape, Hosts
<1> QED
  BY <1>1, <1>2 DEF ShellInv

LEMMA TypeKeeps ==
  ASSUME ShellInv, NEW c \in Commands, Type(c)
  PROVE  ShellInv'
<1>1. LineToken(c) \in Tokens
  BY DEF Tokens, Lines
<1>2. input' \in Seq(Tokens) /\ replies' \in Seq(Answers)
  BY <1>1 DEF Type
<1>3. host' \in Hosts /\ host'.sent <= Len(host'.payload) /\ UNCHANGED <<flash, job, saved>>
  BY DEF Type, ShellInv, Shape, Hosts
<1> QED
  BY <1>2, <1>3, HostKeeps

LEMMA StartUploadKeeps ==
  ASSUME ShellInv, NEW p \in Nodes, NEW s \in Payloads, StartUpload(p, s)
  PROVE  ShellInv'
<1> DEFINE request == LineToken(<<"upload", p, Len(s)>>)
<1>1. request \in Tokens
  BY DEF Tokens, Lines, Uploads
<1>2. input' = Append(input, request) /\ replies' = <<>> /\ UNCHANGED <<flash, job, saved>>
      /\ host' = [kind |-> "waits", path |-> p, payload |-> s, sent |-> 0]
  BY DEF StartUpload
<1> HIDE DEF request
<1>3. input' \in Seq(Tokens) /\ replies' \in Seq(Answers)
  BY <1>1, <1>2 DEF ShellInv, Shape
<1>4. host' \in Hosts /\ host'.sent <= Len(host'.payload)
  BY <1>2, Given DEF Hosts, Places
<1> QED
  BY <1>2, <1>3, <1>4, HostKeeps

LEMMA HostStepKeeps ==
  ASSUME ShellInv, HostSeesReady \/ HostSends \/ HostConcludes \/ HostGoesOn
  PROVE  ShellInv'
<1> USE DEF Hosts
<1>1. host \in Hosts /\ host.sent <= Len(host.payload) /\ input \in Seq(Tokens) /\ replies \in Seq(Answers)
  BY DEF ShellInv, Shape
<1>2. CASE HostSeesReady
  <2>1. host' \in Hosts /\ host'.sent <= Len(host'.payload)
    BY <1>1, <1>2 DEF HostSeesReady
  <2> QED
    BY <1>1, <1>2, <2>1, HostKeeps DEF HostSeesReady
<1>3. CASE HostSends
  <2>1. host' \in Hosts /\ host'.sent <= Len(host'.payload)
    <3>1. host' = [host EXCEPT !.sent = host.sent + 1]
      BY <1>3 DEF HostSends
    <3>2. host'.sent = host.sent + 1 /\ host'.payload = host.payload /\ host' \in Hosts
      BY <1>1, <3>1
    <3>3. host.sent < Len(host.payload) /\ Len(host.payload) \in Nat /\ host.sent \in Nat
      BY <1>1, <1>3 DEF HostSends
    <3> QED
      BY <3>2, <3>3
  <2>2. ByteToken(host.payload[host.sent + 1]) \in Tokens
    BY <1>1, <1>3 DEF HostSends, Tokens
  <2>3. input' \in Seq(Tokens)
    BY <1>1, <1>3, <2>2 DEF HostSends
  <2> QED
    BY <1>1, <1>3, <2>1, <2>3, HostKeeps DEF HostSends
<1>4. CASE HostConcludes
  <2>1. host' \in Hosts /\ host'.sent <= Len(host'.payload)
    BY <1>1, <1>4 DEF HostConcludes
  <2> QED
    BY <1>1, <1>4, <2>1, HostKeeps DEF HostConcludes
<1>5. CASE HostGoesOn
  <2>1. host' \in Hosts /\ host'.sent <= Len(host'.payload)
    BY <1>5 DEF HostGoesOn, IdleHost, Places
  <2> QED
    BY <1>1, <1>5, <2>1, HostKeeps DEF HostGoesOn
<1> QED
  BY <1>2, <1>3, <1>4, <1>5

LEMMA ReadLineKeeps ==
  ASSUME ShellInv, ReadLine
  PROVE  ShellInv'
<1> DEFINE c == IF typed = <<>> THEN Head(input)[2] ELSE NoCommand
<1>1. /\ saved' = [flash |-> flash, command |-> c] /\ UNCHANGED host /\ input' = Tail(input)
      /\ input # <<>> /\ Head(input)[1] = "line"
  BY DEF ReadLine
<1>2. input' \in Seq(Tokens) /\ Head(input)[2] \in Lines
  BY <1>1, InputIs DEF ShellInv
<1>3. Began(c)
  <2>1. CASE typed = <<>>
    <3>1. Execute(c) /\ c \in Lines /\ saved'.command = c
      BY <1>1, <1>2, <2>1 DEF ReadLine
    <3> QED
      BY <3>1, ExecuteBegan DEF ShellInv
  <2>2. CASE typed # <<>>
    BY <2>2, RefusedBegan DEF ReadLine, ShellInv
  <2> QED
    BY <2>1, <2>2
<1> HIDE DEF c
<1>4. Shape'
  BY <1>1, <1>2, <1>3, ShapeKept DEF Began, ShellInv
<1>5. OnlyTargetChanges'
  <2>1. saved'.flash = flash /\ saved'.command = c
    BY <1>1
  <2>2. \A q \in Nodes \ Targets(c) : flash'[q] = flash[q]
    BY <1>3 DEF Began
  <2> QED
    BY <2>1, <2>2 DEF OnlyTargetChanges, Targets, Below, Closed
<1> QED
  BY <1>3, <1>4, <1>5 DEF ShellInv, Began

LEMMA SomeAnswers ==
  "" \in Answers /\ "OK" \in Answers /\ "READY" \in Answers /\ "error" \in Answers /\ "prompt" \in Answers
BY DEF Answers

LEMMA OneIsSeq ==
  ASSUME NEW S, NEW x \in S
  PROVE  <<x>> \in Seq(S)
OBVIOUS

LEMMA WiderSeq ==
  ASSUME NEW S, NEW T, S \subseteq T, NEW s \in Seq(S)
  PROVE  s \in Seq(T)
OBVIOUS

\* What the console and the shell say at the end of a line that is typed.
LEMMA EndOfLine ==
  ASSUME Shape, ReadByte, Head(input)[2] = "nl"
  PROVE  /\ UNCHANGED <<flash, job, saved, host>> /\ job.kind = "prompt" /\ typed' = <<>>
         /\ replies' \in Seq(Answers)
         /\ "" \in ToSet(replies') => "" \in ToSet(replies)
         /\ "OK" \in ToSet(replies') => "OK" \in ToSet(replies) \/ (typed # <<>> /\ Last(typed) = "OK")
<1> DEFINE answer == IF typed = <<>> THEN <<"prompt">> ELSE <<"error", "prompt">>
<1>1. /\ UNCHANGED <<flash, job, saved, host>> /\ job.kind = "prompt" /\ typed' = <<>>
      /\ replies' = replies \o Echo(typed) \o answer
  BY DEF ReadByte
<1>2. /\ Echo(typed) \in Seq({"OK"})
      /\ ~(typed # <<>> /\ Last(typed) = "OK") => Echo(typed) = <<>>
  <2>1. CASE typed # <<>> /\ Last(typed) = "OK"
    <3>1. Echo(typed) = <<"OK">>
      BY <2>1 DEF Echo
    <3> QED
      BY <2>1, <3>1, OneIsSeq
  <2>2. CASE ~(typed # <<>> /\ Last(typed) = "OK")
    <3>1. Echo(typed) = <<>>
      BY <2>2 DEF Echo
    <3> QED
      BY <2>2, <3>1
  <2> QED
    BY <2>1, <2>2
<1>3. answer \in Seq({"error", "prompt"})
  <2>1. CASE typed = <<>>
    BY <2>1, OneIsSeq
  <2>2. CASE typed # <<>>
    BY <2>2
  <2> QED
    BY <2>1, <2>2
<1>4. replies \in Seq(Answers)
  BY DEF Shape
<1> HIDE DEF answer
<1>5. ASSUME NEW text \in Answers, text \in ToSet(replies')
      PROVE  text \in ToSet(replies) \/ text \in {"error", "prompt"} \/ (text = "OK" /\ Echo(typed) # <<>>)
  <2>1. Echo(typed) \in Seq(Answers) /\ answer \in Seq(Answers)
    BY <1>2, <1>3, SomeAnswers, WiderSeq
  <2>2. PICK i \in 1 .. Len(replies') : replies'[i] = text
    BY <1>1, <1>4, <1>5, <2>1 DEF ToSet
  <2>3. CASE i <= Len(replies)
    <3>1. i \in DOMAIN replies /\ replies[i] = text
      BY <1>1, <1>4, <2>1, <2>2, <2>3
    <3> QED
      BY <3>1 DEF ToSet
  <2>4. CASE i > Len(replies) /\ i <= Len(replies) + Len(Echo(typed))
    <3>1. i - Len(replies) \in 1 .. Len(Echo(typed)) /\ Echo(typed)[i - Len(replies)] = text
      BY <1>1, <1>4, <2>1, <2>2, <2>4
    <3> QED
      BY <1>2, <3>1
  <2>5. CASE i > Len(replies) + Len(Echo(typed))
    <3>1. /\ i - (Len(replies) + Len(Echo(typed))) \in 1 .. Len(answer)
          /\ answer[i - (Len(replies) + Len(Echo(typed)))] = text
      BY <1>1, <1>4, <2>1, <2>2, <2>5
    <3> QED
      BY <1>3, <3>1
  <2> QED
    BY <1>4, <2>1, <2>2, <2>3, <2>4, <2>5
<1>6. replies' \in Seq(Answers)
  <2>1. Echo(typed) \in Seq(Answers) /\ answer \in Seq(Answers)
    BY <1>2, <1>3, SomeAnswers, WiderSeq
  <2> QED
    BY <1>1, <1>4, <2>1
<1>7. "" \in ToSet(replies') => "" \in ToSet(replies)
  BY <1>5 DEF Answers
<1>8. "OK" \in ToSet(replies') => "OK" \in ToSet(replies) \/ (typed # <<>> /\ Last(typed) = "OK")
  BY <1>2, <1>5 DEF Answers
<1> QED
  BY <1>1, <1>6, <1>7, <1>8

LEMMA ReadByteKeeps ==
  ASSUME ShellInv, ReadByte
  PROVE  ShellInv'
<1>1. input' \in Seq(Tokens) /\ UNCHANGED <<flash, job, saved, host>>
  BY InputIs DEF ReadByte, ShellInv
<1>2. replies' \in Seq(Answers)
  <2>1. Head(input)[2] # "nl" => UNCHANGED replies
    BY DEF ReadByte
  <2> QED
    BY <2>1, EndOfLine DEF ShellInv, Shape
<1> QED
  BY <1>1, <1>2, HostKeeps DEF ShellInv, Shape, Hosts

\* A command ends and its file is closed.
LEMMA ClosedKeeps ==
  ASSUME ShellInv, NEW p \in Nodes, CanCreate(p), NEW s \in Seq(Bytes), Len(s) <= Capacity,
         flash' = Commit(p, s), p \in Targets(saved.command), NEW text \in Answers, Done(text),
         UNCHANGED <<saved, host>>, input' \in Seq(Tokens)
  PROVE  ShellInv'
<1>1. /\ DOMAIN flash' = Nodes /\ \A q \in Nodes : IsContent(flash'[q])
      /\ \A q \in Nodes \ {p} : flash'[q] = flash[q]
      /\ TreeIsWhole'
  BY CommitKeeps DEF ShellInv
<1>2. JobFits' /\ job' \in Jobs /\ replies' \in Seq(Answers)
  BY DoneIs DEF ShellInv
<1>3. OnlyTargetChanges'
  BY <1>1, TargetsKept
<1>4. Shape'
  BY <1>1, <1>2, ShapeKept DEF ShellInv
<1> QED
  BY <1>1, <1>2, <1>3, <1>4 DEF ShellInv

\* A job goes on and the flash stays as it is.
LEMMA GoesOnKeeps ==
  ASSUME ShellInv, UNCHANGED <<flash, saved, host, replies>>, input' \in Seq(Tokens),
         job' \in Jobs, JobFits'
  PROVE  ShellInv'
<1>1. TreeIsWhole' /\ DOMAIN flash' = Nodes /\ \A p \in Nodes : IsContent(flash'[p])
  BY Unchanging DEF ShellInv
<1>2. OnlyTargetChanges'
  BY TargetsKept
<1>3. Shape'
  BY <1>1, ShapeKept DEF ShellInv, Shape
<1> QED
  BY <1>1, <1>2, <1>3 DEF ShellInv

\* What is known of an upload and of a copy under way.
LEMMA UploadIs ==
  ASSUME ShellInv, job.kind = "upload"
  PROVE  /\ job \in UploadJobs /\ job.path \in Nodes /\ job.data \in Seq(Bytes) /\ job.size \in Nat
         /\ CanCreate(job.path) /\ job.path \in Targets(saved.command)
         /\ Len(job.data) <= job.size /\ Len(job.data) <= Capacity
         /\ saved.command[1] = "upload" /\ job.path = saved.command[2]
BY DEF ShellInv, JobFits, UploadJobs, Targets

LEMMA CopyIs ==
  ASSUME ShellInv, job.kind = "copy"
  PROVE  /\ job \in CopyJobs /\ job.path \in Nodes /\ job.data \in Seq(Bytes) /\ job.from \in Seq(Bytes)
         /\ CanCreate(job.path) /\ job.path \in Targets(saved.command)
         /\ Len(job.data) <= Capacity
         /\ saved.command[1] = "cp" /\ job.path = saved.command[3]
BY DEF ShellInv, JobFits, CopyJobs, Targets

LEMMA UploadReadsKeeps ==
  ASSUME ShellInv, UploadReads
  PROVE  ShellInv'
<1> DEFINE byte == IF Head(input)[1] = "byte" THEN Head(input)[2] ELSE "text"
<1>1. byte \in Bytes /\ input' \in Seq(Tokens) /\ UNCHANGED <<saved, host>>
  BY InputIs, Given DEF UploadReads, ShellInv
<1>2. job.kind = "upload" /\ Len(job.data) < job.size
  BY DEF UploadReads
<1>3. CASE HasRoom(job.path, Append(job.data, byte))
  <2>1. job' = [job EXCEPT !.data = Append(job.data, byte)] /\ UNCHANGED <<flash, replies>>
    BY <1>3 DEF UploadReads
  <2> HIDE DEF byte
  <2>2. Append(job.data, byte) \in Seq(Bytes) /\ Len(Append(job.data, byte)) = Len(job.data) + 1
    BY <1>1, <1>2, UploadIs
  <2>3. Len(Append(job.data, byte)) <= Capacity
    BY <1>2, <1>3, <2>2, UploadIs, RoomBounds DEF ShellInv
  <2>4. /\ job' \in UploadJobs /\ job'.data = Append(job.data, byte)
        /\ job'.size = job.size /\ job'.path = job.path /\ job'.kind = "upload"
    BY <1>2, <2>1, <2>2, UploadIs DEF UploadJobs
  <2>5. Len(job'.data) <= job'.size /\ Len(job'.data) <= Capacity
    <3>1. Len(job.data) \in Nat /\ job.size \in Nat
      BY <1>2, UploadIs
    <3> QED
      BY <1>2, <2>2, <2>3, <2>4, <3>1
  <2>6. CanCreate(job.path) /\ saved.command[1] = "upload" /\ job.path = saved.command[2]
    BY <1>2, UploadIs
  <2>7. JobFits'
    BY <1>1, <2>1, <2>4, <2>5, <2>6 DEF JobFits, CanCreate, IsDir
  <2> QED
    BY <1>1, <2>1, <2>4, <2>7, GoesOnKeeps DEF Jobs
<1>4. CASE ~HasRoom(job.path, Append(job.data, byte))
  <2>1. flash' = Commit(job.path, job.data) /\ Done("error")
    BY <1>4 DEF UploadReads
  <2> QED
    BY <1>1, <1>2, <2>1, UploadIs, SomeAnswers, ClosedKeeps
<1> QED
  BY <1>3, <1>4

LEMMA UploadEndsKeeps ==
  ASSUME ShellInv, UploadTimesOut \/ UploadCloses
  PROVE  ShellInv'
<1>1. PICK text \in Answers : flash' = Commit(job.path, job.data) /\ Done(text)
  <2>1. CASE UploadTimesOut
    BY <2>1, SomeAnswers DEF UploadTimesOut
  <2>2. CASE UploadCloses
    BY <2>2, SomeAnswers DEF UploadCloses
  <2> QED
    BY <2>1, <2>2
<1>2. job.kind = "upload" /\ UNCHANGED <<input, saved, host>>
  BY DEF UploadTimesOut, UploadCloses
<1>3. input' \in Seq(Tokens)
  BY <1>2 DEF ShellInv, Shape
<1> QED
  BY <1>1, <1>2, <1>3, UploadIs, ClosedKeeps

LEMMA CopyStepKeeps ==
  ASSUME ShellInv, CopyStep
  PROVE  ShellInv'
<1> DEFINE rest == SubSeq(job.from, Len(job.data) + 1, Len(job.from))
           some == SubSeq(rest, 1, IF Chunk < Len(rest) THEN Chunk ELSE Len(rest))
<1>1. job.kind = "copy" /\ UNCHANGED <<input, saved, host>>
  BY DEF CopyStep
<1>2. input' \in Seq(Tokens)
  BY <1>1 DEF ShellInv, Shape
<1>3. CASE /\ HasRoom(job.path, job.data \o some) /\ rest # <<>>
  <2>1. job' = [job EXCEPT !.data = job.data \o some] /\ UNCHANGED <<flash, replies>>
    BY <1>3 DEF CopyStep
  <2>2. job.data \o some \in Seq(Bytes)
    <3>1. rest \in Seq(Bytes)
      BY <1>1, CopyIs
    <3> HIDE DEF rest
    <3>2. some \in Seq(Bytes)
      BY <3>1, Given
    <3> QED
      BY <1>1, <3>2, CopyIs
  <2> HIDE DEF some, rest
  <2>3. Len(job.data \o some) <= Capacity
    BY <1>1, <1>3, <2>2, CopyIs, RoomBounds DEF ShellInv
  <2>4. /\ job' \in CopyJobs /\ job'.data = job.data \o some
        /\ job'.path = job.path /\ job'.kind = "copy"
    BY <1>1, <2>1, <2>2, CopyIs DEF CopyJobs
  <2>5. CanCreate(job.path) /\ saved.command[1] = "cp" /\ job.path = saved.command[3]
    BY <1>1, CopyIs
  <2>6. JobFits'
    BY <1>1, <2>1, <2>3, <2>4, <2>5 DEF JobFits, CanCreate, IsDir
  <2> QED
    BY <1>1, <1>2, <2>1, <2>4, <2>6, GoesOnKeeps DEF Jobs
<1>4. CASE ~(HasRoom(job.path, job.data \o some) /\ rest # <<>>)
  <2>1. flash' = Commit(job.path, job.data) /\ (Done("") \/ Done("error"))
    BY <1>4 DEF CopyStep
  <2> QED
    BY <1>1, <1>2, <2>1, CopyIs, SomeAnswers, ClosedKeeps
<1> QED
  BY <1>3, <1>4

LEMMA RemoveIs ==
  ASSUME ShellInv, job.kind = "remove"
  PROVE  /\ job \in RemoveJobs /\ job.stack \in Seq(Places) /\ job.stack # <<>>
         /\ saved.command[1] = "rmr" /\ saved.command[2] \in Places
         /\ Descends(job.stack, saved.command[2])
         /\ Targets(saved.command) = Below(saved.command[2])
         /\ Last(job.stack) = job.stack[Len(job.stack)] /\ Len(job.stack) \in Nat \ {0}
         /\ Last(job.stack) \in Places
         /\ Last(job.stack) = saved.command[2] \/ Last(job.stack) \in Below(saved.command[2])
<1>1. /\ job \in RemoveJobs /\ job.stack \in Seq(Places) /\ job.stack # <<>>
      /\ saved.command[1] = "rmr" /\ saved.command[2] \in Places
      /\ Descends(job.stack, saved.command[2])
  BY DEF ShellInv, JobFits, RemoveJobs, Descends
<1>2. Targets(saved.command) = Below(saved.command[2])
  BY <1>1 DEF Targets
<1>3. Len(job.stack) \in Nat \ {0}
  BY <1>1
<1>4. Last(job.stack) = job.stack[Len(job.stack)] /\ Last(job.stack) \in Places
  BY <1>1, <1>3 DEF Last
<1> QED
  BY <1>1, <1>2, <1>3, <1>4 DEF Descends

Up == SubSeq(job.stack, 1, Len(job.stack) - 1)
Rises == IF Up = <<>> THEN Done("") ELSE job' = [job EXCEPT !.stack = Up] /\ UNCHANGED replies

\* The cases of a call of remove_tree: it removes what has no entries, it
\* enters a directory, or it gives up.
LEMMA RemoveCases ==
  ASSUME ShellInv, RemoveStep
  PROVE  /\ job.kind = "remove" /\ UNCHANGED <<typed, input, host, saved, ranData, commands, cuts>>
         /\ \/ /\ Last(job.stack) \in Nodes
               /\ ~IsDir(Last(job.stack)) \/ Children(Last(job.stack)) = {}
               /\ flash' = Removed(Last(job.stack)) /\ Rises
            \/ Done("error") /\ UNCHANGED flash
            \/ \E q \in Children(Last(job.stack)) :
                 job' = [job EXCEPT !.stack = Append(job.stack, q)] /\ UNCHANGED <<flash, replies>>
<1>1. job.kind = "remove" /\ UNCHANGED <<typed, input, host, saved, ranData, commands, cuts>>
  BY DEF RemoveStep
<1>2. Last(job.stack) \in Places
  BY <1>1, RemoveIs
<1> DEFINE p == Last(job.stack)
<1>3. CASE ~IsDir(p)
  <2>1. p \in Nodes
    BY <1>2, <1>3 DEF IsDir, Places
  <2>2. CASE IsFile(flash[p])
    <3>1. p # "/"
      BY <2>1, Given
    <3>2. flash' = Removed(p) /\ Rises
      BY <1>3, <2>2, <3>1 DEF RemoveStep, Removed, Rises, Up
    <3> QED
      BY <1>1, <1>3, <2>1, <3>2
  <2>3. CASE ~IsFile(flash[p])
    BY <1>1, <1>3, <2>3 DEF RemoveStep
  <2> QED
    BY <2>2, <2>3
<1>4. CASE IsDir(p) /\ Len(job.stack) > MaxDepth
  BY <1>1, <1>4 DEF RemoveStep
<1>5. CASE IsDir(p) /\ ~(Len(job.stack) > MaxDepth) /\ Children(p) # {}
  BY <1>1, <1>5 DEF RemoveStep
<1>6. CASE IsDir(p) /\ ~(Len(job.stack) > MaxDepth) /\ Children(p) = {} /\ Removable(p)
  <2>1. p \in Nodes
    BY <1>2, <1>6 DEF Removable, Places
  <2>2. flash' = Removed(p) /\ Rises
    BY <1>6 DEF RemoveStep, Removed, Rises, Up
  <2> QED
    BY <1>1, <1>6, <2>1, <2>2
<1>7. CASE IsDir(p) /\ ~(Len(job.stack) > MaxDepth) /\ Children(p) = {} /\ ~Removable(p)
  BY <1>1, <1>7 DEF RemoveStep
<1> QED
  BY <1>3, <1>4, <1>5, <1>6, <1>7

LEMMA StackFits ==
  ASSUME ShellInv, job.kind = "remove", UNCHANGED saved, NEW s \in Seq(Places),
         Descends(s, saved.command[2]), job' = [job EXCEPT !.stack = s]
  PROVE  job' \in Jobs /\ JobFits' /\ job'.stack = s /\ job'.kind = "remove"
<1>1. job' \in RemoveJobs /\ job'.stack = s /\ job'.kind = "remove"
  BY RemoveIs DEF RemoveJobs
<1>2. saved'.command[1] = "rmr" /\ saved'.command[2] \in Places /\ Descends(s, saved'.command[2])
  BY RemoveIs
<1>3. JobFits'
  BY <1>1, <1>2 DEF JobFits, Descends, Below, Closed
<1> QED
  BY <1>1, <1>3 DEF Jobs

LEMMA RemoveStepKeeps ==
  ASSUME ShellInv, RemoveStep
  PROVE  ShellInv'
<1> DEFINE p == Last(job.stack)
           top == saved.command[2]
<1>1. job.kind = "remove" /\ UNCHANGED <<input, host, saved>>
  BY RemoveCases
<1>2. input' \in Seq(Tokens)
  BY <1>1 DEF ShellInv, Shape
<1>3. CASE p \in Nodes /\ (~IsDir(p) \/ Children(p) = {}) /\ flash' = Removed(p) /\ Rises
  <2>1. /\ DOMAIN flash' = Nodes /\ \A q \in Nodes : IsContent(flash'[q])
        /\ \A q \in Nodes \ {p} : flash'[q] = flash[q]
        /\ TreeIsWhole'
    BY <1>3, RemoveKeeps DEF ShellInv
  <2>2. p \in Targets(saved.command)
    BY <1>1, <1>3, RemoveIs, BelowSelf
  <2>3. OnlyTargetChanges'
    BY <1>1, <2>1, <2>2, TargetsKept
  <2>4. JobFits' /\ job' \in Jobs /\ replies' \in Seq(Answers)
    <3>1. CASE Up = <<>>
      BY <1>3, <3>1, DoneIs, SomeAnswers DEF Rises, ShellInv
    <3>2. CASE Up # <<>>
      <4>1. job' = [job EXCEPT !.stack = Up] /\ UNCHANGED replies
        BY <1>3, <3>2 DEF Rises
      <4>2. Up \in Seq(Places) /\ \A i \in 1 .. Len(Up) : i \in 1 .. Len(job.stack) /\ Up[i] = job.stack[i]
        BY <1>1, RemoveIs DEF Up
      <4>3. Descends(Up, top)
        BY <1>1, <3>2, <4>2, RemoveIs DEF Descends
      <4>4. replies' \in Seq(Answers)
        BY <4>1 DEF ShellInv, Shape
      <4> QED
        BY <1>1, <4>1, <4>2, <4>3, <4>4, StackFits
    <3> QED
      BY <3>1, <3>2
  <2>5. Shape'
    BY <1>1, <1>2, <2>1, <2>4, ShapeKept DEF ShellInv
  <2> QED
    BY <2>1, <2>3, <2>4, <2>5 DEF ShellInv
<1>4. CASE Done("error") /\ UNCHANGED flash
  <2>1. JobFits' /\ job' \in Jobs /\ replies' \in Seq(Answers)
    BY <1>4, DoneIs, SomeAnswers DEF ShellInv
  <2>2. TreeIsWhole' /\ DOMAIN flash' = Nodes /\ \A q \in Nodes : IsContent(flash'[q])
    BY <1>4, Unchanging DEF ShellInv
  <2>3. OnlyTargetChanges'
    BY <1>1, <1>4, TargetsKept
  <2>4. Shape'
    BY <1>1, <1>2, <2>1, <2>2, ShapeKept DEF ShellInv
  <2> QED
    BY <2>1, <2>2, <2>3, <2>4 DEF ShellInv
<1>5. CASE \E q \in Children(p) :
             job' = [job EXCEPT !.stack = Append(job.stack, q)] /\ UNCHANGED <<flash, replies>>
  <2>1. PICK q \in Children(p) :
          job' = [job EXCEPT !.stack = Append(job.stack, q)] /\ UNCHANGED <<flash, replies>>
    BY <1>5
  <2>2. q \in Nodes /\ Parent[q] = p
    BY DEF Children
  <2>3. q \in Below(top)
    BY <1>1, <2>2, RemoveIs, BelowEntries
  <2>4. Append(job.stack, q) \in Seq(Places)
    BY <1>1, <2>2, RemoveIs DEF Places
  <2>5. \A i \in 1 .. Len(Append(job.stack, q)) :
          Append(job.stack, q)[i] = q \/ (i \in 1 .. Len(job.stack) /\ Append(job.stack, q)[i] = job.stack[i])
    BY <1>1, RemoveIs
  <2>6. Append(job.stack, q) # <<>>
    BY <1>1, RemoveIs
  <2>7. Descends(Append(job.stack, q), top)
    BY <1>1, <2>3, <2>5, <2>6, RemoveIs DEF Descends
  <2>8. job' \in Jobs /\ JobFits'
    BY <1>1, <2>1, <2>4, <2>7, StackFits
  <2> QED
    BY <1>1, <1>2, <2>1, <2>8, GoesOnKeeps
<1> QED
  BY <1>3, <1>4, <1>5, RemoveCases

LEMMA PowerKeeps ==
  ASSUME ShellInv, PowerCut \/ Boot
  PROVE  ShellInv'
<1>1. job' \in {Prompt, Off} /\ UNCHANGED <<flash, saved>>
  BY DEF PowerCut, Boot
<1>2. JobFits' /\ job' \in Jobs
  BY <1>1, RestFits
<1>3. TreeIsWhole' /\ DOMAIN flash' = Nodes /\ \A p \in Nodes : IsContent(flash'[p])
  BY <1>1, Unchanging DEF ShellInv
<1>4. OnlyTargetChanges'
  BY <1>1, TargetsKept
<1>5. replies' \in Seq(Answers) /\ input' \in Seq(Tokens)
  <2>1. CASE PowerCut
    BY <2>1 DEF PowerCut
  <2>2. CASE Boot
    <3>1. replies' = <<"prompt">> /\ input' = input
      BY <2>2 DEF Boot
    <3>2. input' \in Seq(Tokens)
      BY <3>1 DEF ShellInv, Shape
    <3>3. <<"prompt">> \in Seq(Answers)
      BY SomeAnswers, OneIsSeq
    <3> QED
      BY <3>1, <3>2, <3>3
  <2> QED
    BY <2>1, <2>2
<1>6. host' \in Hosts /\ host'.sent <= Len(host'.payload)
  <2>1. host' = IdleHost \/ host' = host
    BY DEF PowerCut, Boot
  <2>2. IdleHost \in Hosts /\ IdleHost.sent <= Len(IdleHost.payload)
    BY DEF IdleHost, Hosts, Places
  <2> QED
    BY <2>1, <2>2 DEF ShellInv, Shape, Hosts
<1>7. Shape'
  BY <1>2, <1>3, <1>5, <1>6 DEF Shape, Hosts, Jobs
<1> QED
  BY <1>2, <1>3, <1>4, <1>7 DEF ShellInv

LEMMA StutterKeeps ==
  ASSUME ShellInv, UNCHANGED vars
  PROVE  ShellInv'
<1>1. host \in Hosts /\ host.sent <= Len(host.payload) /\ input \in Seq(Tokens) /\ replies \in Seq(Answers)
  BY DEF ShellInv, Shape, Hosts
<1> QED
  BY <1>1, HostKeeps DEF vars

LEMMA ShellStep ==
  ASSUME ShellInv, [Next]_vars
  PROVE  ShellInv'
<1>1. ASSUME NEW c \in Commands, Type(c) PROVE ShellInv'
  BY <1>1, TypeKeeps
<1>2. ASSUME NEW p \in Nodes, NEW s \in Payloads, StartUpload(p, s) PROVE ShellInv'
  BY <1>2, StartUploadKeeps
<1>3. CASE HostSeesReady \/ HostSends \/ HostConcludes \/ HostGoesOn
  BY <1>3, HostStepKeeps
<1>4. CASE ReadLine
  BY <1>4, ReadLineKeeps
<1>5. CASE ReadByte
  BY <1>5, ReadByteKeeps
<1>6. CASE UploadReads
  BY <1>6, UploadReadsKeeps
<1>7. CASE UploadTimesOut \/ UploadCloses
  BY <1>7, UploadEndsKeeps
<1>8. CASE CopyStep
  BY <1>8, CopyStepKeeps
<1>9. CASE RemoveStep
  BY <1>9, RemoveStepKeeps
<1>10. CASE PowerCut \/ Boot
  BY <1>10, PowerKeeps
<1>11. CASE UNCHANGED vars
  BY <1>11, StutterKeeps
<1> QED
  BY <1>1, <1>2, <1>3, <1>4, <1>5, <1>6, <1>7, <1>8, <1>9, <1>10, <1>11 DEF Next

LEMMA ShellInvariant == Spec => []ShellInv
<1>1. Init => ShellInv
  BY ShellInit
<1>2. ShellInv /\ [Next]_vars => ShellInv'
  BY ShellStep
<1> QED
  BY <1>1, <1>2, PTL DEF Spec

\* Whatever the commands, the uploads and the power cuts, a command of the
\* shell changes nothing but the files it is about, and the tree stays whole.
THEOREM CommandsKeepOthers == Spec => []OthersIntact
<1>1. ShellInv => OthersIntact
  <2> SUFFICES ASSUME ShellInv PROVE OthersIntact
    OBVIOUS
  <2>1. job.kind \in {"off", "prompt", "upload", "copy", "remove"}
    BY Kinds DEF ShellInv, Shape, UploadJobs, CopyJobs, RemoveJobs
  <2>2. job.kind = "upload" => Len(job.data) <= job.size /\ CanCreate(job.path)
    BY UploadIs
  <2>3. TypeOK
    BY <2>1, <2>2 DEF TypeOK, ShellInv, Shape
  <2> QED
    BY <2>3 DEF OthersIntact, ShellInv
<1> QED
  BY <1>1, ShellInvariant, PTL

-----------------------------------------------------------------------------
(***************************************************************************)
(* What an answer means.  A command other than upload is typed only when   *)
(* the console is empty, so an answer of success that the host reads is    *)
(* that of the last command; a copy has moved a part of what its source    *)
(* held, and the flash is still what it was; a removal began at the place  *)
(* that was named.                                                         *)
(***************************************************************************)
Succeeded == "" \in ToSet(replies)

NoCommandWaits ==
  \A i \in 1 .. Len(input) : \A c \in Commands : input[i] # LineToken(c)

CommandsWaitAlone ==
  \A i \in 1 .. Len(input) : \A c \in Commands :
    input[i] = LineToken(c) => i = 1 /\ ~Succeeded /\ job.kind \notin {"copy", "remove"}

CopyIsPartial ==
  job.kind = "copy" =>
    /\ ~Succeeded /\ flash = saved.flash /\ saved.command[2] \in Nodes
    /\ flash[saved.command[2]] = File(job.from)
    /\ Len(job.data) <= Len(job.from)
    /\ \A i \in 1 .. Len(job.data) : job.data[i] = job.from[i]

RemovalHasTop ==
  job.kind = "remove" => ~Succeeded /\ job.stack[1] = saved.command[2]

Truth == CommandsWaitAlone /\ CopyIsPartial /\ RemovalHasTop /\ AnsweredMeansDone

AnswerInv == ShellInv /\ Truth

LEMMA SaidMore ==
  ASSUME NEW s \in Seq(Answers), NEW x, NEW y
  PROVE  /\ ToSet(s \o <<x, y>>) = ToSet(s) \cup {x, y}
         /\ ToSet(Append(s, x)) = ToSet(s) \cup {x}
         /\ ToSet(<<>>) = {} /\ ToSet(<<x>>) = {x}
<1>1. /\ Len(s \o <<x, y>>) = Len(s) + 2 /\ Len(s) \in Nat /\ DOMAIN s = 1 .. Len(s)
      /\ DOMAIN (s \o <<x, y>>) = 1 .. (Len(s) + 2)
      /\ \A i \in 1 .. Len(s) : (s \o <<x, y>>)[i] = s[i]
      /\ (s \o <<x, y>>)[Len(s) + 1] = x /\ (s \o <<x, y>>)[Len(s) + 2] = y
  OBVIOUS
<1>2. 1 .. (Len(s) + 2) = (1 .. Len(s)) \cup {Len(s) + 1, Len(s) + 2}
  BY <1>1
<1>3. ToSet(s \o <<x, y>>) = ToSet(s) \cup {x, y}
  BY <1>1, <1>2 DEF ToSet
<1>4. ToSet(Append(s, x)) = ToSet(s) \cup {x}
  BY DEF ToSet
<1>5. ToSet(<<>>) = {} /\ ToSet(<<x>>) = {x}
  BY DEF ToSet
<1> QED
  BY <1>3, <1>4, <1>5

\* Success is reported by an answer of success only.
LEMMA SaysSuccess ==
  ASSUME Shape
  PROVE  /\ Done("") => Succeeded'
         /\ Done("error") => (Succeeded' <=> Succeeded)
         /\ Done("OK") => (Succeeded' <=> Succeeded)
         /\ replies' = Append(replies, "READY") => (Succeeded' <=> Succeeded)
         /\ UNCHANGED replies => (Succeeded' <=> Succeeded)
         /\ replies' = <<>> => ~Succeeded'
         /\ replies' = <<"prompt">> => ~Succeeded'
<1>1. replies \in Seq(Answers)
  BY DEF Shape
<1>2. \A x \in Answers, y \in Answers :
        /\ ToSet(replies \o <<x, y>>) = ToSet(replies) \cup {x, y}
        /\ ToSet(Append(replies, x)) = ToSet(replies) \cup {x}
        /\ ToSet(<<>>) = {} /\ ToSet(<<x>>) = {x}
  BY <1>1, SaidMore
<1>3. \A text \in Answers : Done(text) => ToSet(replies') = ToSet(replies) \cup {text, "prompt"}
  BY <1>2, SomeAnswers DEF Done, Say
<1>4. Done("") => Succeeded'
  BY <1>3, SomeAnswers DEF Succeeded
<1>5. (Done("error") => (Succeeded' <=> Succeeded)) /\ (Done("OK") => (Succeeded' <=> Succeeded))
  <2>1. Done("error") => ToSet(replies') = ToSet(replies) \cup {"error", "prompt"}
    BY <1>3, SomeAnswers
  <2>2. Done("OK") => ToSet(replies') = ToSet(replies) \cup {"OK", "prompt"}
    BY <1>3, SomeAnswers
  <2> QED
    BY <2>1, <2>2 DEF Succeeded
<1>6. replies' = Append(replies, "READY") => (Succeeded' <=> Succeeded)
  BY <1>2, SomeAnswers DEF Succeeded
<1>7. UNCHANGED replies => (Succeeded' <=> Succeeded)
  BY DEF Succeeded
<1>8. (replies' = <<>> => ~Succeeded') /\ (replies' = <<"prompt">> => ~Succeeded')
  BY <1>2, SomeAnswers DEF Succeeded
<1> QED
  BY <1>4, <1>5, <1>6, <1>7, <1>8

LEMMA CommandsAreNot ==
  ASSUME NEW c \in Commands
  PROVE  c[1] # "upload" /\ \A d \in Uploads : LineToken(c) # LineToken(d)
         /\ \A b : LineToken(c) # ByteToken(b)
<1>1. c[1] # "upload"
  BY Given DEF IsCommand
<1>2. \A d \in Uploads : LineToken(c) # LineToken(d)
  BY <1>1 DEF Uploads, LineToken
<1>3. \A b : LineToken(c) # ByteToken(b)
  BY DEF LineToken, ByteToken
<1> QED
  BY <1>1, <1>2, <1>3

LEMMA TailWaits ==
  ASSUME Shape, CommandsWaitAlone, input # <<>>, input' = Tail(input)
  PROVE  NoCommandWaits'
<1>1. \A i \in 1 .. Len(input') : i + 1 \in 1 .. Len(input) /\ i + 1 # 1 /\ input'[i] = input[i + 1]
  BY InputIs
<1> QED
  BY <1>1 DEF NoCommandWaits, CommandsWaitAlone

LEMMA NoneWaits ==
  ASSUME NoCommandWaits'
  PROVE  CommandsWaitAlone'
BY DEF NoCommandWaits, CommandsWaitAlone

\* More bytes come, or an upload is typed behind what waits.
LEMMA MoreWaits ==
  ASSUME Shape, CommandsWaitAlone, NEW x, input' = Append(input, x), \A c \in Commands : x # LineToken(c),
         UNCHANGED job, Succeeded' => Succeeded
  PROVE  CommandsWaitAlone'
<1>1. /\ input \in Seq(Tokens) /\ Len(input') = Len(input) + 1 /\ Len(input) \in Nat
      /\ \A i \in 1 .. Len(input) : input'[i] = input[i]
      /\ input'[Len(input) + 1] = x
  BY DEF Shape
<1>2. \A i \in 1 .. Len(input') : i \in 1 .. Len(input) \/ i = Len(input) + 1
  BY <1>1
<1> QED
  BY <1>1, <1>2 DEF CommandsWaitAlone

\* The host's steps say nothing of success.
LEMMA QuietAnswers ==
  ASSUME AnswerInv, UNCHANGED <<flash, job, saved>>, Succeeded' => Succeeded
  PROVE  CopyIsPartial' /\ RemovalHasTop' /\ AnsweredMeansDone'
<1>1. CopyIsPartial' /\ RemovalHasTop'
  BY DEF AnswerInv, Truth, CopyIsPartial, RemovalHasTop
<1>2. AnsweredMeansDone'
  BY DEF AnswerInv, Truth, AnsweredMeansDone, Answered, Succeeded, Below, Closed
<1> QED
  BY <1>1, <1>2

LEMMA AnswerInit ==
  ASSUME Init
  PROVE  AnswerInv
<1>1. job.kind = "off" /\ Len(input) = 0
  BY Kinds DEF Init
<1>2. Truth
  BY <1>1 DEF Truth, CommandsWaitAlone, CopyIsPartial, RemovalHasTop, AnsweredMeansDone, Answered
<1> QED
  BY <1>2, ShellInit DEF AnswerInv

LEMMA HostAnswers ==
  ASSUME AnswerInv,
         \/ \E c \in Commands : Type(c)
         \/ \E p \in Nodes, s \in Payloads : StartUpload(p, s)
         \/ HostSeesReady \/ HostSends \/ HostConcludes \/ HostGoesOn
         \/ UNCHANGED vars
  PROVE  Truth'
<1>1. UNCHANGED <<flash, job, saved>> /\ (replies' = <<>> \/ replies' = replies)
  BY DEF Type, StartUpload, HostSeesReady, HostSends, HostConcludes, HostGoesOn, vars
<1>2. Succeeded' => Succeeded
  BY <1>1, SaysSuccess DEF AnswerInv, ShellInv
<1>3. CopyIsPartial' /\ RemovalHasTop' /\ AnsweredMeansDone'
  BY <1>1, <1>2, QuietAnswers
<1>4. CommandsWaitAlone'
  <2>1. CASE \E c \in Commands : Type(c)
    <3>1. Len(input') = 1 /\ replies' = <<>> /\ job.kind = "prompt"
      BY <2>1 DEF Type
    <3>2. ~Succeeded'
      BY <3>1, SaysSuccess DEF AnswerInv, ShellInv
    <3> QED
      BY <1>1, <3>1, <3>2 DEF CommandsWaitAlone
  <2>2. CASE \E p \in Nodes, s \in Payloads : StartUpload(p, s)
    <3>1. PICK p \in Nodes, s \in Payloads : StartUpload(p, s)
      BY <2>2
    <3>2. <<"upload", p, Len(s)>> \in Uploads
      BY DEF Uploads
    <3>3. PICK d \in Uploads : input' = Append(input, LineToken(d))
      BY <3>1, <3>2 DEF StartUpload
    <3> QED
      BY <1>1, <1>2, <3>3, CommandsAreNot, MoreWaits DEF AnswerInv, Truth, ShellInv
  <2>3. CASE HostSends
    <3> DEFINE x == ByteToken(host.payload[host.sent + 1])
    <3>1. input' = Append(input, x)
      BY <2>3 DEF HostSends
    <3>2. \A c \in Commands : x # LineToken(c)
      BY DEF LineToken, ByteToken
    <3> HIDE DEF x
    <3> QED
      BY <1>1, <1>2, <3>1, <3>2, MoreWaits DEF AnswerInv, Truth, ShellInv
  <2>4. CASE HostSeesReady \/ HostConcludes \/ HostGoesOn \/ UNCHANGED vars
    <3>1. UNCHANGED input
      BY <2>4 DEF HostSeesReady, HostConcludes, HostGoesOn, vars
    <3> QED
      BY <1>1, <1>2, <3>1 DEF CommandsWaitAlone, AnswerInv, Truth
  <2> QED
    BY <2>1, <2>2, <2>3, <2>4
<1> QED
  BY <1>3, <1>4 DEF Truth

\* A command whose success nothing is said of.
LEMMA UnsaidDone ==
  ASSUME ~Succeeded' \/ job'.kind # "prompt" \/ saved'.command[1] \notin {"cp", "rmr", "echo", "mv"}
  PROVE  AnsweredMeansDone'
BY DEF AnsweredMeansDone, Answered, Succeeded

\* The shell is at the prompt or off: no copy and no removal is under way.
LEMMA RestTruth ==
  ASSUME job' \in {Prompt, Off}, NoCommandWaits' \/ CommandsWaitAlone', AnsweredMeansDone'
  PROVE  Truth'
<1>1. CopyIsPartial' /\ RemovalHasTop'
  BY Kinds DEF CopyIsPartial, RemovalHasTop
<1> QED
  BY <1>1, NoneWaits DEF Truth

\* A byte is read at the prompt.
LEMMA ReadByteAnswers ==
  ASSUME AnswerInv, ReadByte
  PROVE  Truth'
<1>1. NoCommandWaits'
  BY TailWaits DEF ReadByte, AnswerInv, Truth, ShellInv
<1>2. UNCHANGED <<flash, job, saved>>
  BY DEF ReadByte
<1>3. Succeeded' => Succeeded
  <2>1. Head(input)[2] # "nl" => UNCHANGED replies
    BY DEF ReadByte
  <2> QED
    BY <2>1, EndOfLine DEF Succeeded, AnswerInv, ShellInv
<1> QED
  BY <1>1, <1>2, <1>3, QuietAnswers, NoneWaits DEF Truth

\* An upload goes on or ends: it is no command whose success is said.
LEMMA UploadAnswers ==
  ASSUME AnswerInv, UploadReads \/ UploadTimesOut \/ UploadCloses
  PROVE  Truth'
<1>1. job.kind = "upload" /\ UNCHANGED saved /\ saved.command[1] = "upload"
  BY UploadIs DEF UploadReads, UploadTimesOut, UploadCloses, AnswerInv
<1>2. AnsweredMeansDone'
  BY <1>1, UnsaidDone
<1>3. CASE UploadReads
  <2>1. NoCommandWaits'
    BY <1>3, TailWaits DEF UploadReads, AnswerInv, Truth, ShellInv
  <2>2. job'.kind = "upload" \/ job' = Prompt
    BY <1>1, <1>3, UploadIs DEF UploadReads, UploadJobs, Done, AnswerInv
  <2> QED
    BY <1>2, <2>1, <2>2, NoneWaits, Kinds DEF Truth, CopyIsPartial, RemovalHasTop
<1>4. CASE UploadTimesOut \/ UploadCloses
  <2>1. (Done("error") \/ Done("OK")) /\ UNCHANGED input
    BY <1>4 DEF UploadTimesOut, UploadCloses
  <2>2. (Succeeded' <=> Succeeded) /\ job' = Prompt
    BY <2>1, SaysSuccess DEF AnswerInv, ShellInv, Done
  <2>3. CommandsWaitAlone'
    BY <2>1, <2>2, Kinds DEF AnswerInv, Truth, CommandsWaitAlone
  <2> QED
    BY <1>2, <2>2, <2>3, RestTruth
<1> QED
  BY <1>3, <1>4

LEMMA PowerAnswers ==
  ASSUME AnswerInv, PowerCut \/ Boot
  PROVE  Truth'
<1>1. ~Succeeded' /\ job' \in {Prompt, Off}
  BY SaysSuccess DEF PowerCut, Boot, AnswerInv, ShellInv
<1>2. CommandsWaitAlone'
  BY <1>1, Kinds DEF PowerCut, Boot, CommandsWaitAlone, AnswerInv, Truth
<1> QED
  BY <1>1, <1>2, UnsaidDone, RestTruth

LEMMA BusyWaits ==
  ASSUME AnswerInv, job.kind \in {"copy", "remove"}, UNCHANGED input
  PROVE  NoCommandWaits' /\ ~Succeeded
BY DEF AnswerInv, Truth, CommandsWaitAlone, NoCommandWaits, CopyIsPartial, RemovalHasTop

LEMMA PartLength ==
  ASSUME NEW S, NEW s \in Seq(S), NEW m \in 1 .. Len(s) + 1, NEW n \in 0 .. Len(s), m <= n + 1
  PROVE  /\ Len(SubSeq(s, m, n)) = n - m + 1 /\ Len(s) \in Nat
         /\ SubSeq(s, m, n) = <<>> => n - m + 1 = 0
<1>1. Len(SubSeq(s, m, n)) = n - m + 1 /\ Len(s) \in Nat
  OBVIOUS
<1>2. SubSeq(s, m, n) = <<>> => Len(SubSeq(s, m, n)) = 0
  OBVIOUS
<1> QED
  BY <1>1, <1>2

\* A turn of a copy.
LEMMA CopyGoesOn ==
  ASSUME NEW from \in Seq(Bytes), NEW data \in Seq(Bytes), Len(data) <= Len(from),
         \A i \in 1 .. Len(data) : data[i] = from[i], NEW n \in Nat, n <= Len(from) - Len(data)
  PROVE  LET more == data \o SubSeq(SubSeq(from, Len(data) + 1, Len(from)), 1, n)
         IN /\ Len(more) <= Len(from) /\ \A i \in 1 .. Len(more) : more[i] = from[i]
<1> DEFINE rest == SubSeq(from, Len(data) + 1, Len(from))
           some == SubSeq(rest, 1, n)
<1>1. Len(data) \in Nat /\ Len(from) \in Nat
  OBVIOUS
<1>2. /\ rest \in Seq(Bytes) /\ Len(rest) = Len(from) - Len(data)
      /\ \A j \in 1 .. Len(rest) : rest[j] = from[Len(data) + j]
  BY <1>1
<1> HIDE DEF rest
<1>3. some \in Seq(Bytes) /\ Len(some) = n /\ \A j \in 1 .. n : some[j] = rest[j]
  BY <1>1, <1>2
<1> HIDE DEF some
<1>4. /\ Len(data \o some) = Len(data) + n
      /\ \A i \in 1 .. Len(data) : (data \o some)[i] = data[i]
      /\ \A i \in Len(data) + 1 .. Len(data) + n : (data \o some)[i] = some[i - Len(data)]
  BY <1>1, <1>3
<1>5. ASSUME NEW i \in 1 .. Len(data) + n
      PROVE  (data \o some)[i] = from[i]
  <2>1. CASE i <= Len(data)
    BY <1>1, <1>4, <2>1
  <2>2. CASE ~(i <= Len(data))
    <3>1. i \in Len(data) + 1 .. Len(data) + n /\ i - Len(data) \in 1 .. n /\ Len(data) + (i - Len(data)) = i
      BY <1>1, <2>2
    <3>2. i - Len(data) \in 1 .. Len(rest)
      BY <1>1, <1>2, <3>1
    <3> QED
      BY <1>2, <1>3, <1>4, <3>1, <3>2
  <2> QED
    BY <2>1, <2>2
<1>6. Len(data \o some) <= Len(from)
  BY <1>1, <1>4
<1> QED
  BY <1>4, <1>5, <1>6 DEF some, rest

LEMMA CopyAnswers ==
  ASSUME AnswerInv, CopyStep
  PROVE  Truth'
<1> DEFINE rest == SubSeq(job.from, Len(job.data) + 1, Len(job.from))
           n == IF Chunk < Len(rest) THEN Chunk ELSE Len(rest)
           some == SubSeq(rest, 1, n)
           c == saved.command
<1>1. job.kind = "copy" /\ UNCHANGED <<input, saved>>
  BY DEF CopyStep
<1>2. NoCommandWaits' /\ ~Succeeded
  BY <1>1, BusyWaits
<1>3. /\ flash = saved.flash /\ c[2] \in Nodes /\ flash[c[2]] = File(job.from)
      /\ Len(job.data) <= Len(job.from) /\ \A i \in 1 .. Len(job.data) : job.data[i] = job.from[i]
  BY <1>1 DEF AnswerInv, Truth, CopyIsPartial
<1>4. /\ job.path \in Nodes /\ job.data \in Seq(Bytes) /\ job.from \in Seq(Bytes) /\ CanCreate(job.path)
      /\ Len(job.data) <= Capacity /\ c[1] = "cp" /\ job.path = c[3] /\ job \in CopyJobs
  BY <1>1, CopyIs DEF AnswerInv
<1>0. /\ Len(rest) = Len(job.from) - Len(job.data) /\ Len(rest) \in Nat
      /\ rest = <<>> => Len(job.from) = Len(job.data)
  <2>1. /\ Len(job.data) \in Nat /\ Len(job.from) \in Nat
        /\ Len(job.data) + 1 \in 1 .. Len(job.from) + 1 /\ Len(job.from) \in 0 .. Len(job.from)
        /\ Len(job.data) + 1 <= Len(job.from) + 1
    BY <1>3, <1>4
  <2>2. /\ Len(rest) = Len(job.from) - (Len(job.data) + 1) + 1
        /\ rest = <<>> => Len(job.from) - (Len(job.data) + 1) + 1 = 0
    BY <1>4, <2>1, PartLength
  <2> HIDE DEF rest
  <2> QED
    BY <1>3, <2>1, <2>2
<1>5. CASE rest = <<>>
  <2>1. flash' = Commit(job.path, job.data) /\ Done("")
    BY <1>5 DEF CopyStep
  <2>2. Len(job.from) = Len(job.data)
    BY <1>0, <1>5
  <2>3. job.data = job.from
    BY <1>3, <1>4, <2>2
  <2>4. flash'[c[3]] = File(job.from) /\ \A q \in Nodes \ {c[3]} : flash'[q] = flash[q]
    BY <1>4, <2>1, <2>3, CommitKeeps DEF AnswerInv, ShellInv
  <2>5. AnsweredMeansDone'
    BY <1>1, <1>3, <1>4, <2>4 DEF AnsweredMeansDone
  <2> QED
    BY <1>2, <2>1, <2>5, RestTruth DEF Done
<1>6. CASE rest # <<>> /\ HasRoom(job.path, job.data \o some)
  <2>1. job' = [job EXCEPT !.data = job.data \o some] /\ UNCHANGED <<flash, replies>>
    BY <1>6 DEF CopyStep
  <2>2. n \in Nat /\ n <= Len(job.from) - Len(job.data)
    <3>1. Chunk \in Nat /\ Len(rest) \in Nat /\ Len(rest) = Len(job.from) - Len(job.data)
      BY <1>0, Given
    <3>2. \A k \in Nat : /\ (IF Chunk < k THEN Chunk ELSE k) \in Nat
                         /\ (IF Chunk < k THEN Chunk ELSE k) <= k
      BY <3>1
    <3> HIDE DEF rest
    <3> QED
      BY <3>1, <3>2
  <2>3. Len(job.data \o some) <= Len(job.from) /\ \A i \in 1 .. Len(job.data \o some) : (job.data \o some)[i] = job.from[i]
    <3> HIDE DEF n
    <3> QED
      BY <1>3, <1>4, <2>2, CopyGoesOn
  <2> HIDE DEF some, rest, n
  <2>4. job'.kind = "copy" /\ job'.from = job.from /\ job'.data = job.data \o some
    BY <1>1, <1>4, <2>1 DEF CopyJobs
  <2>5. ~Succeeded'
    BY <1>2, <2>1 DEF Succeeded
  <2>6. CopyIsPartial'
    BY <1>1, <1>3, <2>1, <2>3, <2>4, <2>5 DEF CopyIsPartial
  <2>7. RemovalHasTop'
    BY <2>4 DEF RemovalHasTop
  <2>8. AnsweredMeansDone'
    BY <2>5, UnsaidDone
  <2> QED
    BY <1>2, <2>6, <2>7, <2>8, NoneWaits DEF Truth
<1>7. CASE rest # <<>> /\ ~HasRoom(job.path, job.data \o some)
  <2>1. Done("error")
    BY <1>7 DEF CopyStep
  <2>2. ~Succeeded' /\ job' = Prompt
    BY <1>2, <2>1, SaysSuccess DEF AnswerInv, ShellInv, Done
  <2> QED
    BY <1>2, <2>2, UnsaidDone, RestTruth
<1> QED
  BY <1>5, <1>6, <1>7

LEMMA RemoveAnswers ==
  ASSUME AnswerInv, RemoveStep
  PROVE  Truth'
<1> DEFINE p == Last(job.stack)
           c == saved.command
<1>1. job.kind = "remove" /\ UNCHANGED <<input, saved>>
  BY RemoveCases DEF AnswerInv
<1>2. NoCommandWaits' /\ ~Succeeded
  BY <1>1, BusyWaits
<1>3. /\ job \in RemoveJobs /\ job.stack \in Seq(Places) /\ Len(job.stack) \in Nat \ {0} /\ c[1] = "rmr"
      /\ p = job.stack[Len(job.stack)] /\ job.stack[1] = c[2]
  BY <1>1, RemoveIs DEF AnswerInv, Truth, RemovalHasTop
\* The stack that a removal goes on with begins where it began.
<1>4. ASSUME NEW s \in Seq(Places), s # <<>>, s[1] = job.stack[1],
             job' = [job EXCEPT !.stack = s], UNCHANGED replies
      PROVE  Truth'
  <2>1. job'.kind = "remove" /\ job'.stack = s
    BY <1>1, <1>3, <1>4 DEF RemoveJobs
  <2>2. ~Succeeded'
    BY <1>2, <1>4 DEF Succeeded
  <2>3. RemovalHasTop' /\ CopyIsPartial'
    BY <1>1, <1>3, <1>4, <2>1, <2>2 DEF RemovalHasTop, CopyIsPartial
  <2>4. AnsweredMeansDone'
    BY <2>2, UnsaidDone
  <2> QED
    BY <1>2, <2>3, <2>4, NoneWaits DEF Truth
<1>5. CASE p \in Nodes /\ (~IsDir(p) \/ Children(p) = {}) /\ flash' = Removed(p) /\ Rises
  <2>1. CASE Up = <<>>
    <3>1. Done("")
      BY <1>5, <2>1 DEF Rises
    <3>2. p = c[2]
      <4>1. Len(job.stack) = 1
        <5>1. /\ 1 \in 1 .. Len(job.stack) + 1 /\ Len(job.stack) - 1 \in 0 .. Len(job.stack)
              /\ 1 <= Len(job.stack) - 1 + 1
          BY <1>3
        <5>2. Len(job.stack) - 1 - 1 + 1 = 0
          BY <1>3, <2>1, <5>1, PartLength DEF Up
        <5> QED
          BY <1>3, <5>2
      <4> QED
        BY <1>3, <4>1
    <3>3. flash'[p] = Absent
      BY <1>5, RemoveKeeps DEF AnswerInv, ShellInv
    <3>4. TreeIsWhole'
      BY <1>5, RemoveKeeps DEF AnswerInv, ShellInv
    <3>5. \A q \in Nodes : flash'[q] # Absent => Parent[q] = "/" \/ flash'[Parent[q]] = Dir
      BY <3>4 DEF TreeIsWhole, IsDir
    <3>6. \A q \in Below(c[2]) : flash'[q] = Absent
      BY <1>5, <3>2, <3>3, <3>5, NothingBelow
    <3>7. AnsweredMeansDone'
      <4>1. saved' = saved
        BY <1>1
      <4> QED
        BY <4>1, <1>3, <3>6 DEF AnsweredMeansDone, Below, Closed
    <3> QED
      BY <1>2, <3>1, <3>7, RestTruth DEF Done
  <2>2. CASE Up # <<>>
    <3>1. job' = [job EXCEPT !.stack = Up] /\ UNCHANGED replies
      BY <1>5, <2>2 DEF Rises
    <3>2. Up \in Seq(Places) /\ Up[1] = job.stack[1]
      BY <1>3, <2>2 DEF Up
    <3> QED
      BY <1>4, <2>2, <3>1, <3>2
  <2> QED
    BY <2>1, <2>2
<1>6. CASE Done("error") /\ UNCHANGED flash
  <2>1. ~Succeeded' /\ job' = Prompt
    BY <1>2, <1>6, SaysSuccess DEF AnswerInv, ShellInv, Done
  <2> QED
    BY <1>2, <2>1, UnsaidDone, RestTruth
<1>7. CASE \E q \in Children(p) :
             job' = [job EXCEPT !.stack = Append(job.stack, q)] /\ UNCHANGED <<flash, replies>>
  <2>1. PICK q \in Nodes :
          job' = [job EXCEPT !.stack = Append(job.stack, q)] /\ UNCHANGED replies
    BY <1>7 DEF Children
  <2>2. Append(job.stack, q) \in Seq(Places)
    BY <1>3 DEF Places
  <2>3. Append(job.stack, q) # <<>> /\ Append(job.stack, q)[1] = job.stack[1]
    BY <1>3
  <2> QED
    BY <1>4, <2>1, <2>2, <2>3
<1> QED
  BY <1>5, <1>6, <1>7, RemoveCases DEF AnswerInv

\* A command that ends where it was typed.
LEMMA RefusedSilently ==
  ASSUME Shape, ~Succeeded, Done("error")
  PROVE  AnsweredMeansDone' /\ job' = Prompt
BY SaysSuccess, UnsaidDone DEF Done

LEMMA ExecuteAnswers ==
  ASSUME ShellInv, ~Succeeded, NEW c \in Commands, Execute(c), saved' = [flash |-> flash, command |-> c],
         NoCommandWaits'
  PROVE  Truth'
<1>1. IsCommand(c) /\ saved'.command = c /\ saved'.flash = flash /\ Shape /\ TreeIsWhole
  BY Given DEF ShellInv
<1>2. CASE Done("error")
  BY <1>1, <1>2, RefusedSilently, RestTruth
<1>3. CASE c[1] = "echo" /\ ~Done("error")
  <2>1. CanCreate(c[2]) /\ HasRoom(c[2], c[3]) /\ flash' = Commit(c[2], c[3]) /\ Done("")
    BY <1>3 DEF Execute, echo_command
  <2>2. c[2] \in Nodes /\ c[3] \in Seq(Bytes)
    BY <1>1, <1>3, <2>1 DEF IsCommand, CanCreate, Places
  <2>3. Len(c[3]) <= Capacity
    BY <1>1, <2>1, <2>2, RoomBounds
  <2>4. flash'[c[2]] = File(c[3])
    BY <1>1, <2>1, <2>2, <2>3, CommitKeeps
  <2>5. AnsweredMeansDone'
    BY <1>1, <1>3, <2>4 DEF AnsweredMeansDone
  <2> QED
    BY <2>1, <2>5, RestTruth DEF Done
<1>4. CASE c[1] = "cp" /\ ~Done("error")
  <2>1. /\ c[2] # "/" /\ IsFile(flash[c[2]]) /\ UNCHANGED <<flash, replies>>
        /\ job' = [kind |-> "copy", from |-> Data(flash[c[2]]), path |-> c[3], data |-> <<>>]
    BY <1>4 DEF Execute, cp_command
  <2>2. c[2] \in Nodes
    BY <1>1, <1>4, <2>1 DEF IsCommand, Places
  <2>3. flash[c[2]] = File(Data(flash[c[2]])) /\ Data(flash[c[2]]) \in Seq(Bytes)
    <3>1. IsContent(flash[c[2]]) /\ flash[c[2]] \notin {Absent, Dir}
      BY <1>1, <2>1, <2>2 DEF Shape, IsFile, Absent, Dir
    <3> QED
      BY <3>1 DEF IsContent
  <2>4. ~Succeeded'
    BY <2>1 DEF Succeeded
  <2>5. job'.kind = "copy" /\ job'.from = Data(flash[c[2]]) /\ job'.data = <<>> /\ Len(job'.data) = 0
    BY <2>1
  <2>6. Len(job'.from) \in Nat
    BY <2>3, <2>5
  <2>7. CopyIsPartial'
    BY <1>1, <2>1, <2>2, <2>3, <2>4, <2>5, <2>6 DEF CopyIsPartial
  <2>8. RemovalHasTop' /\ AnsweredMeansDone'
    BY <2>4, <2>5, UnsaidDone DEF RemovalHasTop
  <2> QED
    BY <2>7, <2>8, NoneWaits DEF Truth
<1>5. CASE c[1] = "mv" /\ ~Done("error")
  <2> DEFINE p == c[2]
             q == c[3]
  <2>1. /\ p # "/" /\ q # "/" /\ IsDir(Parent[q]) /\ Children(p) = {}
        /\ flash[q] = Absent \/ (IsFile(flash[p]) /\ IsFile(flash[q])) \/ (IsDir(p) /\ IsDir(q))
        /\ flash' = IF p = q THEN flash ELSE Renamed(p, q)
        /\ Done("")
    BY <1>5 DEF Execute, mv_command, Renamed
  <2>2. p \in Nodes /\ q \in Nodes /\ Parent[q] # p
    BY <1>1, <1>5, <2>1 DEF IsCommand, Places
  <2> HIDE DEF p, q
  <2>3. flash'[q] = flash[p]
    <3>1. CASE p = q
      BY <2>1, <3>1
    <3>2. CASE p # q
      <4>1. flash' = Renamed(p, q)
        BY <2>1, <3>2
      <4> QED
        BY <1>1, <2>1, <2>2, <3>2, <4>1, RenameKeeps
    <3> QED
      BY <3>1, <3>2
  <2>4. AnsweredMeansDone'
    BY <1>1, <1>5, <2>3 DEF AnsweredMeansDone, p, q
  <2> QED
    BY <2>1, <2>4, RestTruth DEF Done
<1>6. CASE c[1] \in {"mkdir", "rm"} /\ ~Done("error")
  <2>1. Done("")
    BY <1>6 DEF Execute, mkdir_command, rm_command
  <2> QED
    BY <1>1, <1>6, <2>1, UnsaidDone, RestTruth DEF Done
<1>7. CASE c[1] = "rmr" /\ ~Done("error")
  <2>1. job' = [kind |-> "remove", stack |-> <<c[2]>>, top |-> c[2]] /\ UNCHANGED replies
    BY <1>7 DEF Execute, rmr_command
  <2>2. ~Succeeded' /\ job'.kind = "remove" /\ job'.stack[1] = c[2]
    BY <2>1 DEF Succeeded
  <2>3. CopyIsPartial' /\ RemovalHasTop' /\ AnsweredMeansDone'
    BY <1>1, <2>2, UnsaidDone DEF CopyIsPartial, RemovalHasTop
  <2> QED
    BY <2>3, NoneWaits DEF Truth
<1> QED
  BY <1>1, <1>2, <1>3, <1>4, <1>5, <1>6, <1>7 DEF IsCommand

LEMMA ReadLineAnswers ==
  ASSUME AnswerInv, ReadLine
  PROVE  Truth'
<1> DEFINE c == Head(input)[2]
<1>1. /\ job.kind = "prompt" /\ input # <<>> /\ Head(input)[1] = "line" /\ input' = Tail(input)
      /\ saved' = [flash |-> flash, command |-> IF typed = <<>> THEN c ELSE NoCommand]
  BY DEF ReadLine
<1>2. NoCommandWaits'
  BY <1>1, TailWaits DEF AnswerInv, Truth, ShellInv
<1>3. c \in Lines /\ input[1] = LineToken(c) /\ Len(input) \in Nat \ {0}
  BY <1>1, InputIs DEF AnswerInv, ShellInv
<1> HIDE DEF c
<1>4. CASE typed # <<>>
  <2>1. Done("error") /\ saved'.command = NoCommand
    BY <1>1, <1>4 DEF ReadLine
  <2>2. AnsweredMeansDone'
    BY <2>1, UnsaidDone DEF NoCommand
  <2> QED
    BY <1>2, <2>1, <2>2, RestTruth DEF Done
<1>5. CASE typed = <<>> /\ c \in Commands
  <2>1. Execute(c) /\ saved' = [flash |-> flash, command |-> c]
    BY <1>1, <1>5 DEF ReadLine, c
  <2>2. ~Succeeded
    BY <1>3, <1>5 DEF AnswerInv, Truth, CommandsWaitAlone
  <2> QED
    BY <1>2, <1>5, <2>1, <2>2, ExecuteAnswers DEF AnswerInv
<1>6. CASE typed = <<>> /\ c \in Uploads
  <2>1. Execute(c) /\ saved'.command = c /\ c[1] = "upload"
    BY <1>1, <1>6 DEF ReadLine, c, Uploads
  <2>2. AnsweredMeansDone'
    BY <2>1, UnsaidDone
  <2>3. job'.kind = "upload" \/ job' = Prompt
    BY <2>1 DEF Execute, upload_command, Done
  <2> QED
    BY <1>2, <2>2, <2>3, NoneWaits, Kinds DEF Truth, CopyIsPartial, RemovalHasTop
<1> QED
  BY <1>3, <1>4, <1>5, <1>6 DEF Lines

LEMMA AnswerStep ==
  ASSUME AnswerInv, [Next]_vars
  PROVE  AnswerInv'
<1>1. SUFFICES Truth'
  BY ShellStep DEF AnswerInv
<1>2. CASE \/ \E c \in Commands : Type(c)
           \/ \E p \in Nodes, s \in Payloads : StartUpload(p, s)
           \/ HostSeesReady \/ HostSends \/ HostConcludes \/ HostGoesOn
           \/ UNCHANGED vars
  BY <1>2, HostAnswers
<1>3. CASE ReadLine
  BY <1>3, ReadLineAnswers
<1>4. CASE ReadByte
  BY <1>4, ReadByteAnswers
<1>5. CASE UploadReads \/ UploadTimesOut \/ UploadCloses
  BY <1>5, UploadAnswers
<1>6. CASE CopyStep
  BY <1>6, CopyAnswers
<1>7. CASE RemoveStep
  BY <1>7, RemoveAnswers
<1>8. CASE PowerCut \/ Boot
  BY <1>8, PowerAnswers
<1> QED
  BY <1>2, <1>3, <1>4, <1>5, <1>6, <1>7, <1>8 DEF Next

LEMMA AnswerInvariant == Spec => []AnswerInv
<1>1. Init => AnswerInv
  BY AnswerInit
<1>2. AnswerInv /\ [Next]_vars => AnswerInv'
  BY AnswerStep
<1> QED
  BY <1>1, <1>2, PTL DEF Spec

-----------------------------------------------------------------------------
(***************************************************************************)
(* What a failure leaves.  Until an upload is closed the flash is what it  *)
(* was, and a removal has only removed.                                    *)
(***************************************************************************)
WorkSoFar ==
  /\ job.kind = "upload" => flash = saved.flash /\ job.size = saved.command[3]
  /\ job.kind = "remove" => \A q \in Nodes : flash[q] \in {saved.flash[q], Absent}

\* A command begins.
LEMMA ExecuteWork ==
  ASSUME ShellInv, NEW c \in Lines, Execute(c), saved' = [flash |-> flash, command |-> c]
  PROVE  WorkSoFar'
<1>1. c[1] \in {"upload", "echo", "cp", "mv", "mkdir", "rm", "rmr"}
  BY LineIs DEF IsCommand
<1>2. saved'.flash = flash /\ saved'.command = c
  OBVIOUS
<1>3. CASE c[1] = "upload"
  <2>1. \/ Done("error") /\ UNCHANGED flash
        \/ job' = [kind |-> "upload", path |-> c[2], size |-> c[3], data |-> <<>>] /\ UNCHANGED flash
    BY <1>3 DEF Execute, upload_command
  <2> QED
    BY <1>2, <2>1, Kinds DEF WorkSoFar, Done
<1>4. CASE c[1] = "rmr"
  <2>1. job' = [kind |-> "remove", stack |-> <<c[2]>>, top |-> c[2]] /\ UNCHANGED flash
    BY <1>4 DEF Execute, rmr_command
  <2> QED
    BY <1>2, <2>1 DEF WorkSoFar
<1>5. CASE c[1] = "cp"
  <2>1. Done("error") \/ job' = [kind |-> "copy", from |-> Data(flash[c[2]]), path |-> c[3], data |-> <<>>]
    BY <1>5 DEF Execute, cp_command
  <2> QED
    BY <2>1, Kinds DEF WorkSoFar, Done
<1>6. CASE c[1] \in {"echo", "mv", "mkdir", "rm"}
  <2>1. job' = Prompt
    BY <1>6 DEF Execute, echo_command, mv_command, mkdir_command, rm_command, Done
  <2> QED
    BY <2>1, Kinds DEF WorkSoFar
<1> QED
  BY <1>1, <1>3, <1>4, <1>5, <1>6

LEMMA RemoveWork ==
  ASSUME ShellInv, WorkSoFar, RemoveStep
  PROVE  WorkSoFar'
<1>1. job.kind = "remove" /\ UNCHANGED saved /\ \A q \in Nodes : flash[q] \in {saved.flash[q], Absent}
  BY RemoveCases DEF WorkSoFar
<1>2. \A q \in Nodes : flash'[q] \in {flash[q], Absent}
  BY RemoveCases, RemoveKeeps DEF ShellInv
<1>3. job'.kind # "upload"
  <2>1. job' = Prompt \/ \E s : job' = [job EXCEPT !.stack = s]
    BY RemoveCases DEF Rises, Done
  <2> QED
    BY <1>1, <2>1, Kinds, RemoveIs DEF RemoveJobs
<1> QED
  BY <1>1, <1>2, <1>3 DEF WorkSoFar

LEMMA WorkStep ==
  ASSUME ShellInv, WorkSoFar, [Next]_vars
  PROVE  WorkSoFar'
<1>1. CASE \/ \E c \in Commands : Type(c)
           \/ \E p \in Nodes, s \in Payloads : StartUpload(p, s)
           \/ HostSeesReady \/ HostSends \/ HostConcludes \/ HostGoesOn \/ ReadByte
           \/ UNCHANGED vars
  <2>1. UNCHANGED <<flash, job, saved>>
    BY <1>1 DEF Type, StartUpload, HostSeesReady, HostSends, HostConcludes, HostGoesOn, ReadByte, vars
  <2> QED
    BY <2>1 DEF WorkSoFar
<1>2. CASE ReadLine
  <2>1. CASE typed = <<>>
    <3> DEFINE c == Head(input)[2]
    <3>1. c \in Lines
      BY <1>2, InputIs DEF ReadLine, ShellInv
    <3>2. Execute(c) /\ saved' = [flash |-> flash, command |-> c]
      BY <1>2, <2>1 DEF ReadLine
    <3> HIDE DEF c
    <3> QED
      BY <3>1, <3>2, ExecuteWork
  <2>2. CASE typed # <<>>
    <3>1. job' = Prompt
      BY <1>2, <2>2 DEF ReadLine, Done
    <3> QED
      BY <3>1, Kinds DEF WorkSoFar
  <2> QED
    BY <2>1, <2>2
<1>3. CASE UploadReads
  <2>1. job.kind = "upload" /\ job \in UploadJobs /\ UNCHANGED saved
    BY <1>3, UploadIs DEF UploadReads
  <2>2. Done("error") \/ (UNCHANGED flash /\ \E s : job' = [job EXCEPT !.data = s])
    BY <1>3 DEF UploadReads
  <2>3. CASE Done("error")
    BY <2>3, Kinds DEF WorkSoFar, Done
  <2>4. CASE UNCHANGED flash /\ \E s : job' = [job EXCEPT !.data = s]
    <3>1. job'.kind = "upload" /\ job'.size = job.size
      BY <2>1, <2>4 DEF UploadJobs
    <3> QED
      BY <2>1, <2>4, <3>1 DEF WorkSoFar
  <2> QED
    BY <2>2, <2>3, <2>4
<1>4. CASE UploadTimesOut \/ UploadCloses \/ Boot \/ PowerCut
  <2>1. job' \in {Prompt, Off}
    BY <1>4 DEF UploadTimesOut, UploadCloses, Boot, PowerCut, Done
  <2> QED
    BY <2>1, Kinds DEF WorkSoFar
<1>5. CASE CopyStep
  <2>1. job.kind = "copy" /\ job \in CopyJobs
    BY <1>5, CopyIs DEF CopyStep
  <2>2. job' = Prompt \/ \E s : job' = [job EXCEPT !.data = s]
    BY <1>5 DEF CopyStep, Done
  <2>3. job'.kind \in {"prompt", "copy"}
    BY <2>1, <2>2, Kinds DEF CopyJobs
  <2> QED
    BY <2>3 DEF WorkSoFar
<1>6. CASE RemoveStep
  BY <1>6, RemoveWork
<1> QED
  BY <1>1, <1>2, <1>3, <1>4, <1>5, <1>6 DEF Next

\* An answer is one answer.
LEMMA FirstWord ==
  ASSUME NEW s \in Seq(Answers), NEW x, NEW y
  PROVE  (s \o <<x, y>>)[Len(s) + 1] = x /\ Len(s \o <<x, y>>) = Len(s) + 2 /\ Len(s) \in Nat
OBVIOUS

LEMMA OneAnswer ==
  ASSUME Shape, Done("error")
  PROVE  ~Done("") /\ ~Done("OK") /\ ~UNCHANGED replies /\ replies' # <<>> /\ replies' # <<"prompt">>
<1>1. replies \in Seq(Answers) /\ replies' = replies \o <<"error", "prompt">>
  BY DEF Done, Say, Shape
<1>2. replies'[Len(replies) + 1] = "error" /\ Len(replies') = Len(replies) + 2 /\ Len(replies) \in Nat
  BY <1>1, FirstWord
<1>3. replies' # replies \o <<"", "prompt">> /\ replies' # replies \o <<"OK", "prompt">>
  <2>1. (replies \o <<"", "prompt">>)[Len(replies) + 1] = ""
    BY <1>1, FirstWord
  <2>2. (replies \o <<"OK", "prompt">>)[Len(replies) + 1] = "OK"
    BY <1>1, FirstWord
  <2>3. replies'[Len(replies) + 1] # "" /\ replies'[Len(replies) + 1] # "OK"
    BY <1>2
  <2> QED
    BY <2>1, <2>2, <2>3
<1>4. replies' # replies /\ replies' # <<>> /\ replies' # <<"prompt">>
  BY <1>2
<1> QED
  BY <1>3, <1>4 DEF Done, Say

\* What a prefix of the source is.
LEMMA StrictPart ==
  ASSUME NEW from \in Seq(Bytes), NEW data \in Seq(Bytes), Len(data) < Len(from),
         \A i \in 1 .. Len(data) : data[i] = from[i]
  PROVE  IsStrictPrefix(data, from)
<1>1. Len(data) \in Nat /\ Len(from) \in Nat /\ Len(data) <= Len(from)
  OBVIOUS
<1>2. SubSeq(data, 1, Len(data)) = SubSeq(from, 1, Len(data))
  BY <1>1
<1>3. data # from
  OBVIOUS
<1> QED
  BY <1>1, <1>2, <1>3 DEF IsStrictPrefix, IsPrefix

\* A copy that fails has moved less than its source holds.
LEMMA CopyFails ==
  ASSUME AnswerInv, CopyStep, Done("error")
  PROVE  LeavesPart'
<1> DEFINE rest == SubSeq(job.from, Len(job.data) + 1, Len(job.from))
           c == saved.command
<1>1. job.kind = "copy" /\ UNCHANGED saved
  BY DEF CopyStep
<1>2. /\ job.path \in Nodes /\ job.data \in Seq(Bytes) /\ job.from \in Seq(Bytes) /\ CanCreate(job.path)
      /\ Len(job.data) <= Capacity /\ c[1] = "cp" /\ job.path = c[3]
  BY <1>1, CopyIs DEF AnswerInv
<1>3. /\ saved.flash[c[2]] = File(job.from) /\ Len(job.data) <= Len(job.from)
      /\ \A i \in 1 .. Len(job.data) : job.data[i] = job.from[i]
  BY <1>1 DEF AnswerInv, Truth, CopyIsPartial
<1>4. rest # <<>> /\ flash' = Commit(job.path, job.data)
  BY OneAnswer DEF CopyStep, AnswerInv, ShellInv
<1>5. Len(job.data) < Len(job.from)
  <2>1. Len(job.data) \in Nat /\ Len(job.from) \in Nat
    BY <1>2
  <2>2. Len(job.data) = Len(job.from) => rest = <<>>
    BY <1>2, <2>1
  <2>3. Len(job.data) # Len(job.from)
    BY <1>4, <2>2
  <2> HIDE DEF rest
  <2> QED
    BY <1>3, <2>1, <2>3
<1>6. flash'[c[3]] = File(job.data)
  BY <1>2, <1>4, CommitKeeps DEF AnswerInv, ShellInv
<1>7. IsStrictPrefix(job.data, job.from)
  BY <1>2, <1>3, <1>5, StrictPart
<1>8. IsFile(flash'[c[3]]) /\ Data(flash'[c[3]]) = job.data /\ Data(saved.flash[c[2]]) = job.from
  BY <1>3, <1>6 DEF File, IsFile, Data
<1> QED
  BY <1>1, <1>2, <1>7, <1>8 DEF LeavesPart

\* An upload that fails has less than was announced.
LEMMA UploadFails ==
  ASSUME ShellInv, WorkSoFar, UploadReads \/ UploadTimesOut, Done("error")
  PROVE  LeavesPart'
<1>1. /\ job.kind = "upload" /\ UNCHANGED saved /\ Len(job.data) < job.size
  BY DEF UploadReads, UploadTimesOut
<1>2. flash' = Commit(job.path, job.data)
  BY OneAnswer DEF UploadReads, UploadTimesOut, ShellInv
<1>3. /\ job.path \in Nodes /\ job.data \in Seq(Bytes) /\ CanCreate(job.path) /\ Len(job.data) <= Capacity
      /\ saved.command[1] = "upload" /\ job.path = saved.command[2] /\ job.size = saved.command[3]
  BY <1>1, UploadIs DEF WorkSoFar
<1>4. flash'[saved.command[2]] = File(job.data)
  BY <1>2, <1>3, CommitKeeps DEF ShellInv
<1>5. IsFile(flash'[saved.command[2]]) /\ Data(flash'[saved.command[2]]) = job.data
  BY <1>4 DEF File, IsFile, Data
<1> QED
  BY <1>1, <1>3, <1>5 DEF LeavesPart

\* A command that fails where it was typed.
LEMMA ReadLineFails ==
  ASSUME ShellInv, ReadLine, Done("error")
  PROVE  LeavesPart'
<1>1. saved'.flash = flash
  BY DEF ReadLine
<1>2. CASE typed # <<>>
  <2>1. UNCHANGED flash
    BY <1>2 DEF ReadLine
  <2> QED
    BY <1>1, <2>1 DEF LeavesPart
<1>3. CASE typed = <<>>
  <2> DEFINE c == Head(input)[2]
  <2>1. c \in Lines /\ Execute(c) /\ saved'.command = c
    BY <1>3, InputIs DEF ReadLine, ShellInv
  <2> HIDE DEF c
  <2>2. c[1] \in {"upload", "echo", "cp", "mv", "mkdir", "rm", "rmr"}
    BY <2>1, LineIs DEF IsCommand
  <2>3. ~Done("")
    BY OneAnswer DEF ShellInv
  <2>4. CASE c[1] \in {"upload", "cp", "mv", "mkdir", "rm", "rmr"}
    <3>1. UNCHANGED flash
      BY <2>1, <2>3, <2>4 DEF Execute, upload_command, cp_command, mv_command, mkdir_command, rm_command, rmr_command
    <3> QED
      BY <1>1, <3>1 DEF LeavesPart
  <2>5. CASE c[1] = "echo"
    <3>1. UNCHANGED flash \/ (CanCreate(c[2]) /\ flash' = Commit(c[2], <<>>))
      BY <2>1, <2>3, <2>5 DEF Execute, echo_command
    <3>2. CASE UNCHANGED flash
      BY <1>1, <3>2 DEF LeavesPart
    <3>3. CASE CanCreate(c[2]) /\ flash' = Commit(c[2], <<>>)
      <4>1. c[2] \in Nodes
        BY <2>1, <2>5, <3>3, LineIs DEF IsCommand, CanCreate, Places
      <4>2. <<>> \in Seq(Bytes) /\ Len(<<>>) <= Capacity
        BY Given
      <4>3. flash'[c[2]] = File(<<>>)
        BY <3>3, <4>1, <4>2, CommitKeeps DEF ShellInv
      <4> QED
        BY <2>1, <2>5, <4>3 DEF LeavesPart
    <3> QED
      BY <3>1, <3>2, <3>3
  <2> QED
    BY <2>2, <2>4, <2>5
<1> QED
  BY <1>2, <1>3

LEMMA FailsPartly ==
  ASSUME AnswerInv, WorkSoFar, WorkSoFar', [Next]_vars
  PROVE  Done("error") /\ (job.kind # "prompt" \/ saved' # saved) => LeavesPart'
<1> SUFFICES ASSUME Done("error"), job.kind # "prompt" \/ saved' # saved
             PROVE  LeavesPart'
  OBVIOUS
<1>1. Shape /\ ~UNCHANGED replies /\ replies' # <<>> /\ replies' # <<"prompt">> /\ ~Done("OK")
  BY OneAnswer DEF AnswerInv, ShellInv
<1>4. CASE ReadLine
  BY <1>4, ReadLineFails DEF AnswerInv
<1>5. CASE UploadReads \/ UploadTimesOut
  BY <1>5, UploadFails DEF AnswerInv
<1>6. CASE UploadCloses
  BY <1>1, <1>6 DEF UploadCloses
<1>7. CASE CopyStep
  BY <1>7, CopyFails
<1>8. CASE RemoveStep
  <2>1. job.kind = "remove" /\ saved.command[1] = "rmr" /\ UNCHANGED saved
    BY <1>8, RemoveIs DEF RemoveStep, AnswerInv
  <2>2. \A q \in Nodes : flash'[q] \in {flash[q], Absent}
    BY <1>8, RemoveCases, RemoveKeeps DEF AnswerInv, ShellInv
  <2>3. \A q \in Nodes : flash'[q] \in {saved'.flash[q], Absent}
    BY <2>1, <2>2 DEF WorkSoFar
  <2> QED
    BY <2>1, <2>3 DEF LeavesPart
<1>9. CASE ReadByte
  BY <1>9 DEF ReadByte
<1>10. CASE \/ \E c \in Commands : Type(c)
            \/ \E p \in Nodes, s \in Payloads : StartUpload(p, s)
            \/ HostSeesReady \/ HostSends \/ HostConcludes \/ HostGoesOn
            \/ PowerCut \/ Boot \/ UNCHANGED vars
  <2>1. replies' = replies \/ replies' = <<>> \/ replies' = <<"prompt">>
    BY <1>10 DEF Type, StartUpload, HostSeesReady, HostSends, HostConcludes, HostGoesOn, PowerCut, Boot, vars
  <2> QED
    BY <1>1, <2>1
<1> QED
  BY <1>4, <1>5, <1>6, <1>7, <1>8, <1>9, <1>10 DEF Next

\* Whatever was typed, sent or cut off before, a command that the shell answers
\* without an error has done what it says, and one that it answers with an error
\* leaves no more than a part of it.
THEOREM CommandsDoWhatTheyAnswer == Spec => []AnsweredMeansDone /\ FailuresLeavePart
<1>1. AnswerInv => AnsweredMeansDone
  BY DEF AnswerInv, Truth
<1>2. Init => WorkSoFar
  BY Kinds DEF Init, WorkSoFar
<1>3. AnswerInv /\ WorkSoFar /\ [Next]_vars => WorkSoFar'
  BY WorkStep DEF AnswerInv
<1>4. AnswerInv /\ WorkSoFar /\ WorkSoFar' /\ [Next]_vars
        => [Done("error") /\ (job.kind # "prompt" \/ saved' # saved) => LeavesPart']_vars
  BY FailsPartly
<1>5. Spec => [](AnswerInv /\ WorkSoFar)
  BY <1>2, <1>3, AnswerInvariant, PTL DEF Spec
<1> QED
  BY <1>1, <1>4, <1>5, PTL DEF Spec, FailuresLeavePart

-----------------------------------------------------------------------------
(***************************************************************************)
(* What p2upload's success means.  Where the host awaits an answer before  *)
(* it asks again (~Overlaps), an upload under way is in one of four        *)
(* states: its line waits at the prompt; the device has the first bytes of *)
(* the payload and the console the next ones; the file is closed, whole;   *)
(* or the device has refused it or given it up.  Then the rest of the      *)
(* payload is typed at the prompt, and OK is read only if the payload says *)
(* it.                                                                     *)
(***************************************************************************)
Confirmed == "OK" \in ToSet(replies)

Asked ==
  /\ host.kind = "waits" /\ host.sent = 0 /\ job.kind = "prompt" /\ replies = <<>>
  /\ input = <<LineToken(<<"upload", host.path, Len(host.payload)>>)>>

Receiving ==
  /\ job.kind = "upload" /\ job.path = host.path /\ job.size = Len(host.payload)
  /\ replies = <<"READY">> /\ typed = <<>>
  /\ Len(job.data) + Len(input) = host.sent
  /\ \A i \in 1 .. Len(job.data) : job.data[i] = host.payload[i]
  /\ \A i \in 1 .. Len(input) : input[i] = ByteToken(host.payload[Len(job.data) + i])

Stored ==
  /\ job.kind = "prompt" /\ input = <<>> /\ host.sent = Len(host.payload)
  /\ flash[host.path] = File(host.payload)

Refused ==
  /\ job.kind = "prompt" /\ ~Confirmed
  /\ \A i \in 1 .. Len(input) : input[i][1] = "byte" /\ input[i] # ByteToken("OK")
  /\ typed \in Seq(Bytes) /\ \A i \in 1 .. Len(typed) : typed[i] # "OK"

Succeeds ==
  job.kind \in {"prompt", "off"} /\ input = <<>> /\ flash[host.path] = File(host.payload)

Proceeds ==
  /\ host.kind \in {"waits", "sends"} => Asked \/ Receiving \/ Stored \/ Refused
  /\ host.kind = "success" => Succeeds

HostInv == SaysOK(host.payload) \/ Proceeds

LEMMA Counting ==
  /\ \A a, b, c \in Nat : a + b = c => a + (b + 1) = c + 1
  /\ \A a, b, c \in Nat : c = a + 1 => a + (b + 1) = c + b
OBVIOUS

LEMMA SaysConfirmed ==
  ASSUME Shape
  PROVE  /\ Done("error") => (Confirmed' <=> Confirmed)
         /\ UNCHANGED replies => (Confirmed' <=> Confirmed)
         /\ replies = <<"READY">> => ~Confirmed /\ "prompt" \notin ToSet(replies)
         /\ replies = <<>> => ~Confirmed /\ "prompt" \notin ToSet(replies) /\ "READY" \notin ToSet(replies)
<1>1. replies \in Seq(Answers)
  BY DEF Shape
<1>2. \A x \in Answers, y \in Answers :
        /\ ToSet(replies \o <<x, y>>) = ToSet(replies) \cup {x, y}
        /\ ToSet(<<>>) = {} /\ ToSet(<<x>>) = {x}
  BY <1>1, SaidMore
<1>3. Done("error") => ToSet(replies') = ToSet(replies) \cup {"error", "prompt"}
  BY <1>2, SomeAnswers DEF Done, Say
<1>4. replies = <<"READY">> => ToSet(replies) = {"READY"}
  BY <1>2, SomeAnswers
<1>5. replies = <<>> => ToSet(replies) = {}
  BY <1>2, SomeAnswers
<1> QED
  BY <1>3, <1>4, <1>5 DEF Confirmed

LEMMA HeadWaits ==
  ASSUME Shape, input # <<>>
  PROVE  /\ Receiving \/ Refused => Head(input)[1] = "byte"
         /\ Asked => Head(input) = LineToken(<<"upload", host.path, Len(host.payload)>>) /\ Tail(input) = <<>>
         /\ Asked => Head(input)[1] = "line"
<1>1. Head(input) = input[1] /\ Len(input) \in Nat \ {0}
  BY InputIs
<1>2. Receiving \/ Refused => Head(input)[1] = "byte"
  BY <1>1 DEF Receiving, Refused, ByteToken
<1>3. Asked => Head(input) = LineToken(<<"upload", host.path, Len(host.payload)>>) /\ Tail(input) = <<>>
  BY DEF Asked
<1> QED
  BY <1>2, <1>3 DEF LineToken

\* Who asks nothing is told nothing.
LEMMA AsksNothing ==
  ASSUME host'.kind \in {"idle", "failure"}
  PROVE  HostInv'
BY DEF HostInv, Proceeds

\* The payload on its way says no OK.
LEMMA SaysNothing ==
  ASSUME ShellInv, ~SaysOK(host.payload)
  PROVE  /\ \A i \in 1 .. Len(host.payload) : host.payload[i] # "OK"
         /\ Receiving => \A i \in 1 .. Len(input) : input[i][1] = "byte" /\ input[i] # ByteToken("OK")
<1>1. host.payload \in Seq(Bytes) /\ host.sent \in Nat /\ host.sent <= Len(host.payload) /\ input \in Seq(Tokens)
  BY DEF ShellInv, Shape
<1>2. \A i \in 1 .. Len(host.payload) : host.payload[i] # "OK"
  BY <1>1 DEF SaysOK, ToSet
<1>3. ASSUME Receiving, NEW i \in 1 .. Len(input)
      PROVE  input[i][1] = "byte" /\ input[i] # ByteToken("OK")
  <2>1. Len(job.data) \in Nat
    BY <1>3, UploadIs DEF Receiving
  <2>2. Len(job.data) + i \in 1 .. Len(host.payload)
    BY <1>1, <1>3, <2>1 DEF Receiving
  <2>3. input[i] = ByteToken(host.payload[Len(job.data) + i])
    BY <1>3 DEF Receiving
  <2> QED
    BY <1>2, <2>2, <2>3 DEF ByteToken
<1> QED
  BY <1>2, <1>3

LEMMA HostStepRight ==
  ASSUME ShellInv, HostInv, ~Overlaps,
         \/ \E c \in Commands : Type(c)
         \/ \E p \in Nodes, s \in Payloads : StartUpload(p, s)
         \/ HostSeesReady \/ HostSends \/ HostConcludes \/ HostGoesOn
         \/ UNCHANGED vars
  PROVE  HostInv'
<1>0. /\ Shape /\ host \in Hosts /\ input \in Seq(Tokens) /\ host.sent \in Nat /\ Len(host.payload) \in Nat
      /\ host.sent <= Len(host.payload)
  BY DEF ShellInv, Shape, Hosts
<1>1. CASE \E c \in Commands : Type(c)
  BY <1>1, AsksNothing DEF Type
<1>2. CASE \E p \in Nodes, s \in Payloads : StartUpload(p, s)
  <2>1. PICK p \in Nodes, s \in Payloads : StartUpload(p, s)
    BY <1>2
  <2>2. input = <<>> /\ job.kind = "prompt" /\ UNCHANGED job /\ replies' = <<>>
        /\ host' = [kind |-> "waits", path |-> p, payload |-> s, sent |-> 0]
        /\ input' = Append(input, LineToken(<<"upload", p, Len(s)>>))
    BY <2>1 DEF StartUpload
  <2>3. input' = <<LineToken(<<"upload", p, Len(s)>>)>>
    BY <2>2
  <2>4. Asked'
    BY <2>2, <2>3 DEF Asked
  <2> QED
    BY <2>2, <2>4 DEF HostInv, Proceeds
<1>3. CASE HostSeesReady /\ ~SaysOK(host.payload)
  <2>1. /\ host.kind = "waits" /\ "READY" \in ToSet(replies) /\ UNCHANGED <<flash, job, input, replies>>
        /\ host' = [host EXCEPT !.kind = "sends"]
    BY <1>3 DEF HostSeesReady
  <2>2. Receiving \/ Stored \/ Refused
    BY <1>0, <1>3, <2>1, SaysConfirmed DEF HostInv, Proceeds, Asked
  <2>3. /\ host'.kind = "sends" /\ host'.sent = host.sent /\ host'.path = host.path
        /\ host'.payload = host.payload
    BY <1>0, <2>1 DEF Hosts
  <2>4. (Receiving \/ Stored \/ Refused)'
    <3>1. UNCHANGED typed
      BY <1>3 DEF HostSeesReady
    <3> QED
      BY <2>1, <2>2, <2>3, <3>1 DEF Receiving, Stored, Refused, Confirmed
  <2> QED
    BY <2>3, <2>4 DEF HostInv, Proceeds
<1>4. CASE HostSends /\ ~SaysOK(host.payload)
  <2> DEFINE x == ByteToken(host.payload[host.sent + 1])
  <2>1. /\ host.kind = "sends" /\ host.sent < Len(host.payload) /\ UNCHANGED <<flash, job, replies>>
        /\ host' = [host EXCEPT !.sent = host.sent + 1] /\ input' = Append(input, x)
    BY <1>4 DEF HostSends
  <2>2. (Receiving \/ Refused) /\ UNCHANGED typed
    BY <1>0, <1>4, <2>1 DEF HostInv, Proceeds, Asked, Stored, HostSends
  <2>3. /\ host'.kind = "sends" /\ host'.sent = host.sent + 1 /\ host'.path = host.path
        /\ host'.payload = host.payload
    BY <1>0, <2>1 DEF Hosts
  <2>4. x[1] = "byte" /\ x # ByteToken("OK")
    <3>1. host.sent + 1 \in 1 .. Len(host.payload)
      BY <1>0, <2>1
    <3> QED
      BY <1>4, <3>1, SaysNothing DEF ByteToken
  <2>5. /\ Len(input') = Len(input) + 1 /\ Len(input) \in Nat /\ input'[Len(input) + 1] = x
        /\ \A i \in 1 .. Len(input) : input'[i] = input[i]
        /\ \A i \in 1 .. Len(input') : i \in 1 .. Len(input) \/ i = Len(input) + 1
    <3> HIDE DEF x
    <3> QED
      BY <1>0, <2>1
  <2>6. CASE Receiving
    <3>1. Len(job.data) \in Nat /\ Len(input) \in Nat /\ Len(job.data) + Len(input) = host.sent
      BY <2>5, <2>6, UploadIs DEF Receiving
    <3>2. Len(job.data) + (Len(input) + 1) = host.sent + 1
      BY <1>0, <3>1, Counting
    <3>3. x = ByteToken(host.payload[Len(job.data) + (Len(input) + 1)])
      BY <3>2
    <3> HIDE DEF x
    <3>4. Receiving'
      BY <2>1, <2>2, <2>3, <2>5, <2>6, <3>2, <3>3 DEF Receiving
    <3> QED
      BY <2>3, <3>4 DEF HostInv, Proceeds
  <2>7. CASE Refused
    <3> HIDE DEF x
    <3>1. Refused'
      BY <2>1, <2>2, <2>4, <2>5, <2>7 DEF Refused, Confirmed
    <3> QED
      BY <2>3, <3>1 DEF HostInv, Proceeds
  <2> QED
    BY <2>2, <2>6, <2>7
<1>5. CASE HostConcludes /\ ~SaysOK(host.payload)
  <2>1. /\ host.kind = "sends" /\ "prompt" \in ToSet(replies) /\ UNCHANGED <<flash, job, input, replies>>
        /\ host' = [host EXCEPT !.kind = IF Confirmed THEN "success" ELSE "failure"]
    BY <1>5 DEF HostConcludes, Confirmed
  <2>2. Stored \/ Refused
    BY <1>0, <1>5, <2>1, SaysConfirmed DEF HostInv, Proceeds, Asked, Receiving
  <2>3. /\ host'.kind = IF Confirmed THEN "success" ELSE "failure"
        /\ host'.path = host.path /\ host'.payload = host.payload
    BY <1>0, <2>1 DEF Hosts
  <2>4. CASE Stored
    <3>1. Succeeds'
      BY <2>1, <2>3, <2>4 DEF Stored, Succeeds
    <3> QED
      BY <2>3, <3>1 DEF HostInv, Proceeds
  <2>5. CASE Refused
    BY <2>3, <2>5, AsksNothing DEF Refused
  <2> QED
    BY <2>2, <2>4, <2>5
<1>6. CASE HostGoesOn
  BY <1>6, AsksNothing, Kinds DEF HostGoesOn
<1>7. CASE UNCHANGED vars
  BY <1>7 DEF vars, HostInv, Proceeds, Asked, Receiving, Stored, Refused, Succeeds, Confirmed
<1>8. CASE (HostSeesReady \/ HostSends \/ HostConcludes) /\ SaysOK(host.payload)
  <2>1. host'.payload = host.payload
    BY <1>0, <1>8 DEF HostSeesReady, HostSends, HostConcludes, Hosts
  <2> QED
    BY <1>8, <2>1 DEF HostInv
<1> QED
  BY <1>1, <1>2, <1>3, <1>4, <1>5, <1>6, <1>7, <1>8

LEMMA ReadRight ==
  ASSUME ShellInv, Proceeds, ~SaysOK(host.payload), ReadLine \/ ReadByte
  PROVE  Proceeds'
<1>1. /\ job.kind = "prompt" /\ input # <<>> /\ input' = Tail(input) /\ UNCHANGED host /\ Shape
  BY DEF ReadLine, ReadByte, ShellInv
<1>2. host.kind # "success"
  BY <1>1 DEF Proceeds, Succeeds
<1>3. CASE host.kind \notin {"waits", "sends"}
  BY <1>1, <1>2, <1>3 DEF Proceeds
<1>4. CASE host.kind \in {"waits", "sends"}
  <2>1. Asked \/ Refused
    BY <1>1, <1>4 DEF Proceeds, Receiving, Stored
  <2>2. SUFFICES Receiving' \/ Refused'
    BY <1>1, <1>2 DEF Proceeds
  <2>3. CASE Asked
    <3> DEFINE c == <<"upload", host.path, Len(host.payload)>>
    <3>1. Head(input) = LineToken(c) /\ input' = <<>> /\ ReadLine /\ ~Confirmed /\ replies = <<>>
      BY <1>1, <2>3, HeadWaits, SaysConfirmed DEF ReadByte, Asked
    <3>2. CASE Done("error")
      <4>1. ~Confirmed' /\ job'.kind = "prompt"
        BY <1>1, <3>1, <3>2, SaysConfirmed, Kinds DEF Done
      <4>2. typed' = <<>> /\ Len(input') = 0
        BY <3>1 DEF ReadLine
      <4>3. typed' \in Seq(Bytes) /\ Len(typed') = 0
        BY <4>2
      <4> QED
        BY <4>1, <4>2, <4>3 DEF Refused
    <3>3. CASE ~Done("error")
      <4>1. Head(input)[2] = c /\ c[1] = "upload" /\ c[2] = host.path /\ c[3] = Len(host.payload)
        BY <3>1 DEF LineToken
      <4>2. upload_command(host.path, Len(host.payload))
        BY <3>1, <3>3, <4>1 DEF ReadLine, Execute
      <4>3. /\ job' = [kind |-> "upload", path |-> host.path, size |-> Len(host.payload), data |-> <<>>]
            /\ replies' = Append(replies, "READY")
        BY <3>3, <4>2 DEF upload_command
      <4>4. replies' = <<"READY">>
        BY <3>1, <4>3
      <4>5. /\ job'.kind = "upload" /\ job'.path = host.path /\ job'.size = Len(host.payload)
            /\ Len(job'.data) = 0 /\ Len(input') = 0 /\ host.sent = 0 /\ typed' = <<>>
        BY <2>3, <3>1, <4>3 DEF Asked, ReadLine
      <4> QED
        BY <1>1, <4>4, <4>5 DEF Receiving
    <3> QED
      BY <3>2, <3>3
  <2>4. CASE Refused
    <3>1. ReadByte
      BY <1>1, <2>4, HeadWaits DEF ReadLine
    <3>2. Head(input)[2] # "OK" /\ Head(input)[2] \in Bytes
      <4>1. input[1] # ByteToken("OK") /\ Head(input)[1] = "byte"
        BY <1>1, <2>4, InputIs DEF Refused
      <4> QED
        BY <1>1, <4>1, InputIs
    <3>3. \A i \in 1 .. Len(input') : i + 1 \in 1 .. Len(input) /\ input'[i] = input[i + 1]
      BY <1>1, InputIs
    <3>4. UNCHANGED job
      BY <3>1 DEF ReadByte
    <3>5. CASE Head(input)[2] = "nl"
      <4>1. ~(typed # <<>> /\ Last(typed) = "OK")
        <5>1. typed # <<>> => Len(typed) \in 1 .. Len(typed)
          BY <2>4 DEF Refused
        <5> QED
          BY <2>4, <5>1 DEF Refused, Last
      <4>2. ~Confirmed' /\ typed' = <<>>
        BY <1>1, <2>4, <3>1, <3>5, <4>1, EndOfLine DEF Confirmed, Refused
      <4>3. typed' \in Seq(Bytes) /\ Len(typed') = 0
        BY <4>2
      <4> QED
        BY <2>4, <3>3, <3>4, <4>2, <4>3 DEF Refused
    <3>6. CASE Head(input)[2] # "nl"
      <4>1. typed' = Append(typed, Head(input)[2]) /\ UNCHANGED replies
        BY <3>1, <3>6 DEF ReadByte
      <4>2. typed' \in Seq(Bytes) /\ \A i \in 1 .. Len(typed') : typed'[i] # "OK"
        BY <2>4, <3>2, <4>1 DEF Refused
      <4> QED
        BY <2>4, <3>3, <3>4, <4>1, <4>2 DEF Refused, Confirmed
    <3> QED
      BY <3>5, <3>6
  <2> QED
    BY <2>1, <2>3, <2>4
<1> QED
  BY <1>3, <1>4

LEMMA UploadReadsRight ==
  ASSUME ShellInv, Proceeds, ~SaysOK(host.payload), UploadReads
  PROVE  Proceeds'
<1> DEFINE byte == IF Head(input)[1] = "byte" THEN Head(input)[2] ELSE "text"
<1>1. /\ job.kind = "upload" /\ input # <<>> /\ input' = Tail(input) /\ UNCHANGED host /\ Shape
      /\ Len(job.data) < job.size
  BY DEF UploadReads, ShellInv
<1>2. host.kind # "success"
  BY <1>1 DEF Proceeds, Succeeds
<1>3. CASE host.kind \notin {"waits", "sends"}
  BY <1>1, <1>2, <1>3 DEF Proceeds
<1>4. CASE host.kind \in {"waits", "sends"}
  <2>1. Receiving
    BY <1>1, <1>4 DEF Proceeds, Asked, Stored, Refused
  <2>2. SUFFICES Receiving' \/ Refused'
    BY <1>1, <1>2 DEF Proceeds
  <2>3. /\ Head(input) = input[1] /\ Len(input) \in Nat \ {0} /\ Len(input') = Len(input) - 1
        /\ \A i \in 1 .. Len(input') : i + 1 \in 1 .. Len(input) /\ input'[i] = input[i + 1]
    BY <1>1, InputIs
  <2>4. job.data \in Seq(Bytes) /\ Len(job.data) \in Nat /\ job \in UploadJobs
    BY <1>1, UploadIs
  <2>5. byte = host.payload[Len(job.data) + 1]
    BY <2>1, <2>3 DEF Receiving, ByteToken
  <2> HIDE DEF byte
  <2>6. CASE HasRoom(job.path, Append(job.data, byte))
    <3>1. job' = [job EXCEPT !.data = Append(job.data, byte)] /\ UNCHANGED <<replies, typed>>
      BY <2>6 DEF UploadReads, byte
    <3>2. byte \in Bytes
      BY <1>1, InputIs, Given DEF byte
    <3>3. /\ job'.kind = "upload" /\ job'.path = job.path /\ job'.size = job.size
          /\ job'.data = Append(job.data, byte)
      BY <1>1, <2>4, <3>1 DEF UploadJobs
    <3>4. /\ Len(job'.data) = Len(job.data) + 1 /\ job'.data[Len(job.data) + 1] = byte
          /\ \A i \in 1 .. Len(job.data) : job'.data[i] = job.data[i]
          /\ \A i \in 1 .. Len(job'.data) : i \in 1 .. Len(job.data) \/ i = Len(job.data) + 1
      BY <2>4, <3>2, <3>3
    <3>5. Len(job.data) + 1 + (Len(input) - 1) = Len(job.data) + Len(input)
      BY <2>3, <2>4
    <3>6. Len(job'.data) + Len(input') = host.sent
      BY <2>1, <2>3, <3>4, <3>5 DEF Receiving
    <3>7. \A i \in 1 .. Len(job'.data) : job'.data[i] = host.payload[i]
      BY <2>1, <2>5, <3>4 DEF Receiving
    <3>8. \A i \in 1 .. Len(input') : input'[i] = ByteToken(host.payload[Len(job'.data) + i])
      <4>1. \A i \in 1 .. Len(input') : Len(job.data) + (i + 1) = Len(job'.data) + i
        <5>1. Len(job'.data) \in Nat /\ \A i \in 1 .. Len(input') : i \in Nat
          BY <2>3, <2>4, <3>4
        <5>2. Len(job'.data) = Len(job.data) + 1
          BY <3>4
        <5> QED
          BY <2>4, <5>1, <5>2, Counting
      <4> QED
        BY <2>1, <2>3, <4>1 DEF Receiving
    <3> QED
      BY <1>1, <2>1, <3>1, <3>3, <3>6, <3>7, <3>8 DEF Receiving
  <2>7. CASE ~HasRoom(job.path, Append(job.data, byte))
    <3>1. Done("error")
      BY <2>7 DEF UploadReads, byte
    <3>2. ~Confirmed' /\ job'.kind = "prompt"
      BY <1>1, <2>1, <3>1, SaysConfirmed, Kinds DEF Done, Receiving
    <3>3. \A i \in 1 .. Len(input') : input'[i][1] = "byte" /\ input'[i] # ByteToken("OK")
      BY <2>1, <2>3, SaysNothing
    <3>4. typed' \in Seq(Bytes) /\ Len(typed') = 0
      BY <2>1 DEF Receiving, UploadReads
    <3> QED
      BY <3>2, <3>3, <3>4 DEF Refused
  <2> QED
    BY <2>6, <2>7
<1> QED
  BY <1>3, <1>4

LEMMA UploadEndsRight ==
  ASSUME ShellInv, Proceeds, ~SaysOK(host.payload), UploadTimesOut \/ UploadCloses
  PROVE  Proceeds'
<1>1. job.kind = "upload" /\ UNCHANGED <<host, input>> /\ Shape /\ flash' = Commit(job.path, job.data)
  BY DEF UploadTimesOut, UploadCloses, ShellInv
<1>2. host.kind # "success"
  BY <1>1 DEF Proceeds, Succeeds
<1>3. CASE host.kind \notin {"waits", "sends"}
  BY <1>1, <1>2, <1>3 DEF Proceeds
<1>4. CASE host.kind \in {"waits", "sends"}
  <2>1. Receiving
    BY <1>1, <1>4 DEF Proceeds, Asked, Stored, Refused
  <2>2. SUFFICES Stored' \/ Refused'
    BY <1>1, <1>2 DEF Proceeds
  <2>3. CASE UploadTimesOut
    <3>1. Done("error")
      BY <2>3 DEF UploadTimesOut
    <3>2. ~Confirmed' /\ job'.kind = "prompt"
      BY <1>1, <2>1, <3>1, SaysConfirmed, Kinds DEF Done, Receiving
    <3>3. \A i \in 1 .. Len(input) : input[i][1] = "byte" /\ input[i] # ByteToken("OK")
      BY <2>1, SaysNothing
    <3>4. typed' \in Seq(Bytes) /\ Len(typed') = 0
      BY <2>1, <2>3 DEF Receiving, UploadTimesOut
    <3> QED
      BY <1>1, <3>2, <3>3, <3>4 DEF Refused
  <2>4. CASE UploadCloses
    <3>1. Len(job.data) = job.size /\ Done("OK")
      BY <2>4 DEF UploadCloses
    <3>2. /\ job.data \in Seq(Bytes) /\ job.path \in Nodes /\ CanCreate(job.path) /\ Len(job.data) <= Capacity
          /\ Len(job.data) \in Nat
      BY <1>1, UploadIs
    <3>3. /\ host.payload \in Seq(Bytes) /\ input \in Seq(Tokens) /\ host.sent <= Len(host.payload)
          /\ host.sent \in Nat /\ Len(input) \in Nat
      BY DEF ShellInv, Shape
    <3>4. Len(job.data) = Len(host.payload) /\ Len(job.data) + Len(input) = host.sent
      BY <2>1, <3>1 DEF Receiving
    <3>5. Len(input) = 0 /\ host.sent = Len(host.payload)
      BY <3>2, <3>3, <3>4
    <3>6. input = <<>>
      BY <3>3, <3>5
    <3>7. job.data = host.payload
      <4>1. \A i \in 1 .. Len(job.data) : job.data[i] = host.payload[i]
        BY <2>1 DEF Receiving
      <4> QED
        BY <3>2, <3>3, <3>4, <4>1
    <3>8. flash'[host.path] = File(host.payload)
      <4>1. flash'[job.path] = File(job.data)
        BY <1>1, <3>2, CommitKeeps DEF ShellInv
      <4> QED
        BY <2>1, <3>7, <4>1 DEF Receiving
    <3>9. job'.kind = "prompt"
      BY <3>1, Kinds DEF Done
    <3> QED
      BY <1>1, <3>5, <3>6, <3>8, <3>9 DEF Stored
  <2> QED
    BY <2>3, <2>4
<1> QED
  BY <1>3, <1>4

LEMMA OthersRight ==
  ASSUME Proceeds, CopyStep \/ RemoveStep \/ PowerCut \/ Boot
  PROVE  Proceeds'
<1>1. CASE CopyStep \/ RemoveStep
  <2>1. job.kind \in {"copy", "remove"} /\ UNCHANGED host
    BY <1>1 DEF CopyStep, RemoveStep
  <2> QED
    BY <2>1 DEF Proceeds, Asked, Receiving, Stored, Refused, Succeeds
<1>2. CASE PowerCut
  BY <1>2, Kinds DEF PowerCut, Proceeds, Succeeds
<1>3. CASE Boot
  BY <1>3, Kinds DEF Boot, Proceeds, Asked, Receiving, Stored, Refused, Succeeds
<1> QED
  BY <1>1, <1>2, <1>3

LEMMA HostStep ==
  ASSUME ShellInv, HostInv, ~Overlaps, [Next]_vars
  PROVE  HostInv'
<1>1. CASE \/ \E c \in Commands : Type(c)
           \/ \E p \in Nodes, s \in Payloads : StartUpload(p, s)
           \/ HostSeesReady \/ HostSends \/ HostConcludes \/ HostGoesOn
           \/ UNCHANGED vars
  BY <1>1, HostStepRight
<1>2. CASE ReadLine \/ ReadByte \/ UploadReads \/ UploadTimesOut \/ UploadCloses
  <2>1. UNCHANGED host
    BY <1>2 DEF ReadLine, ReadByte, UploadReads, UploadTimesOut, UploadCloses
  <2>2. ~SaysOK(host.payload) => Proceeds'
    BY <1>2, ReadRight, UploadReadsRight, UploadEndsRight DEF HostInv
  <2> QED
    BY <2>1, <2>2 DEF HostInv
<1>3. CASE CopyStep \/ RemoveStep \/ PowerCut \/ Boot
  <2>1. CASE Proceeds
    BY <1>3, <2>1, OthersRight DEF HostInv
  <2>2. CASE SaysOK(host.payload)
    <3>1. host' = host \/ host' = IdleHost
      BY <1>3 DEF CopyStep, RemoveStep, PowerCut, Boot
    <3> QED
      BY <2>2, <3>1, AsksNothing, Kinds DEF HostInv
  <2> QED
    BY <2>1, <2>2 DEF HostInv
<1> QED
  BY <1>1, <1>2, <1>3 DEF Next

\* Where the host awaits each answer, whatever the shell and p2upload answer is
\* true, through any power cuts, time-outs and uploads that are killed and tried
\* again: success means that all is done - unless the payload itself says OK,
\* which the console echoes - and failure that no more than a part is left.
THEOREM AnswersTrue == ~Overlaps /\ Spec => AnswersAreTrue
<1> SUFFICES ASSUME ~Overlaps PROVE Spec => AnswersAreTrue
  OBVIOUS
<1>1. Init => HostInv
  BY DEF Init, IdleHost, HostInv, Proceeds
<1>2. ShellInv /\ HostInv /\ [Next]_vars => HostInv'
  BY HostStep
<1>3. HostInv => HostIsRight
  BY DEF HostInv, Proceeds, HostIsRight, Succeeds
<1>4. Spec => []HostInv
  BY <1>1, <1>2, ShellInvariant, PTL DEF Spec
<1> QED
  BY <1>3, <1>4, CommandsDoWhatTheyAnswer, PTL DEF AnswersAreTrue
=============================================================================
