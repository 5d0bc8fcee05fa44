------------------------------- MODULE Streams -------------------------------
(***************************************************************************)
(* The file functions of PHP (src/stdlib/files.c) over the file system of  *)
(* the device (src/fs/fs_lfs.c).  littlefs is external: a handle has its   *)
(* own view of the file, what it wrote reaches the flash when it is closed, *)
(* and a write fails when the flash is full.                               *)
(*                                                                         *)
(* want is what PHP returns from the same call and ref the file and        *)
(* position PHP would have; got is what this code returns.                 *)
(***************************************************************************)
EXTENDS Integers, Sequences, FiniteSets, SequencesExt

CONSTANTS FileBytes,    \* bytes a file may hold; "nl" ends a line
          MaxSize,      \* room on the flash
          Modes,        \* fopen modes the run uses
          Counts,       \* second arguments of fread
          Limits,       \* second arguments of fgets; 0 for none
          DefaultLimit, \* what fgets uses for none (256 in the code)
          MaxCalls      \* bound: calls made by the script

StreamsAssumption ==
  /\ {"nl"} \subseteq FileBytes
  /\ MaxSize \in Nat /\ MaxCalls \in Nat /\ DefaultLimit \in Nat \ {0}
  /\ Counts \subseteq Nat /\ Limits \subseteq Nat

VARIABLES disk,    \* the file on the flash, or NoFile
          handle,  \* the open pphp_file, or NoHandle
          object,  \* the PHP resource: "none", "open" or "closed"
          ref,     \* PHP's file and position
          got, want,  \* results of the last call
          calls

streamVars == <<disk, handle, object, ref, got, want, calls>>

NoFile == <<"absent">>
NoHandle == [kind |-> "none"]
False == <<"false">>
Text(s) == <<"text", s>>
Number(n) == <<"int", n>>
Ok == <<"ok">>
InvalidArguments == <<"error">>

Contents == UNION {[1 .. n -> FileBytes] : n \in 0 .. MaxSize}
Lesser(a, b) == IF a < b THEN a ELSE b

-----------------------------------------------------------------------------
(***************************************************************************)
(* littlefs and its wrapper.                                               *)
(***************************************************************************)
\* open_flags: the access a mode string asks for.
open_flags(mode) ==
  [read   |-> mode \in {"r", "r+", "w+", "a+"},
   write  |-> mode # "r",
   create |-> mode \notin {"r", "r+"},
   trunc  |-> mode \in {"w", "w+"},
   append |-> mode \in {"a", "a+"}]

Opened(mode) ==
  LET flags == open_flags(mode)
  IN [kind |-> "file", flags |-> flags, pos |-> 0, eof |-> FALSE, dirty |-> flags.trunc \/ disk = NoFile,
      data |-> IF flags.trunc \/ disk = NoFile THEN <<>> ELSE disk]

pphp_fs_open_ok(mode) == disk # NoFile \/ open_flags(mode).create

\* What lfs_file_read returns at the handle's position.
Readable(h, n) == SubSeq(h.data, h.pos + 1, Lesser(h.pos + n, Len(h.data)))

pphp_fs_read(h, n) ==
  LET bytes == Readable(h, n)
  IN [bytes |-> bytes, handle |-> [h EXCEPT !.pos = @ + Len(bytes), !.eof = bytes = <<>>]]

\* lfs_file_write fills a hole with zero bytes; it is all or nothing here.
Written(data, pos, bytes) ==
  [i \in 1 .. (IF pos + Len(bytes) > Len(data) THEN pos + Len(bytes) ELSE Len(data)) |->
     IF i > pos /\ i <= pos + Len(bytes) THEN bytes[i - pos]
     ELSE IF i <= Len(data) THEN data[i] ELSE "nul"]

\* Mutant: mode a+ writes at the position.
WriteAtPosition(h) == IF h.flags.append /\ ~h.flags.read THEN Len(h.data) ELSE h.pos
WritePosition(h) == IF h.flags.append THEN Len(h.data) ELSE h.pos

pphp_fs_write_ok(h, bytes) ==
  h.flags.write /\ WritePosition(h) + Len(bytes) <= MaxSize

pphp_fs_write(h, bytes) ==
  [h EXCEPT !.data = Written(h.data, WritePosition(h), bytes),
            !.pos = WritePosition(h) + Len(bytes),
            !.dirty = TRUE]

\* The position a seek asks for.
Target(h, offset, whence) ==
  offset + (CASE whence = "set" -> 0 [] whence = "cur" -> h.pos [] OTHER -> Len(h.data))

pphp_fs_close(h) == IF h.dirty THEN h.data ELSE disk

-----------------------------------------------------------------------------
(***************************************************************************)
(* What PHP does.                                                          *)
(***************************************************************************)
RefRead(n) == SubSeq(ref.data, ref.pos + 1, Lesser(ref.pos + n, Len(ref.data)))

\* A line with its newline, and at most limit - 1 bytes when there is a limit.
RefLine(limit) ==
  LET most == IF limit = 0 THEN Len(ref.data) ELSE limit - 1
      rest == RefRead(most)
      ends == {i \in DOMAIN rest : rest[i] = "nl"}
  IN IF ends = {} THEN rest
     ELSE SubSeq(rest, 1, CHOOSE i \in ends : \A j \in ends : i <= j)

TextOrFalse(s) == IF s = <<>> THEN False ELSE Text(s)

-----------------------------------------------------------------------------
Call == calls < MaxCalls /\ calls' = calls + 1

\* fopen.
Fopen(mode) ==
  /\ Call
  /\ object # "open"
  /\ IF pphp_fs_open_ok(mode)
     THEN /\ handle' = Opened(mode)
          /\ object' = "open"
          /\ got' = Ok /\ want' = Ok
          /\ ref' = [ref EXCEPT !.data = Opened(mode).data, !.pos = 0]
     ELSE /\ got' = False /\ want' = False
          /\ UNCHANGED <<handle, object, ref>>
  /\ UNCHANGED disk

Open == object = "open"

\* fread: a handle that cannot read is an error of littlefs.
Fread(n) ==
  /\ Call /\ Open
  /\ LET r == pphp_fs_read(handle, n)
     IN IF ~handle.flags.read
        THEN got' = False /\ want' = False /\ UNCHANGED <<handle, ref>>
        ELSE /\ got' = Text(r.bytes)
             /\ handle' = r.handle
             /\ want' = Text(RefRead(n))
             /\ ref' = [ref EXCEPT !.pos = @ + Len(RefRead(n))]
  /\ UNCHANGED <<disk, object>>

FirstIndex(s, x) ==
  IF x \in ToSet(s) THEN CHOOSE i \in DOMAIN s : s[i] = x /\ \A j \in 1 .. i - 1 : s[j] # x
  ELSE 0

\* The loop of fgets: one byte at a time up to the limit, a newline or the end.
LineRead(h, limit) ==
  LET rest == Readable(h, limit)
      nl == FirstIndex(rest, "nl")
      used == IF nl = 0 THEN Len(rest) ELSE nl
      hitEnd == nl = 0 /\ used < limit
  IN [used |-> SubSeq(rest, 1, used),
      handle |-> [h EXCEPT !.pos = @ + used, !.eof = hitEnd]]

\* The C string that is left of the bytes read: strlen stops at a zero byte.
CString(s) == LET nul == FirstIndex(s, "nul") IN IF nul = 0 THEN s ELSE SubSeq(s, 1, nul - 1)

Line(limit) ==
  LET r == LineRead(handle, limit)
  IN [result |-> IF r.used = <<>> THEN False ELSE Text(CString(r.used)), handle |-> r.handle]

Fgets(limit) ==
  /\ Call /\ Open
  /\ handle.flags.read
  /\ LET line == Line(IF limit = 0 THEN DefaultLimit ELSE limit)
     IN got' = line.result /\ handle' = line.handle
  /\ want' = TextOrFalse(RefLine(limit))
  /\ ref' = [ref EXCEPT !.pos = @ + Len(RefLine(limit))]
  /\ UNCHANGED <<disk, object>>

Fwrite(bytes) ==
  /\ Call /\ Open
  /\ IF pphp_fs_write_ok(handle, bytes)
     THEN /\ handle' = pphp_fs_write(handle, bytes)
          /\ got' = Number(Len(bytes)) /\ want' = Number(Len(bytes))
          /\ LET at == IF handle.flags.append THEN Len(ref.data) ELSE ref.pos
             IN ref' = [ref EXCEPT !.data = Written(ref.data, at, bytes), !.pos = at + Len(bytes)]
     ELSE got' = False /\ want' = False /\ UNCHANGED <<handle, ref>>
  /\ UNCHANGED <<disk, object>>

Fseek(offset, whence) ==
  /\ Call /\ Open
  /\ Target(handle, offset, whence) <= Len(handle.data)  \* bound: no holes
  /\ IF Target(handle, offset, whence) < 0
     THEN got' = Number(-1) /\ UNCHANGED handle
     ELSE /\ got' = Number(0)
          /\ handle' = [handle EXCEPT !.pos = Target(handle, offset, whence), !.eof = FALSE]
  /\ IF Target(ref, offset, whence) < 0
     THEN want' = Number(-1) /\ UNCHANGED ref
     ELSE want' = Number(0) /\ ref' = [ref EXCEPT !.pos = Target(ref, offset, whence)]
  /\ UNCHANGED <<disk, object>>

Ftell ==
  /\ Call /\ Open /\ ~handle.flags.append
  /\ got' = Number(handle.pos)
  /\ want' = Number(ref.pos)
  /\ UNCHANGED <<disk, handle, object, ref>>

\* fclose, and file_destroy when the last reference to the resource goes.
Fclose ==
  /\ Call /\ Open
  /\ disk' = pphp_fs_close(handle)
  /\ handle' = NoHandle
  /\ object' = "closed"
  /\ got' = Ok /\ want' = Ok
  /\ UNCHANGED ref

\* Every function on a closed stream is refused before it reaches the file.
UseClosed ==
  /\ Call /\ object = "closed"
  /\ got' = InvalidArguments /\ want' = InvalidArguments
  /\ UNCHANGED <<disk, handle, object, ref>>

\* file_put_contents, with FILE_APPEND or without.
FilePut(bytes, append) ==
  /\ Call /\ object # "open"
  /\ LET h == Opened(IF append THEN "a" ELSE "w")
     IN IF pphp_fs_write_ok(h, bytes)
        THEN /\ disk' = pphp_fs_close(pphp_fs_write(h, bytes))
             /\ got' = Number(Len(bytes)) /\ want' = Number(Len(bytes))
             /\ ref' = [ref EXCEPT !.data = IF append /\ disk # NoFile THEN disk \o bytes ELSE bytes]
        ELSE /\ disk' = pphp_fs_close(h)
             /\ got' = False /\ want' = False
             /\ ref' = [ref EXCEPT !.data = h.data]
  /\ UNCHANGED <<handle, object>>

\* pphp_file_read_all for file_get_contents.
FileGet ==
  /\ Call /\ object # "open"
  /\ got' = IF disk = NoFile THEN False
            ELSE Text(pphp_fs_read([Opened("r") EXCEPT !.pos = 0], Len(disk)).bytes)
  /\ want' = IF disk = NoFile THEN False ELSE Text(ref.data)
  /\ UNCHANGED <<disk, handle, object, ref>>

StreamsInit ==
  /\ disk \in {NoFile} \cup {s \in Contents : Len(s) <= 3}
  /\ handle = NoHandle
  /\ object = "none"
  /\ ref = [data |-> IF disk = NoFile THEN <<>> ELSE disk, pos |-> 0]
  /\ got = Ok /\ want = Ok
  /\ calls = 0

StreamsNext ==
  \/ \E mode \in Modes : Fopen(mode)
  \/ \E n \in Counts : Fread(n)
  \/ \E limit \in Limits : Fgets(limit)
  \/ \E s \in {t \in Contents : Len(t) \in 1 .. 2} : Fwrite(s)
  \/ \E offset \in -1 .. 1, whence \in {"set", "cur", "end"} : Fseek(offset, whence)
  \/ Ftell \/ Fclose \/ UseClosed
  \/ \E s \in {t \in Contents : Len(t) \in 1 .. 2}, append \in BOOLEAN : FilePut(s, append)
  \/ FileGet

StreamsSpec == StreamsInit /\ [][StreamsNext]_streamVars

-----------------------------------------------------------------------------
\* The shape of the state; an open stream has a handle and a closed one none.
StreamsTypeOK ==
  /\ disk \in {NoFile} \cup Contents
  /\ object \in {"none", "open", "closed"}
  /\ (object = "open") <=> (handle.kind = "file")
  /\ object = "open" => handle.data \in Contents /\ handle.pos \in 0 .. MaxSize

\* Whatever reads, writes and seeks came before, every call returns what PHP
\* returns for the same calls.
MatchesPhp == got = want

\* Once no stream is open the flash holds what PHP's file holds.
ClosedFileIsPhps ==
  object # "open" /\ disk # NoFile => disk = ref.data

\* A stream opened for appending only ever adds to the file, wherever a seek
\* has put the position.
AppendKeepsPrefix ==
  object = "open" /\ handle.flags.append /\ disk # NoFile =>
    IsPrefix(disk, handle.data)

\* Streams return what PHP's return and leave PHP's file on the flash; a closed
\* one has no handle and an appending one keeps what was there.
FilesAsPhp == StreamsTypeOK /\ MatchesPhp /\ ClosedFileIsPhps /\ AppendKeepsPrefix
=============================================================================
