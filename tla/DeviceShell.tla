----------------------------- MODULE DeviceShell -----------------------------
(***************************************************************************)
(* The shell of the device (src/shell/p2sh_device.c) over littlefs         *)
(* (src/fs/fs_lfs.c), the console between it and a host that runs          *)
(* tools/p2upload.py, and power cuts.                                      *)
(*                                                                         *)
(* Nodes are the paths below /home, with their parent; a node holds        *)
(* nothing, a directory or the bytes of a file.  littlefs and the host are *)
(* external: a file that is open for writing reaches the flash when it is  *)
(* closed, each metadata update is atomic, and the flash can be full.      *)
(***************************************************************************)
EXTENDS Naturals, Sequences, FiniteSets, SequencesExt

CONSTANTS Nodes, Parent,   \* paths and the directory each lies in ("/" is /home)
          Bytes,           \* bytes files may hold; "text" stands for those of a command,
                           \* "OK" for these two letters, "nl" for the end of a line
          Payloads,        \* what the host uploads: sequences of bytes
          Initial,         \* what the flash holds at first
          Capacity,        \* bytes the flash has room for
          Chunk,           \* bytes moved by one turn of a copy loop (256)
          MaxDepth,        \* depth remove_tree accepts (16)
          Commands,        \* the other commands the host types
          MaxCommands,     \* bound: commands typed
          MaxCuts,         \* bound: power cuts
          Patient,         \* TRUE: the host never lets 30 s pass
          Overlaps         \* TRUE: p2upload is started while an earlier one is unanswered

Absent == <<"absent">>
Dir == <<"dir">>
File(s) == <<"file", s>>
IsFile(v) == v[1] = "file"
Data(v) == v[2]
IsContent(v) ==
  v \in {Absent, Dir} \/ (v = File(Data(v)) /\ Data(v) \in Seq(Bytes) /\ Len(Data(v)) <= Capacity)

Places == Nodes \cup {"/"}

\* Moving a directory into itself is left out: littlefs does not say what
\* becomes of it.
IsCommand(c) ==
  \/ c[1] \in {"rm", "rmr", "mkdir"} /\ c[2] \in Places
  \/ c[1] = "cp" /\ c[2] \in Places /\ c[3] \in Places
  \/ /\ c[1] = "mv" /\ c[2] \in Places /\ c[3] \in Places
     /\ c[3] \in Nodes => Parent[c[3]] # c[2]
  \/ c[1] = "echo" /\ c[2] \in Places /\ c[3] \in Seq(Bytes)

ASSUME DeviceShellAssumption ==
  /\ IsFiniteSet(Nodes) /\ "/" \notin Nodes /\ Parent \in [Nodes -> Places]
  /\ {Capacity, MaxDepth, MaxCommands, MaxCuts} \subseteq Nat /\ Chunk \in Nat \ {0}
  /\ Patient \in BOOLEAN /\ Overlaps \in BOOLEAN
  /\ Payloads \subseteq Seq(Bytes) /\ "text" \in Bytes
  /\ \A c \in Commands : IsCommand(c)
  /\ DOMAIN Initial = Nodes
  /\ \A p \in Nodes : /\ IsContent(Initial[p])
                      /\ Initial[p] # Absent /\ Parent[p] # "/" => Initial[Parent[p]] = Dir

VARIABLES flash,    \* what each node holds
          job,      \* what the shell is doing
          typed,    \* bytes typed on the current line
          input,    \* console bytes on their way to the device
          replies,  \* what the host has read since it last cleared its buffer
          host,     \* the host's side of an upload
          saved,    \* the last command, and what each node held when it began
          ranData,  \* bytes of a payload were executed as a command
          commands, cuts

vars == <<flash, job, typed, input, replies, host, saved, ranData, commands, cuts>>

Prompt == [kind |-> "prompt"]
Off == [kind |-> "off"]
NoCommand == <<"none">>
IdleHost == [kind |-> "idle", path |-> "/", payload |-> <<>>, sent |-> 0]

-----------------------------------------------------------------------------
(***************************************************************************)
(* littlefs.                                                               *)
(***************************************************************************)
IsDir(p) == IF p = "/" THEN TRUE ELSE flash[p] = Dir
Exists(p) == p = "/" \/ flash[p] # Absent
Children(p) == {q \in Nodes : Parent[q] = p /\ flash[q] # Absent}

\* Bytes in use when node p, being written, is not counted.
UsedWithout(p) ==
  LET files == {q \in Nodes \ {p} : IsFile(flash[q])}
  IN Cardinality(UNION {{q} \X DOMAIN Data(flash[q]) : q \in files})

CanCreate(p) == p # "/" /\ IsDir(Parent[p]) /\ ~IsDir(p)
HasRoom(p, s) == UsedWithout(p) + Len(s) <= Capacity

\* lfs_remove of a file, or of a directory that is empty.
Removable(p) == p # "/" /\ flash[p] # Absent /\ Children(p) = {}

\* Closing a handle that was opened with "wb" commits what was written.
Commit(p, s) == [flash EXCEPT ![p] = File(s)]

-----------------------------------------------------------------------------
(***************************************************************************)
(* The host.  It types a command when it has seen the prompt, or it runs   *)
(* p2upload, which clears its buffer, types the upload command, waits for  *)
(* READY, writes the payload and reads up to the prompt.                   *)
(***************************************************************************)
LineToken(c) == <<"line", c>>
ByteToken(b) == <<"byte", b>>

Type(c) ==
  /\ commands < MaxCommands
  /\ input = <<>>
  /\ host.kind = "idle"
  /\ job.kind = "prompt"
  /\ input' = <<LineToken(c)>>
  /\ replies' = <<>>
  /\ commands' = commands + 1
  /\ UNCHANGED <<flash, job, typed, host, saved, ranData, cuts>>

StartUpload(p, payload) ==
  /\ commands < MaxCommands
  /\ host.kind = "idle"
  /\ job.kind # "off"
  /\ Overlaps \/ (job.kind = "prompt" /\ input = <<>>)
  /\ input' = Append(input, LineToken(<<"upload", p, Len(payload)>>))
  /\ replies' = <<>>
  /\ host' = [kind |-> "waits", path |-> p, payload |-> payload, sent |-> 0]
  /\ commands' = commands + 1
  /\ UNCHANGED <<flash, job, typed, saved, ranData, cuts>>

HostSeesReady ==
  /\ host.kind = "waits"
  /\ "READY" \in ToSet(replies)
  /\ host' = [host EXCEPT !.kind = "sends"]
  /\ UNCHANGED <<flash, job, typed, input, replies, saved, ranData, commands, cuts>>

HostSends ==
  /\ host.kind = "sends"
  /\ host.sent < Len(host.payload)
  /\ input' = Append(input, ByteToken(host.payload[host.sent + 1]))
  /\ host' = [host EXCEPT !.sent = @ + 1]
  /\ UNCHANGED <<flash, job, typed, replies, saved, ranData, commands, cuts>>

\* It reads the prompt and looks for OK in what came before it.
HostConcludes ==
  /\ host.kind = "sends"
  /\ host.sent = Len(host.payload)
  /\ "prompt" \in ToSet(replies)
  /\ host' = [host EXCEPT !.kind = IF "OK" \in ToSet(replies) THEN "success" ELSE "failure"]
  /\ UNCHANGED <<flash, job, typed, input, replies, saved, ranData, commands, cuts>>

\* The user goes on, or p2upload is killed or gives up waiting.
HostGoesOn ==
  /\ host.kind \in {"success", "failure"} \/ (~Patient /\ host.kind \in {"waits", "sends"})
  /\ host' = IdleHost
  /\ UNCHANGED <<flash, job, typed, input, replies, saved, ranData, commands, cuts>>

-----------------------------------------------------------------------------
(***************************************************************************)
(* pphp_p2sh_execute.                                                      *)
(***************************************************************************)
Say(text) == replies' = replies \o <<text, "prompt">>
Done(text) == job' = Prompt /\ Say(text)

\* upload FILE SIZE: the file is opened before READY is answered.
upload_command(p, size) ==
  IF CanCreate(p)
  THEN /\ job' = [kind |-> "upload", path |-> p, size |-> size, data |-> <<>>]
       /\ replies' = Append(replies, "READY")
       /\ UNCHANGED flash
  ELSE Done("error") /\ UNCHANGED flash

\* echo TEXT > FILE.  A write that fails leaves what was written, closed.
echo_command(p, s) ==
  IF ~CanCreate(p) THEN Done("error") /\ UNCHANGED flash
  ELSE IF HasRoom(p, s) THEN flash' = Commit(p, s) /\ Done("")
  ELSE flash' = Commit(p, <<>>) /\ Done("error")

\* cp: copy_file opens both and then moves one buffer after the other.
cp_command(p, q) ==
  IF p # "/" /\ IsFile(flash[p]) /\ CanCreate(q)
  THEN /\ job' = [kind |-> "copy", from |-> Data(flash[p]), path |-> q, data |-> <<>>]
       /\ UNCHANGED <<flash, replies>>
  ELSE Done("error") /\ UNCHANGED flash

\* lfs_rename replaces a file or an empty directory of the same kind.  A
\* directory is moved only when it is empty (bound: nodes keep their parents).
mv_command(p, q) ==
  IF /\ Exists(p) /\ p # "/" /\ q # "/" /\ IsDir(Parent[q])
     /\ flash[q] = Absent \/ (IsFile(flash[p]) /\ IsFile(flash[q])) \/ (IsDir(p) /\ IsDir(q) /\ Children(q) = {})
     /\ Children(p) = {}
  THEN /\ flash' = IF p = q THEN flash ELSE [flash EXCEPT ![q] = flash[p], ![p] = Absent]
       /\ Done("")
  ELSE Done("error") /\ UNCHANGED flash

mkdir_command(p) ==
  IF p # "/" /\ ~Exists(p) /\ IsDir(Parent[p])
  THEN flash' = [flash EXCEPT ![p] = Dir] /\ Done("")
  ELSE Done("error") /\ UNCHANGED flash

\* rm: pphp_fs_remove refuses directories.
rm_command(p) ==
  IF p # "/" /\ IsFile(flash[p])
  THEN flash' = [flash EXCEPT ![p] = Absent] /\ Done("")
  ELSE Done("error") /\ UNCHANGED flash

\* rm -r: remove_tree keeps the directories it is in as a stack.
rmr_command(p) ==
  /\ job' = [kind |-> "remove", stack |-> <<p>>, top |-> p]
  /\ UNCHANGED <<flash, replies>>

Execute(c) ==
  CASE c[1] = "upload" -> upload_command(c[2], c[3])
    [] c[1] = "echo" -> echo_command(c[2], c[3])
    [] c[1] = "cp" -> cp_command(c[2], c[3])
    [] c[1] = "mv" -> mv_command(c[2], c[3])
    [] c[1] = "mkdir" -> mkdir_command(c[2])
    [] c[1] = "rm" -> rm_command(c[2])
    [] c[1] = "rmr" -> rmr_command(c[2])

\* The main loop has a whole line: a command, unless other bytes came before
\* it on the line, which makes it an unknown command.
ReadLine ==
  /\ job.kind = "prompt"
  /\ input # <<>>
  /\ Head(input)[1] = "line"
  /\ input' = Tail(input)
  /\ saved' = [flash |-> flash, command |-> IF typed = <<>> THEN Head(input)[2] ELSE NoCommand]
  /\ IF typed = <<>> THEN Execute(Head(input)[2]) /\ UNCHANGED ranData
     ELSE Done("error") /\ ranData' = TRUE /\ UNCHANGED flash
  /\ typed' = <<>>
  /\ UNCHANGED <<host, commands, cuts>>

\* The console echoes what is typed and the end of the line.  The host looks
\* for OK and the end of a line, wherever they come from; the line of an upload
\* command ends in a number.
Echo(line) == IF line # <<>> /\ Last(line) = "OK" THEN <<"OK">> ELSE <<>>

\* A byte of a payload that arrives at the prompt is typed text; an empty line
\* has no answer but the prompt.
ReadByte ==
  /\ job.kind = "prompt"
  /\ input # <<>>
  /\ Head(input)[1] = "byte"
  /\ input' = Tail(input)
  /\ IF Head(input)[2] = "nl"
     THEN /\ typed' = <<>> /\ ranData' = (ranData \/ typed # <<>>)
          /\ replies' = replies \o Echo(typed) \o (IF typed = <<>> THEN <<"prompt">> ELSE <<"error", "prompt">>)
     ELSE typed' = Append(typed, Head(input)[2]) /\ UNCHANGED <<ranData, replies>>
  /\ UNCHANGED <<flash, job, host, saved, commands, cuts>>

-----------------------------------------------------------------------------
\* The loop of upload_command: what the console holds is data, whatever it is.
UploadReads ==
  /\ job.kind = "upload"
  /\ Len(job.data) < job.size
  /\ input # <<>>
  /\ input' = Tail(input)
  /\ LET byte == IF Head(input)[1] = "byte" THEN Head(input)[2] ELSE "text"
     IN IF HasRoom(job.path, Append(job.data, byte))
        THEN job' = [job EXCEPT !.data = Append(@, byte)] /\ UNCHANGED <<flash, replies>>
        ELSE flash' = Commit(job.path, job.data) /\ Done("error")
  /\ UNCHANGED <<typed, host, saved, ranData, commands, cuts>>

\* Mutant: there is no deadline.
UploadWaits == FALSE

\* Nothing came for 30 seconds.
UploadTimesOut ==
  /\ job.kind = "upload"
  /\ Len(job.data) < job.size
  /\ input = <<>>
  /\ Patient => host.kind \notin {"waits", "sends"}
  /\ flash' = Commit(job.path, job.data)
  /\ Done("error")
  /\ UNCHANGED <<typed, input, host, saved, ranData, commands, cuts>>

UploadCloses ==
  /\ job.kind = "upload"
  /\ Len(job.data) = job.size
  /\ flash' = Commit(job.path, job.data)
  /\ Done("OK")
  /\ UNCHANGED <<typed, input, host, saved, ranData, commands, cuts>>

\* Mutant: a failed write ends the copy as if the end had been reached.
CopyIgnoresErrors ==
  /\ job.kind = "copy"
  /\ LET rest == SubSeq(job.from, Len(job.data) + 1, Len(job.from))
         some == SubSeq(rest, 1, IF Chunk < Len(rest) THEN Chunk ELSE Len(rest))
     IN IF rest # <<>> /\ HasRoom(job.path, job.data \o some)
        THEN job' = [job EXCEPT !.data = @ \o some] /\ UNCHANGED <<flash, replies>>
        ELSE flash' = Commit(job.path, job.data) /\ Done("")
  /\ UNCHANGED <<typed, input, host, saved, ranData, commands, cuts>>

\* One turn of the loop of copy_file, or its end.
CopyStep ==
  /\ job.kind = "copy"
  /\ LET rest == SubSeq(job.from, Len(job.data) + 1, Len(job.from))
         some == SubSeq(rest, 1, IF Chunk < Len(rest) THEN Chunk ELSE Len(rest))
     IN IF rest = <<>> THEN flash' = Commit(job.path, job.data) /\ Done("")
        ELSE IF HasRoom(job.path, job.data \o some)
        THEN job' = [job EXCEPT !.data = @ \o some] /\ UNCHANGED <<flash, replies>>
        ELSE flash' = Commit(job.path, job.data) /\ Done("error")
  /\ UNCHANGED <<typed, input, host, saved, ranData, commands, cuts>>

\* Mutant: after the last entry the directory above is read on and removed.
RemoveClimbs ==
  /\ job.kind = "remove"
  /\ LET p == Last(job.stack)
         rise == job' = [job EXCEPT !.stack = <<IF p = "/" THEN "/" ELSE Parent[p]>>] /\ UNCHANGED replies
     IN IF p # "/" /\ Removable(p)
        THEN flash' = [flash EXCEPT ![p] = Absent] /\ rise
        ELSE IF Children(p) # {}
        THEN /\ \E q \in Children(p) : job' = [job EXCEPT !.stack = Append(@, q)]
             /\ UNCHANGED <<flash, replies>>
        ELSE Done("error") /\ UNCHANGED flash
  /\ UNCHANGED <<typed, input, host, saved, ranData, commands, cuts>>

\* One call of remove_tree: an entry is a file that goes, a directory that is
\* entered, or - when nothing is left in it - a directory that goes.
RemoveStep ==
  /\ job.kind = "remove"
  /\ LET p == Last(job.stack)
         up == SubSeq(job.stack, 1, Len(job.stack) - 1)
         rise == IF up = <<>> THEN Done("") ELSE job' = [job EXCEPT !.stack = up] /\ UNCHANGED replies
     IN IF ~IsDir(p)
        THEN IF p # "/" /\ IsFile(flash[p])
             THEN flash' = [flash EXCEPT ![p] = Absent] /\ rise
             ELSE Done("error") /\ UNCHANGED flash
        ELSE IF Len(job.stack) > MaxDepth THEN Done("error") /\ UNCHANGED flash
        ELSE IF Children(p) # {}
        THEN /\ \E q \in Children(p) : job' = [job EXCEPT !.stack = Append(@, q)]
             /\ UNCHANGED <<flash, replies>>
        ELSE IF Removable(p)
        THEN flash' = [flash EXCEPT ![p] = Absent] /\ rise
        ELSE Done("error") /\ UNCHANGED flash
  /\ UNCHANGED <<typed, input, host, saved, ranData, commands, cuts>>

-----------------------------------------------------------------------------
\* The power goes: what was not on the flash is lost, the console too.
PowerCut ==
  /\ job.kind # "off"
  /\ cuts < MaxCuts
  /\ cuts' = cuts + 1
  /\ job' = Off /\ typed' = <<>> /\ input' = <<>> /\ replies' = <<>>
  /\ host' = IF host.kind \in {"waits", "sends"} THEN IdleHost ELSE host
  /\ UNCHANGED <<flash, saved, ranData, commands>>

\* pphp_fs_mount and the shell's first prompt.
Boot ==
  /\ job.kind = "off"
  /\ job' = Prompt
  /\ replies' = <<"prompt">>
  /\ UNCHANGED <<flash, typed, input, host, saved, ranData, commands, cuts>>

Init ==
  /\ flash = Initial
  /\ job = Off /\ typed = <<>> /\ input = <<>> /\ replies = <<>>
  /\ host = IdleHost
  /\ saved = [flash |-> Initial, command |-> NoCommand]
  /\ ranData = FALSE
  /\ commands = 0 /\ cuts = 0

Device == ReadLine \/ ReadByte \/ UploadReads \/ UploadTimesOut \/ UploadCloses
            \/ CopyStep \/ RemoveStep \/ Boot

Next ==
  \/ \E c \in Commands : Type(c)
  \/ \E p \in Nodes, s \in Payloads : StartUpload(p, s)
  \/ HostSeesReady \/ HostSends \/ HostConcludes \/ HostGoesOn
  \/ ReadLine \/ ReadByte \/ UploadReads \/ UploadTimesOut \/ UploadCloses
  \/ CopyStep \/ RemoveStep \/ Boot
  \/ PowerCut

\* The shell's loop never rests, and its clock goes on.
Spec == Init /\ [][Next]_vars /\ WF_vars(Device)

-----------------------------------------------------------------------------
\* The shape of the state; no upload has more bytes than were announced, and
\* it is to a place where a file can be.
TypeOK ==
  /\ \A p \in Nodes : IsContent(flash[p])
  /\ job.kind \in {"off", "prompt", "upload", "copy", "remove"}
  /\ job.kind = "upload" => Len(job.data) <= job.size /\ CanCreate(job.path)
  /\ host.kind \in {"idle", "waits", "sends", "success", "failure"}
  /\ host.sent <= Len(host.payload)

\* A line of the payload ends in OK.  When the upload fails and the console
\* echoes that line, p2upload takes it for the answer.
SaysOK(payload) == "OK" \in ToSet(payload)

\* When p2upload says that it has uploaded the file, the file on the flash is
\* the payload: no lost prompt, power cut, time-out, echo of the rest or earlier
\* attempt that was killed and tried again makes it say so of anything else,
\* unless the payload itself says OK.
HostIsRight ==
  host.kind = "success" /\ ~SaysOK(host.payload) => flash[host.path] = File(host.payload)

\* The node p and all that lies below it: every set of nodes that has p and,
\* with a node, its entries, has them.
Closed(S, p) == \A q \in Nodes : q = p \/ Parent[q] \in S \cup {p} => q \in S
Below(p) == {q \in Nodes : \A S \in SUBSET Nodes : Closed(S, p) => q \in S}

Targets(c) == CASE c[1] = "none" -> {}
                [] c[1] = "rmr" -> Below(c[2])
                [] c[1] = "cp" -> {c[3]}
                [] c[1] = "mv" -> {c[2], c[3]}
                [] OTHER -> {c[2]}

\* A command, an upload that was interrupted and a power cut at any point of
\* them change nothing but the file or directory the command is about.
OnlyTargetChanges ==
  \A q \in Nodes \ Targets(saved.command) : flash[q] = saved.flash[q]

\* What exists lies in a directory that exists.
TreeIsWhole ==
  \A p \in Nodes : flash[p] # Absent => IsDir(Parent[p])

Answered(text) == job.kind = "prompt" /\ text \in ToSet(replies)

\* A command that was answered without an error has done all it says: a copy
\* is complete and its source unchanged, and nothing is left of a removed tree.
AnsweredMeansDone ==
  Answered("") =>
    LET c == saved.command
    IN /\ c[1] = "cp" => flash[c[3]] = saved.flash[c[2]] /\ (c[2] # c[3] => flash[c[2]] = saved.flash[c[2]])
       /\ c[1] = "rmr" => \A q \in Below(c[2]) : flash[q] = Absent
       /\ c[1] = "echo" => flash[c[2]] = File(c[3])
       /\ c[1] = "mv" => flash[c[3]] = saved.flash[c[2]]

\* What a command that fails leaves: a copy, an upload or a text that is cut off
\* at some point, a tree of which some is gone, or everything as it was.
LeavesPart ==
  LET c == saved.command
  IN \/ flash = saved.flash
     \/ c[1] = "cp" /\ IsFile(flash[c[3]]) /\ IsStrictPrefix(Data(flash[c[3]]), Data(saved.flash[c[2]]))
     \/ c[1] = "upload" /\ IsFile(flash[c[2]]) /\ Len(Data(flash[c[2]])) < c[3]
     \/ c[1] = "echo" /\ flash[c[2]] = File(<<>>)
     \/ c[1] = "rmr" /\ \A q \in Nodes : flash[q] \in {saved.flash[q], Absent}

\* A command that is answered with an error leaves no more than a part of what
\* it was to do (upload_command, copy_file, echo_command and remove_tree,
\* src/shell/p2sh_device.c): never a file that looks complete or that holds
\* anything else.
FailuresLeavePart ==
  [][Done("error") /\ (job.kind # "prompt" \/ saved' # saved) => LeavesPart']_vars

\* Interrupted or not, a command changes nothing but its target, and what
\* exists lies in a directory that exists.
OthersIntact == TypeOK /\ OnlyTargetChanges /\ TreeIsWhole

\* An answer tells the truth: p2upload's success and a command's answer mean
\* that the file is there, whole; a failure leaves no more than a part.
AnswersAreTrue == [](AnsweredMeansDone /\ HostIsRight) /\ FailuresLeavePart

\* No byte of a payload is taken for a command.
DataNeverRuns == ~ranData

\* Whatever the host does or does not send, the prompt comes back (or the
\* power goes): an upload ends after 30 s without a byte.
PromptReturns ==
  [](job.kind \in {"upload", "copy", "remove"} => <>(job.kind \in {"prompt", "off"}))
=============================================================================
