------------------------------ MODULE MCDevice ------------------------------
(***************************************************************************)
(* Instances of the modules about the device: its shell, the line editor   *)
(* of its console and the streams of its file system.  A behaviour is of   *)
(* one part, chosen at the start:                                          *)
(*   "shell"    commands and uploads, time-outs and power cuts; two files, *)
(*              a directory that holds a file, room for four bytes;        *)
(*   "patient"  the same with a host that never lets 30 s pass and room   *)
(*              enough on the flash;                                       *)
(*   "editor"   keys, on lines of up to three characters, with a history   *)
(*              of two and three lines entered;                            *)
(*   "streams"  calls on a file of up to three bytes; the default limit of *)
(*              fgets stands for 256.                                      *)
(* The variables of the other modules keep their first values.             *)
(***************************************************************************)
EXTENDS DeviceShell, Streams, LineEditor

VARIABLE part
allVars == <<part, vars, editorVars, streamVars>>

MCNodes == {"a", "b", "d", "x"}
MCParent == [p \in MCNodes |-> IF p = "x" THEN "d" ELSE "/"]
MCInitial == [p \in MCNodes |-> CASE p = "a" -> File(<<"1", "2">>) [] p = "d" -> Dir
                                  [] p = "x" -> File(<<"3">>) [] OTHER -> Absent]
MCPayloads == {<<"u", "nl">>, <<"u", "v">>, <<"u", "OK", "nl">>, <<>>}
MCCommands == {<<"cp", "a", "b">>, <<"cp", "a", "a">>, <<"cp", "a", "x">>, <<"mv", "a", "x">>, <<"mv", "x", "b">>,
               <<"rm", "a">>, <<"rmr", "d">>, <<"mkdir", "b">>, <<"echo", "b", <<"4", "5">>>>}

PatientHost == INSTANCE DeviceShell WITH
  Commands <- {<<"rm", "a">>}, Payloads <- {<<"u", "nl">>, <<"u", "v">>, <<>>}, Capacity <- 5, MaxCommands <- 3, MaxDepth <- 16,
  Patient <- TRUE

MCReplLine == <<"A">>
MCExitLine == <<"B">>

ASSUME StreamsAssumption

-----------------------------------------------------------------------------
MCInit == /\ part \in {"shell", "patient", "editor", "streams"}
          /\ Init /\ EditorInit
          /\ StreamsInit /\ (part # "streams" => disk = NoFile)

ShellDevice == part = "shell" /\ Device /\ UNCHANGED <<part, editorVars, streamVars>>

MCNext ==
  \/ part = "shell" /\ Next /\ UNCHANGED <<part, editorVars, streamVars>>
  \/ part = "patient" /\ PatientHost!Next /\ UNCHANGED <<part, editorVars, streamVars>>
  \/ part = "editor" /\ EditorNext /\ UNCHANGED <<part, vars, streamVars>>
  \/ part = "streams" /\ StreamsNext /\ UNCHANGED <<part, vars, editorVars>>

\* The shell's loop never rests, and its clock goes on.
MCSpec == MCInit /\ [][MCNext]_allVars /\ WF_allVars(ShellDevice)

\* The letters of the cursor keys are also text; C and D are typed as text in
\* no line, and a line is entered with at most two characters, which keeps the
\* lines few.
FewLetters ==
  part = "editor" => /\ ToSet(Content) \subseteq {"A", "B", DEL}
                     /\ \A k \in DOMAIN entered : Len(entered[k]) <= 2

-----------------------------------------------------------------------------
\* No byte of a payload is taken for a command while the host never lets the
\* 30 s of the upload pass and the flash has room (upload_command,
\* src/shell/p2sh_device.c).
PayloadNeverRuns == part = "patient" => DataNeverRuns

\* Whatever the host does or does not send, the prompt comes back (or the
\* power goes): an upload ends after 30 s without a byte.
ShellPromptReturns ==
  [](part = "shell" /\ job.kind \in {"upload", "copy", "remove"}
       => <>(job.kind \in {"prompt", "off"}))

\* The shell stays usable: an upload ends, with or without its bytes, and what
\* was sent for it is never executed.
ShellUsable == ShellPromptReturns /\ []PayloadNeverRuns
=============================================================================
