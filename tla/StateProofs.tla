-------------------------- MODULE StateProofs -----------------------------
(***************************************************************************)
(* include_once through nested VMs, for any number of files, VMs and       *)
(* tables: a file that is marked as included is neither run again nor run  *)
(* inside itself, whichever includes fail and are rolled back, whatever    *)
(* callbacks and destructors run in between, and when the state is closed. *)
(*                                                                         *)
(* The end of a chunk and of a state, for any number of classes, variables *)
(* and objects: every destructor runs while what it needs is there.        *)
(*                                                                         *)
(* Lookups of classes and functions, and the owners of modules, for any of *)
(* them, any files and chunks and any capacities, with at most one VM      *)
(* nested in another.                                                      *)
(***************************************************************************)
EXTENDS Definitions, Shutdown, SymbolProofs, FiniteSetTheorems, WellFoundedInduction, TLAPS

Fields == {"kind", "classes", "mods", "module", "code", "file", "once", "start"}

\* The stack is a sequence of structures; only the one the embedder opened is
\* never an include, and nothing runs on a closed state.
Stack ==
  /\ IsSeq(vms) /\ Len(vms) > 0
  /\ \A i \in 1 .. Len(vms) : DOMAIN vms[i] = Fields /\ vms[i].once \in BOOLEAN
  /\ Root.kind \notin {"include", "invoke"}
  /\ Root.kind = "closed" => Len(vms) = 1 /\ Root.module = 0

RunsOnce(i) == vms[i].kind = "include" /\ vms[i].once

\* A file being run once is marked and has not been completed, two of them
\* are different, and until pphp_close a completed one stays marked.
Marked ==
  /\ \A i \in 1 .. Len(vms) : RunsOnce(i) => vms[i].file \in included \ done
  /\ \A i, j \in 1 .. Len(vms) : i # j /\ RunsOnce(i) /\ RunsOnce(j) => vms[i].file # vms[j].file
  /\ Root.kind # "closed" => done \subseteq included

OnceInv == Stack /\ Marked

-----------------------------------------------------------------------------
(* What the steps do to the stack.                                         *)

\* The stack has lost VMs beyond n, if any, and kept the includes below.
Same(n) ==
  /\ n \in 1 .. Len(vms)
  /\ IsSeq(vms') /\ Len(vms') = n
  /\ \A i \in 1 .. n : /\ DOMAIN vms'[i] = Fields /\ vms'[i].once \in BOOLEAN
                       /\ RunsOnce(i)' <=> RunsOnce(i)
                       /\ RunsOnce(i) => vms'[i].file = vms[i].file
  /\ Root'.kind \notin {"include", "invoke"}
  /\ Root'.kind = "closed" <=> Root.kind = "closed"
  /\ Root.kind = "closed" => Root'.module = Root.module

LEMMA SameKeeps ==
  ASSUME OnceInv, NEW n, Same(n), UNCHANGED <<included, done>>
  PROVE  OnceInv'
<1>1. Len(vms') = n /\ n \in 1 .. Len(vms) /\ 1 \in 1 .. n
  BY SeqIs DEF Same, OnceInv, Stack
<1>2. \A i \in 1 .. n : i \in 1 .. Len(vms)
  BY <1>1, SeqIs DEF OnceInv, Stack
<1>3. Stack'
  <2>1. Len(vms') > 0
    BY <1>1, SeqIs DEF OnceInv, Stack
  <2>2. ASSUME Root'.kind = "closed" PROVE Len(vms') = 1
    BY <1>1, <2>2, SeqIs DEF OnceInv, Stack, Same
  <2> QED
    BY <1>1, <1>2, <2>1, <2>2 DEF Same, OnceInv, Stack
<1>4. Marked'
  BY <1>1, <1>2 DEF Same, OnceInv, Marked
<1> QED
  BY <1>3, <1>4 DEF OnceInv

\* A stack with one element that is no include_once.
LEMMA AloneKeeps ==
  ASSUME OnceInv, NEW vm, vms' = <<vm>>, DOMAIN vm = Fields,
         vm.kind \notin {"include", "invoke", "closed"}, vm.once \in BOOLEAN, Root.kind # "closed",
         UNCHANGED <<included, done>>
  PROVE  OnceInv'
<1>1. IsSeq(vms') /\ Len(vms') = 1 /\ vms'[1] = vm
  BY OneIs
<1>2. Stack'
  BY <1>1 DEF Stack, Root
<1>3. Marked'
  BY <1>1 DEF OnceInv, Marked, RunsOnce, Root
<1> QED
  BY <1>2, <1>3 DEF OnceInv

\* One more VM, which is no include_once.
LEMMA PushKeeps ==
  ASSUME OnceInv, NEW vm, vms' = Append(vms, vm), DOMAIN vm = Fields,
         vm.kind = "invoke", vm.once \in BOOLEAN, Root.kind # "closed",
         UNCHANGED <<included, done>>
  PROVE  OnceInv'
<1> DEFINE n == Len(vms)
<1>1. n \in Nat \ {0} /\ IsSeq(vms)
  BY SeqIs DEF OnceInv, Stack
<1>2. /\ IsSeq(vms')
      /\ Len(vms') = n + 1
      /\ \A i \in 1 .. n : vms'[i] = vms[i]
      /\ vms'[n + 1] = vm
  BY <1>1, AppendIs
<1> HIDE DEF n
<1>3. Stack'
  <2>1. Len(vms') > 0 /\ 1 \in 1 .. n
    BY <1>1, <1>2
  <2>2. ASSUME NEW i \in 1 .. Len(vms')
        PROVE  DOMAIN vms'[i] = Fields /\ vms'[i].once \in BOOLEAN
    <3>1. i \in 1 .. n \/ i = n + 1
      BY <1>1, <1>2
    <3> QED
      BY <3>1, <1>2 DEF OnceInv, Stack, n
  <2> QED
    BY <1>2, <2>1, <2>2 DEF OnceInv, Stack, Root
<1>4. \A i \in 1 .. Len(vms') : RunsOnce(i)' => i \in 1 .. n /\ RunsOnce(i) /\ vms'[i] = vms[i]
  BY <1>1, <1>2 DEF RunsOnce
<1>5. Marked'
  BY <1>1, <1>2, <1>4 DEF OnceInv, Marked, Root, n
<1> QED
  BY <1>3, <1>5 DEF OnceInv

\* Popping the running VM and changing fields of the root that includes do
\* not depend on.
LEMMA PopIs ==
  ASSUME OnceInv, Len(vms) > 1, NEW root, DOMAIN root = Fields,
         root.kind = Root.kind, root.once = Root.once, root.file = Root.file,
         vms' = Replaced(SubSeq(vms, 1, Top - 1), 1, root)
  PROVE  Same(Len(vms) - 1)
<1> DEFINE s == SubSeq(vms, 1, Len(vms) - 1)
<1>1. Len(vms) \in Nat /\ IsSeq(vms)
  BY SeqIs DEF OnceInv, Stack
<1>2. IsSeq(s) /\ Len(s) = Len(vms) - 1 /\ \A i \in 1 .. Len(vms) - 1 : s[i] = vms[i]
  BY <1>1, FrontIs
<1>3. vms' = Replaced(s, 1, root)
  BY DEF Top
<1> HIDE DEF s
<1>4. 1 \in 1 .. Len(s)
  BY <1>1, <1>2
<1>5. /\ IsSeq(vms') /\ Len(vms') = Len(s) /\ vms'[1] = root
      /\ \A i \in 1 .. Len(s) : i # 1 => vms'[i] = s[i]
  BY <1>2, <1>3, <1>4, ReplacedIs
<1>6. ASSUME NEW i \in 1 .. Len(vms) - 1
      PROVE  /\ DOMAIN vms'[i] = Fields /\ vms'[i].once \in BOOLEAN
             /\ vms'[i].kind = vms[i].kind /\ vms'[i].once = vms[i].once
             /\ vms'[i].file = vms[i].file
  <2>1. i \in 1 .. Len(vms)
    BY <1>1
  <2>2. CASE i = 1
    BY <2>1, <2>2, <1>5 DEF Root, OnceInv, Stack
  <2>3. CASE i # 1
    <3>1. vms'[i] = vms[i]
      BY <2>3, <1>2, <1>5
    <3> QED
      BY <2>1, <3>1 DEF OnceInv, Stack
  <2> QED
    BY <2>2, <2>3
<1>7. Len(vms) - 1 \in 1 .. Len(vms) /\ Root.kind # "closed"
  BY <1>1 DEF OnceInv, Stack
<1> QED
  BY <1>2, <1>5, <1>6, <1>7 DEF Same, Root, RunsOnce, OnceInv, Stack

\* Changing fields of one VM that includes do not depend on.
LEMMA TouchIs ==
  ASSUME OnceInv, NEW k \in 1 .. Len(vms), NEW vm, DOMAIN vm = Fields,
         vm.kind = vms[k].kind, vm.once = vms[k].once, vm.file = vms[k].file,
         vm.module = vms[k].module, vms' = Replaced(vms, k, vm)
  PROVE  Same(Len(vms))
<1>1. Len(vms) \in Nat \ {0} /\ IsSeq(vms)
  BY SeqIs DEF OnceInv, Stack
<1>2. IsSeq(vms') /\ Len(vms') = Len(vms) /\ vms'[k] = vm
      /\ \A i \in 1 .. Len(vms) : i # k => vms'[i] = vms[i]
  BY <1>1, ReplacedIs
<1>3. ASSUME NEW i \in 1 .. Len(vms)
      PROVE  /\ DOMAIN vms'[i] = Fields /\ vms'[i].kind = vms[i].kind
             /\ vms'[i].once = vms[i].once /\ vms'[i].file = vms[i].file
             /\ vms'[i].module = vms[i].module
  <2>1. CASE i = k
    BY <2>1, <1>2
  <2>2. CASE i # k
    BY <2>2, <1>2 DEF OnceInv, Stack
  <2> QED
    BY <2>1, <2>2
<1>4. 1 \in 1 .. Len(vms) /\ Len(vms) \in 1 .. Len(vms)
  BY <1>1
<1> QED
  BY <1>2, <1>3, <1>4 DEF Same, Root, RunsOnce, OnceInv, Stack

-----------------------------------------------------------------------------
(* The steps.                                                              *)

LEMMA Positions ==
  ASSUME OnceInv
  PROVE  /\ Len(vms) \in Nat \ {0} /\ IsSeq(vms) /\ 1 \in 1 .. Len(vms) /\ Top \in 1 .. Len(vms)
         /\ DOMAIN Running = Fields /\ DOMAIN Root = Fields
         /\ Running.once \in BOOLEAN /\ Root.once \in BOOLEAN
         /\ Executing => Root.kind # "closed"
         /\ Running.kind \in {"include", "invoke"} => Len(vms) > 1
         /\ Running.kind # "closed" => Root.kind # "closed"
<1>1. Len(vms) \in Nat \ {0} /\ IsSeq(vms)
  BY SeqIs DEF OnceInv, Stack
<1>2. 1 \in 1 .. Len(vms) /\ Top \in 1 .. Len(vms)
  BY <1>1 DEF Top
<1> QED
  BY <1>1, <1>2 DEF OnceInv, Stack, Root, Running, Executing, Top

LEMMA DefineSteps ==
  ASSUME OnceInv, NEW x, DefineClass(x) \/ DefineFunction(x)
  PROVE  OnceInv'
<1>1. CASE DefineClass(x)
  <2> DEFINE table == Grow(Running.classes, <<x, Running.code>>, FirstClasses).table
             vm == [Running EXCEPT !.classes = table]
  <2>1. vms' = Replaced(vms, Top, vm) /\ UNCHANGED <<included, done>>
    BY <1>1 DEF DefineClass, Running, Replaced
  <2>2. DOMAIN vm = Fields /\ vm.kind = Running.kind /\ vm.once = Running.once
        /\ vm.file = Running.file /\ vm.module = Running.module
    BY Positions DEF Fields
  <2> HIDE DEF vm
  <2>3. Same(Len(vms))
    BY <2>1, <2>2, Positions, TouchIs DEF Running
  <2> QED
    BY <2>1, <2>3, SameKeeps
<1>2. CASE DefineFunction(x)
  BY <1>2 DEF DefineFunction, OnceInv, Stack, Marked, RunsOnce, Root
<1> QED
  BY <1>1, <1>2

LEMMA StartInvokeStep ==
  ASSUME OnceInv, NEW vm \in {Root, Running}, NEW kind, Root.kind # "closed", StartInvoke(vm, kind)
  PROVE  OnceInv'
<1> DEFINE child == ChildOf(vm, kind)
<1>1. DOMAIN child = Fields /\ child.kind = "invoke" /\ child.once \in BOOLEAN
  BY Positions DEF ChildOf, Fields
<1>2. vms' = Append(vms, child) /\ UNCHANGED <<included, done>>
  BY DEF StartInvoke
<1> HIDE DEF child
<1> QED
  BY <1>1, <1>2, PushKeeps

\* The root with the classes of the VM that ends.
Handed == [Root EXCEPT !.classes = Running.classes]

LEMMA HandedIs ==
  ASSUME OnceInv
  PROVE  /\ DOMAIN Handed = Fields /\ Handed.kind = Root.kind /\ Handed.once = Root.once
         /\ Handed.file = Root.file /\ Handed.module = Root.module
BY Positions DEF Handed, Fields

\* What FinishInvoke and FinishInclude leave of the stack.
LEMMA PopHanded ==
  ASSUME OnceInv, Len(vms) > 1,
         vms' = [SubSeq(vms, 1, Top - 1) EXCEPT ![1].classes = Running.classes]
  PROVE  Same(Len(vms) - 1)
<1> DEFINE s == SubSeq(vms, 1, Top - 1)
<1>1. s[1] = Root
  <2>1. Top - 1 = Len(vms) - 1 /\ 1 \in 1 .. Len(vms) - 1
    BY Positions DEF Top
  <2> QED
    BY <2>1, Positions, FrontIs DEF Root
<1>2. vms' = Replaced(s, 1, [s[1] EXCEPT !.classes = Running.classes])
  BY DEF Replaced
<1>3. vms' = Replaced(SubSeq(vms, 1, Top - 1), 1, Handed)
  BY <1>1, <1>2 DEF Handed
<1> QED
  BY <1>3, HandedIs, PopIs

LEMMA FinishInvokeStep ==
  ASSUME OnceInv, FinishInvoke
  PROVE  OnceInv'
BY PopHanded, Positions, SameKeeps DEF FinishInvoke

\* The file of the VM that ends joins the completed ones; it is none of those
\* that still run.
LEMMA FinishIncludeStep ==
  ASSUME OnceInv, FinishInclude
  PROVE  OnceInv'
<1> DEFINE n == Len(vms) - 1
<1>1. Same(n)
  BY PopHanded, Positions DEF FinishInclude
<1>2. CASE ~Running.once
  BY <1>1, <1>2, SameKeeps, Positions DEF FinishInclude
<1>3. CASE Running.once
  <2>1. /\ included' = included /\ done' = done \cup {Running.file}
        /\ RunsOnce(Top) /\ Top \in 1 .. Len(vms) /\ Running = vms[Top]
        /\ Root.kind # "closed"
    BY <1>3, Positions DEF FinishInclude, RunsOnce, Running
  <2>2. n \in 1 .. Len(vms) /\ n \in Nat /\ 1 \in 1 .. n /\ \A i \in 1 .. n : i \in 1 .. Len(vms) /\ i # Top
    BY <1>1, Positions DEF Top, Same
  <2> HIDE DEF n
  <2>3. Stack'
    BY <1>1, <2>1, <2>2 DEF Same, OnceInv, Stack
  <2>4. ASSUME NEW i \in 1 .. n, RunsOnce(i)'
        PROVE  vms'[i].file \in included' \ done'
    <3>1. RunsOnce(i) /\ vms'[i].file = vms[i].file
      BY <1>1, <2>4 DEF Same
    <3>2. vms[i].file \in included \ done /\ vms[i].file # vms[Top].file
      BY <2>1, <2>2, <3>1 DEF OnceInv, Marked
    <3> QED
      BY <2>1, <3>1, <3>2
  <2>5. \A i, j \in 1 .. n : i # j /\ RunsOnce(i)' /\ RunsOnce(j)' => vms'[i].file # vms'[j].file
    BY <1>1, <2>2 DEF Same, OnceInv, Marked
  <2>6. done' \subseteq included'
    BY <2>1 DEF OnceInv, Marked
  <2>7. Marked'
    BY <1>1, <2>4, <2>5, <2>6 DEF Marked, Same
  <2> QED
    BY <2>3, <2>7 DEF OnceInv
<1> QED
  BY <1>2, <1>3, Positions

\* The file that failed is unmarked; no other VM runs it once.
LEMMA FailIncludeStep ==
  ASSUME OnceInv, FailInclude
  PROVE  OnceInv'
<1> DEFINE n == Len(vms)
           vm == [Running EXCEPT !.kind = "rollback", !.start.class_end = Running.classes.n]
           s == Replaced(vms, 1, Handed)
<1>1. n > 1 /\ n \in Nat /\ IsSeq(vms) /\ Top = n /\ Running.kind = "include" /\ Root.kind # "closed"
      /\ 1 \in 1 .. n /\ n \in 1 .. n
  BY Positions DEF FailInclude, Top
<1>2. IsSeq(s) /\ Len(s) = n /\ s[1] = Handed /\ \A i \in 1 .. n : i # 1 => s[i] = vms[i]
  BY <1>1, ReplacedIs
<1>3. vms' = Replaced(s, Top, vm)
  <2>1. vms' = [[vms EXCEPT ![1] = Handed] EXCEPT ![Top] = vm]
    BY <1>1 DEF FailInclude, Handed, Running, Root
  <2> QED
    BY <2>1 DEF Replaced
<1>4. DOMAIN vm = Fields /\ vm.kind = "rollback" /\ vm.once = Running.once
  BY Positions DEF Fields
<1> HIDE DEF n, vm, s
<1>5. IsSeq(vms') /\ Len(vms') = n /\ vms'[n] = vm /\ \A i \in 1 .. n : i # n => vms'[i] = s[i]
  BY <1>1, <1>2, <1>3, ReplacedIs
<1>6. ASSUME NEW i \in 1 .. n
      PROVE  /\ DOMAIN vms'[i] = Fields /\ vms'[i].once \in BOOLEAN
             /\ RunsOnce(i)' => i # n /\ RunsOnce(i) /\ vms'[i].file = vms[i].file
  <2>1. CASE i = n
    BY <2>1, <1>4, <1>5, Positions DEF RunsOnce
  <2>2. CASE i # n /\ i = 1
    BY <2>2, <1>2, <1>5, HandedIs, Positions DEF RunsOnce, Root
  <2>3. CASE i # n /\ i # 1
    BY <2>3, <1>2, <1>5 DEF RunsOnce, OnceInv, Stack, n
  <2> QED
    BY <2>1, <2>2, <2>3
<1>7. Root'.kind = Root.kind
  BY <1>1, <1>2, <1>5, HandedIs DEF Root
<1>8. Stack'
  BY <1>1, <1>5, <1>6, <1>7 DEF OnceInv, Stack
<1>9. included' = (IF Running.once THEN included \ {vms[n].file} ELSE included) /\ done' = done
      /\ (Running.once => RunsOnce(n))
  BY <1>1 DEF FailInclude, Running, RunsOnce
<1>10. Marked'
  <2>1. ASSUME NEW i \in 1 .. n, RunsOnce(i)'
        PROVE  vms'[i].file \in included' \ done'
    <3>1. RunsOnce(i) /\ vms'[i].file = vms[i].file /\ vms[i].file \in included \ done
      BY <1>6, <2>1 DEF OnceInv, Marked, n
    <3>2. Running.once => vms[i].file # vms[n].file
      BY <1>1, <1>6, <1>9, <2>1, <3>1 DEF OnceInv, Marked, n
    <3> QED
      BY <1>9, <3>1, <3>2, Positions
  <2>2. \A i, j \in 1 .. n : i # j /\ RunsOnce(i)' /\ RunsOnce(j)' => vms'[i].file # vms'[j].file
    BY <1>6 DEF OnceInv, Marked, n
  <2>3. done' \subseteq included'
    BY <1>1, <1>9, Positions DEF OnceInv, Marked, n
  <2> QED
    BY <1>5, <2>1, <2>2, <2>3 DEF Marked
<1> QED
  BY <1>8, <1>10 DEF OnceInv

\* A file is marked before it runs, and is run once only if it was not.
LEMMA IncludeStep ==
  ASSUME OnceInv, NEW file, NEW once \in BOOLEAN, Include(file, once)
  PROVE  OnceInv'
<1> DEFINE n == Len(vms)
           m == Len(modules) + 1
           table == Grow(Root.mods, m, FirstModules).table
           owner == [Root EXCEPT !.mods = table]
           child == [owner EXCEPT !.kind = "include", !.module = m, !.code = m, !.file = file,
                                  !.once = once, !.start = checkpoint_definitions(Root)]
           s == Replaced(vms, 1, owner)
<1>1. n \in Nat \ {0} /\ IsSeq(vms) /\ 1 \in 1 .. n /\ Root.kind # "closed"
  BY Positions DEF Include
<1>2. vms' = Append(s, child)
  BY DEF Include, Replaced
<1>3. DOMAIN owner = Fields /\ owner.kind = Root.kind /\ owner.once = Root.once
  BY Positions DEF Fields
<1>4. DOMAIN child = Fields /\ child.kind = "include" /\ child.once = once /\ child.file = file
  BY <1>3 DEF Fields
<1>5. IsSeq(s) /\ Len(s) = n /\ s[1] = owner /\ \A i \in 1 .. n : i # 1 => s[i] = vms[i]
  BY <1>1, ReplacedIs
<1>6. /\ ~(once /\ file \in included) /\ done' = done
      /\ included' = IF once THEN included \cup {file} ELSE included
  BY DEF Include
<1> HIDE DEF n, owner, child, s
<1>7. /\ IsSeq(vms') /\ Len(vms') = n + 1 /\ vms'[n + 1] = child
      /\ \A i \in 1 .. n : vms'[i] = s[i]
  BY <1>2, <1>5, AppendIs
<1>8. ASSUME NEW i \in 1 .. n
      PROVE  /\ DOMAIN vms'[i] = Fields /\ vms'[i].once \in BOOLEAN
             /\ RunsOnce(i)' => RunsOnce(i) /\ vms'[i] = vms[i]
  <2>1. CASE i = 1
    <3>1. vms'[1] = owner /\ owner.kind # "include"
      BY <1>1, <1>3, <1>5, <1>7 DEF OnceInv, Stack
    <3> QED
      BY <2>1, <3>1, <1>3, Positions DEF RunsOnce
  <2>2. CASE i # 1
    BY <2>2, <1>5, <1>7 DEF RunsOnce, OnceInv, Stack, n
  <2> QED
    BY <2>1, <2>2
<1>9. Root'.kind = Root.kind
  BY <1>1, <1>3, <1>5, <1>7 DEF Root
<1>10. \A i \in 1 .. Len(vms') : i \in 1 .. n \/ i = n + 1
  BY <1>1, <1>7
<1>11. Stack'
  <2>1. Len(vms') > 0
    BY <1>1, <1>7
  <2> QED
    BY <1>1, <1>4, <1>7, <1>8, <1>9, <1>10, <2>1 DEF OnceInv, Stack
<1>12. Marked'
  <2>1. ASSUME NEW i \in 1 .. n, RunsOnce(i)'
        PROVE  vms'[i].file \in included \ done /\ (once => vms'[i].file # file)
    BY <1>6, <1>8, <2>1 DEF OnceInv, Marked, n
  <2>2. ASSUME NEW i, i = n + 1, RunsOnce(i)'
        PROVE  once /\ vms'[i].file = file /\ file \in included' \ done'
    <3>1. once /\ vms'[i].file = file
      BY <1>4, <1>7, <2>2 DEF RunsOnce
    <3>2. file \notin done
      BY <1>1, <1>6, <3>1 DEF OnceInv, Marked
    <3> QED
      BY <1>6, <3>1, <3>2
  <2>3. ASSUME NEW i \in 1 .. Len(vms'), RunsOnce(i)'
        PROVE  vms'[i].file \in included' \ done'
    <3>1. CASE i \in 1 .. n
      BY <3>1, <2>1, <2>3, <1>6
    <3>2. CASE i = n + 1
      BY <3>2, <2>2, <2>3
    <3> QED
      BY <3>1, <3>2, <1>10
  <2>4. ASSUME NEW i \in 1 .. Len(vms'), NEW j \in 1 .. Len(vms'), i # j, RunsOnce(i)', RunsOnce(j)'
        PROVE  vms'[i].file # vms'[j].file
    <3>1. CASE i = n + 1
      <4>1. j \in 1 .. n
        BY <3>1, <2>4, <1>10
      <4>2. once /\ vms'[i].file = file
        BY <3>1, <2>2, <2>4
      <4> QED
        BY <4>1, <4>2, <2>1, <2>4
    <3>2. CASE j = n + 1
      <4>1. i \in 1 .. n
        BY <3>2, <2>4, <1>10
      <4>2. once /\ vms'[j].file = file
        BY <3>2, <2>2, <2>4
      <4> QED
        BY <4>1, <4>2, <2>1, <2>4
    <3>3. CASE i \in 1 .. n /\ j \in 1 .. n
      BY <3>3, <2>4, <1>8 DEF OnceInv, Marked, n
    <3> QED
      BY <3>1, <3>2, <3>3, <1>10
  <2>5. done' \subseteq included'
    BY <1>1, <1>6 DEF OnceInv, Marked
  <2> QED
    BY <2>3, <2>4, <2>5 DEF Marked
<1> QED
  BY <1>11, <1>12 DEF OnceInv

\* A rollback ends: of a chunk, and the state is idle, or of an include, and
\* its VM goes.
LEMMA FinishRollbackStep ==
  ASSUME OnceInv, FinishRollback
  PROVE  OnceInv'
<1> DEFINE root == RolledBack(Running.start).root
<1>1. DOMAIN root = Fields /\ root.kind = Root.kind /\ root.once = Root.once /\ root.file = Root.file
  BY Positions DEF RolledBack, Rolled, Fields
<1>2. Root.kind # "closed" /\ UNCHANGED <<included, done>> /\ Len(vms) \in Nat \ {0}
  BY Positions DEF FinishRollback
<1>3. CASE Top = 1
  <2> DEFINE vm == [root EXCEPT !.kind = "idle"]
  <2>1. vms' = <<vm>>
    BY <1>3 DEF FinishRollback
  <2> HIDE DEF root
  <2>2. DOMAIN vm = Fields /\ vm.kind = "idle" /\ vm.once \in BOOLEAN
    BY <1>1, Positions DEF Fields
  <2> HIDE DEF vm
  <2> QED
    BY <1>2, <2>1, <2>2, AloneKeeps
<1>4. CASE Top # 1
  <2>1. vms' = Replaced(SubSeq(vms, 1, Top - 1), 1, root)
    BY <1>4 DEF FinishRollback, Replaced
  <2> HIDE DEF root
  <2>2. Len(vms) > 1
    <3>1. Len(vms) \in Nat /\ Len(vms) # 0 /\ Len(vms) # 1
      BY <1>2, <1>4 DEF Top
    <3>2. \A n \in Nat : n # 0 /\ n # 1 => n > 1
      OBVIOUS
    <3> QED
      BY <3>1, <3>2
  <2>3. Same(Len(vms) - 1)
    BY <1>1, <2>1, <2>2, PopIs
  <2> QED
    BY <1>2, <2>3, SameKeeps
<1> QED
  BY <1>3, <1>4

LEMMA ExecChunkStep ==
  ASSUME OnceInv, NEW source, NEW repl \in BOOLEAN, ExecChunk(source, repl)
  PROVE  OnceInv'
<1>1. PICK keep : 
        LET cleared == ClearUserClasses(Root, keep)
            m == Len(modules) + 1
            grown == Grow(Root.mods, m, FirstModules)
            root == [cleared.root EXCEPT !.start = [checkpoint_definitions(cleared.root) EXCEPT
                                           !.known = known \ {NameOf(entry) : entry \in ToSet(cleared.dropped)}]]
        IN vms' = <<[root EXCEPT !.kind = "chunk", !.module = m, !.code = m, !.once = repl,
                          !.mods = IF Retained(source, repl) THEN grown.table ELSE @]>>
  BY DEF ExecChunk
<1> DEFINE cleared == ClearUserClasses(Root, keep)
           m == Len(modules) + 1
           grown == Grow(Root.mods, m, FirstModules)
           known2 == known \ {NameOf(entry) : entry \in ToSet(cleared.dropped)}
           start == [checkpoint_definitions(cleared.root) EXCEPT !.known = known2]
           root == [cleared.root EXCEPT !.start = start]
           mods == IF Retained(source, repl) THEN grown.table ELSE root.mods
           vm == [root EXCEPT !.kind = "chunk", !.module = m, !.code = m, !.once = repl,
                              !.mods = mods]
<1>2. vms' = <<vm>>
  BY <1>1
<1>3. DOMAIN cleared.root = Fields
  BY Positions DEF ClearUserClasses, Fields
<1> HIDE DEF cleared, start, mods, m
<1>4. DOMAIN vm = Fields /\ vm.kind = "chunk" /\ vm.once \in BOOLEAN
  BY <1>3 DEF Fields
<1> HIDE DEF vm
<1>5. Root.kind # "closed" /\ UNCHANGED <<included, done>>
  BY DEF ExecChunk, Idle
<1> QED
  BY <1>2, <1>4, <1>5, AloneKeeps

LEMMA FinishSourceStep ==
  ASSUME OnceInv, FinishSource
  PROVE  OnceInv'
<1>1. PICK keep :
        vms' = <<[ClearUserClasses(Root, keep).root EXCEPT !.kind = "idle",
                     !.module = IF Root.once THEN @ ELSE 0]>>
  BY DEF FinishSource
<1> DEFINE root == ClearUserClasses(Root, keep).root
           vm == [root EXCEPT !.kind = "idle", !.module = IF Root.once THEN root.module ELSE 0]
<1>2. vms' = <<vm>>
  BY <1>1
<1>3. DOMAIN root = Fields /\ root.once = Root.once
  BY Positions DEF ClearUserClasses, Fields
<1> HIDE DEF root
<1>4. DOMAIN vm = Fields /\ vm.kind = "idle" /\ vm.once \in BOOLEAN
  BY <1>3, Positions DEF Fields
<1> HIDE DEF vm
<1>5. Root.kind # "closed" /\ UNCHANGED <<included, done>>
  BY Positions DEF FinishSource
<1> QED
  BY <1>2, <1>4, <1>5, AloneKeeps

LEMMA FailSourceStep ==
  ASSUME OnceInv, FailSource
  PROVE  OnceInv'
<1> DEFINE vm == [Root EXCEPT !.kind = "rollback", !.start.class_end = Root.classes.n]
           n == Len(vms)
<1>1. vms' = Replaced(vms, 1, vm) /\ UNCHANGED <<included, done>>
  BY Positions DEF FailSource, Root, Replaced
<1>2. DOMAIN vm = Fields /\ vm.kind = "rollback" /\ vm.once = Root.once /\ Root.kind # "closed"
  BY Positions DEF Fields, FailSource
<1> HIDE DEF vm, n
<1>3. n \in Nat \ {0} /\ n = Len(vms) /\ IsSeq(vms) /\ 1 \in 1 .. n /\ n \in 1 .. n
  BY Positions DEF n
<1>4. IsSeq(vms') /\ Len(vms') = n /\ vms'[1] = vm /\ \A i \in 1 .. n : i # 1 => vms'[i] = vms[i]
  BY <1>1, <1>3, ReplacedIs
<1>5. ASSUME NEW i \in 1 .. n
      PROVE  /\ DOMAIN vms'[i] = Fields /\ vms'[i].once \in BOOLEAN
             /\ RunsOnce(i)' <=> RunsOnce(i)
             /\ RunsOnce(i) => vms'[i].file = vms[i].file
  <2>1. CASE i = 1
    BY <2>1, <1>2, <1>4, Positions DEF RunsOnce, OnceInv, Stack, Root
  <2>2. CASE i # 1
    BY <2>2, <1>3, <1>4 DEF RunsOnce, OnceInv, Stack
  <2> QED
    BY <2>1, <2>2
<1>6. Root'.kind = "rollback"
  BY <1>2, <1>4 DEF Root
<1>7. Same(n)
  BY <1>2, <1>3, <1>4, <1>5, <1>6 DEF Same
<1> QED
  BY <1>1, <1>7, SameKeeps

\* The marks go, and nothing runs any more.
LEMMA CloseStep ==
  ASSUME OnceInv, pphp_close
  PROVE  OnceInv'
<1> DEFINE vm == [pphp_open EXCEPT !.kind = "closed"]
<1>1. vms' = <<vm>>
  BY DEF pphp_close
<1>2. DOMAIN vm = Fields /\ vm.kind = "closed" /\ vm.once = FALSE /\ vm.module = 0
  BY DEF pphp_open, Fields
<1> HIDE DEF vm
<1>3. IsSeq(vms') /\ Len(vms') = 1 /\ vms'[1] = vm
  BY <1>1, OneIs
<1>4. \A i \in 1 .. 1 : i = 1
  OBVIOUS
<1>5. Stack'
  <2>1. Len(vms') > 0
    BY <1>3
  <2> QED
    BY <1>2, <1>3, <1>4, <2>1 DEF Stack, Root
<1>6. Marked'
  BY <1>2, <1>3, <1>4 DEF Marked, RunsOnce, Root
<1> QED
  BY <1>5, <1>6 DEF OnceInv

-----------------------------------------------------------------------------
LEMMA OnceInit ==
  ASSUME Init
  PROVE  OnceInv
<1>1. IsSeq(vms) /\ Len(vms) = 1 /\ vms[1] = pphp_open
  BY OneIs DEF Init
<1>2. DOMAIN pphp_open = Fields /\ pphp_open.kind = "idle" /\ pphp_open.once = FALSE
  BY DEF pphp_open, Fields
<1>3. included = {} /\ done = {} /\ \A i \in 1 .. 1 : i = 1
  BY DEF Init
<1>4. Stack
  <2>1. Len(vms) > 0
    BY <1>1
  <2> QED
    BY <1>1, <1>2, <1>3, <2>1 DEF Stack, Root
<1>5. Marked
  BY <1>1, <1>2, <1>3 DEF Marked, RunsOnce, Root
<1> QED
  BY <1>4, <1>5 DEF OnceInv

LEMMA OnceStep ==
  ASSUME OnceInv, [Next]_vars
  PROVE  OnceInv'
<1>1. CASE \E x \in Names : DefineClass(x)
  BY <1>1, DefineSteps
<1>2. CASE \E f \in Functions : DefineFunction(f)
  BY <1>2, DefineSteps
<1>3. CASE Invoke
  BY <1>3, StartInvokeStep, Positions DEF Invoke
<1>4. CASE RunDestructor
  <2>1. Root.kind # "closed" /\ StartInvoke(Root, "destructor")
    BY <1>4 DEF RunDestructor
  <2> QED
    BY <2>1, StartInvokeStep
<1>5. CASE FinishInvoke
  BY <1>5, FinishInvokeStep
<1>6. CASE \E file \in Files, once \in BOOLEAN : Include(file, once)
  BY <1>6, IncludeStep
<1>7. CASE FinishInclude
  BY <1>7, FinishIncludeStep
<1>8. CASE FailInclude
  BY <1>8, FailIncludeStep
<1>9. CASE FinishRollback
  BY <1>9, FinishRollbackStep
<1>10. CASE \E source \in Sources, repl \in BOOLEAN : ExecSource(source, repl)
  BY <1>10, ExecChunkStep DEF ExecSource
<1>11. CASE \E source \in Sources : ExecPbc(source)
  BY <1>11, ExecChunkStep DEF ExecPbc
<1>12. CASE FinishSource
  BY <1>12, FinishSourceStep
<1>13. CASE FailSource
  BY <1>13, FailSourceStep
<1>14. CASE pphp_close
  BY <1>14, CloseStep
<1>15. CASE UNCHANGED vars
  BY <1>15 DEF vars, OnceInv, Stack, Marked, RunsOnce, Root
<1> QED
  BY <1>1, <1>2, <1>3, <1>4, <1>5, <1>6, <1>7, <1>8, <1>9, <1>10, <1>11, <1>12, <1>13,
     <1>14, <1>15 DEF Next

\* pphp_exec_include never runs a file twice, nor inside itself, by
\* include_once or require_once: however VMs nest, fail and are rolled back.
THEOREM IncludedOnce == Spec => []OnceRunsOnce
<1>1. OnceInv => OnceRunsOnce
  BY SeqIs DEF OnceInv, Stack, Marked, RunsOnce, OnceRunsOnce
<1> QED
  BY <1>1, OnceInit, OnceStep, PTL DEF Spec

-----------------------------------------------------------------------------
(***************************************************************************)
(* How objects and classes end (Shutdown), for any number of objects,      *)
(* classes and global variables.                                           *)
(***************************************************************************)
Phases == {"idle", "ready", "running", "marking", "clearing", "cleared", "collected",
           "closing", "globals", "statics", "values", "released", "closed"}

Made == 1 .. Len(class)
Holders == Vars \cup Classes

\* A list without repetitions; what is in it; what a walk that has come to c
\* has behind it, which is everything at its end.
Distinct(l) == \A i, j \in 1 .. Len(l) : l[i] = l[j] => i = j
Items(l) == {l[i] : i \in 1 .. Len(l)}
Behind(l, c) ==
  {l[i] : i \in {k \in 1 .. Len(l) : c = NoObject \/ \E j \in 1 .. Len(l) : k < j /\ l[j] = c}}

ShutdownTypeOK ==
  /\ phase \in Phases /\ goal \in {"ready", "idle"}
  /\ class \in Seq(Classes) /\ Len(class) <= MaxObjects
  /\ list \in Seq(Nat) /\ Distinct(list) /\ Listed \subseteq Made
  /\ holder \in [Holders -> 0 .. Len(class)]
  /\ cyclic \subseteq Made /\ ran \subseteq Made /\ doomed \subseteq Listed
  /\ cursor \in 0 .. Len(class)
  /\ reach \in [objects : SUBSET Nat, classes : SUBSET Classes]
  /\ invoked \in BOOLEAN /\ classes \subseteq Classes /\ made \in 0 .. Len(class)

\* Whatever is held is in the list and of a class that its holder may hold;
\* the collector takes only what nothing else holds.  Objects that are gone
\* have had their destructor.
ObjectsSound ==
  /\ \A h \in Holders : holder[h] # NoObject => holder[h] \in Listed /\ class[holder[h]] \in Holds[h]
  /\ CursorLive
  /\ \A o \in doomed : o # cursor /\ \A h \in Holders : holder[h] # o
  /\ \A o \in Made \ Listed : class[o] \in Destructors => o \in ran

\* The table keeps what its classes extend and name, and until it is given
\* up the class of every object with a destructor to come.
TableSound ==
  /\ \A c \in classes : Extends[c] \cup Needs[c] \subseteq classes
  /\ phase = "running" => classes = Classes
  /\ phase # "closed" => /\ \A c \in Classes \ classes : holder[c] = NoObject
                         /\ \A o \in Listed : MayRun(o) => class[o] \in classes

Quiet ==
  /\ phase \in {"marking", "closed"} => Settled
  /\ phase \notin {"clearing", "closing"} => cursor = NoObject

\* What is marked is held by what is marked, and with a class its family.
ReachSound ==
  /\ \A o \in reach.objects : /\ o \in Made /\ class[o] \in reach.classes
                              /\ \E h \in Vars \cup reach.classes : holder[h] = o
  /\ \A c \in reach.classes : /\ Extends[c] \subseteq reach.classes
                              /\ \A family \in Family(c) : Needs[c] \subseteq family

\* As long as a walk has run no destructor, things are as they were marked.
Clearing ==
  /\ phase = "clearing" /\ ~invoked =>
       /\ ReachSound /\ doomed = {}
       /\ \A o \in Listed : o \in cyclic \/ \E h \in Holders : holder[h] = o
       /\ \A o \in Behind(list, cursor) : MayRun(o) => o \in reach.objects
  /\ phase \in {"cleared", "collected"} =>
       /\ ReachSound
       /\ \A o \in Listed : MayRun(o) => o \in reach.objects
       /\ \A c \in classes \ reach.classes : holder[c] = NoObject

\* What was there when pphp_close began has its destructor in the walk, is
\* released after it and gone in the end.
Old(o) == o \in 1 .. made
ClosingInv ==
  /\ phase = "closing" => \A o \in Behind(list, cursor) : Old(o) => ~MayRun(o)
  /\ phase \in {"globals", "statics", "values", "released", "closed"} =>
       \A o \in Listed : Old(o) => ~MayRun(o)
  /\ phase \in {"statics", "values", "released", "closed"} => \A v \in Vars : ~Old(holder[v])
  /\ phase \in {"values", "released", "closed"} => \A h \in Holders : ~Old(holder[h])
  /\ phase \in {"released", "closed"} => \A o \in Listed : Old(o) => o \in doomed

ShutdownInv ==
  ShutdownTypeOK /\ ObjectsSound /\ TableSound /\ Quiet /\ Clearing /\ ClosingInv

-----------------------------------------------------------------------------
(* Lists of objects.                                                       *)

LEMMA Joined ==
  ASSUME NEW a \in Seq(Nat), NEW b \in Seq(Nat), NEW m, m = a \o b
  PROVE  /\ m \in Seq(Nat) /\ Len(m) = Len(a) + Len(b)
         /\ \A i \in 1 .. Len(m) : m[i] = IF i <= Len(a) THEN a[i] ELSE b[i - Len(a)]
OBVIOUS

LEMMA RemovedIs ==
  ASSUME NEW l \in Seq(Nat), Distinct(l), NEW p \in 1 .. Len(l), NEW m, m = RemoveAt(l, p)
  PROVE  /\ m \in Seq(Nat) /\ Len(m) = Len(l) - 1
         /\ \A i \in 1 .. Len(m) : m[i] = l[IF i < p THEN i ELSE i + 1]
<1>1. PICK a : a = SubSeq(l, 1, p - 1)
  OBVIOUS
<1>2. PICK b : b = SubSeq(l, p + 1, Len(l))
  OBVIOUS
<1>3. a \in Seq(Nat) /\ Len(a) = p - 1 /\ \A i \in 1 .. p - 1 : a[i] = l[i]
  BY <1>1
<1>4. b \in Seq(Nat) /\ Len(b) = Len(l) - p /\ \A i \in 1 .. Len(l) - p : b[i] = l[p + i]
  BY <1>2
<1>5. m = a \o b
  BY <1>1, <1>2 DEF RemoveAt
<1>6. /\ m \in Seq(Nat) /\ Len(m) = Len(a) + Len(b)
      /\ \A i \in 1 .. Len(m) : m[i] = IF i <= Len(a) THEN a[i] ELSE b[i - Len(a)]
  <2>1. a \in Seq(Nat) /\ b \in Seq(Nat)
    BY <1>3, <1>4
  <2> HIDE <1>1, <1>2
  <2> QED  BY <2>1, <1>5, Joined
<1>7. ASSUME NEW i \in 1 .. Len(m) PROVE m[i] = l[IF i < p THEN i ELSE i + 1]
  <2>1. CASE i < p
    BY <2>1, <1>3, <1>6
  <2>2. CASE i >= p
    <3>1. ~(i <= Len(a)) /\ i - Len(a) = i - (p - 1) /\ i - (p - 1) \in 1 .. Len(l) - p
      BY <2>2, <1>3, <1>4, <1>6
    <3>2. m[i] = b[i - Len(a)]
      BY <3>1, <1>6, Zenon
    <3>3. m[i] = b[i - (p - 1)]
      BY <3>1, <3>2
    <3>4. m[i] = l[p + (i - (p - 1))]
      BY <3>1, <3>3, <1>4
    <3> QED  BY <2>2, <3>4
  <2> QED  BY <2>1, <2>2
<1> QED  BY <1>3, <1>4, <1>6, <1>7

\* Unlinking an object leaves the others in their order.
LEMMA UnlinkedIs ==
  ASSUME NEW l \in Seq(Nat), Distinct(l), NEW p \in 1 .. Len(l), NEW m, m = RemoveAt(l, p)
  PROVE  /\ m \in Seq(Nat) /\ Distinct(m) /\ Items(m) = Items(l) \ {l[p]}
         /\ \A c : c # l[p] => Behind(m, c) \subseteq Behind(l, c)
<1>1. m \in Seq(Nat) /\ Len(m) = Len(l) - 1 /\ \A i \in 1 .. Len(m) : m[i] = l[IF i < p THEN i ELSE i + 1]
  BY RemovedIs
<1>2. PICK n \in Nat : n = Len(l)
  OBVIOUS
<1>3. PICK at : at = [i \in 1 .. n - 1 |-> IF i < p THEN i ELSE i + 1]
  OBVIOUS
<1>4. p \in 1 .. n /\ DOMAIN m = 1 .. n - 1 /\ Len(m) = n - 1
  BY <1>1, <1>2
<1>5. \A i \in 1 .. n - 1 : at[i] \in 1 .. n /\ at[i] # p
  BY <1>3, <1>4
<1>6. \A i, j \in 1 .. n - 1 : i < j => at[i] < at[j]
  BY <1>3, <1>4
<1>7. \A k \in 1 .. n : k # p => \E i \in 1 .. n - 1 : at[i] = k
  <2> SUFFICES ASSUME NEW k \in 1 .. n, k # p PROVE \E i \in 1 .. n - 1 : at[i] = k
    OBVIOUS
  <2>1. CASE k < p
    <3>1. k \in 1 .. n - 1 /\ at[k] = k
      BY <2>1, <1>3, <1>4
    <3> QED  BY <3>1
  <2>2. CASE k > p
    <3>1. k - 1 \in 1 .. n - 1 /\ at[k - 1] = k
      BY <2>2, <1>3, <1>4
    <3> QED  BY <3>1
  <2> QED  BY <2>1, <2>2, <1>4
<1>8. \A i \in 1 .. n - 1 : m[i] = l[at[i]]
  BY <1>1, <1>3, <1>4
<1>9. Distinct(m)
  <2> SUFFICES ASSUME NEW i \in 1 .. n - 1, NEW j \in 1 .. n - 1, m[i] = m[j] PROVE i = j
    BY <1>4 DEF Distinct
  <2>1. at[i] \in 1 .. n /\ at[j] \in 1 .. n
    BY <1>5
  <2>2. l[at[i]] = l[at[j]]
    BY <1>8
  <2>3. \A x, y \in 1 .. n : l[x] = l[y] => x = y
    BY <1>2 DEF Distinct
  <2>4. at[i] = at[j]
    BY <2>1, <2>2, <2>3, Zenon
  <2> QED  BY <2>4, <1>5, <1>6
<1>10. Items(m) = Items(l) \ {l[p]}
  <2>1. ASSUME NEW x \in Items(m) PROVE x \in Items(l) \ {l[p]}
    <3>1. PICK i \in 1 .. n - 1 : x = m[i]
      BY <1>4 DEF Items
    <3>2. x = l[at[i]] /\ at[i] \in 1 .. Len(l) /\ at[i] # p
      BY <3>1, <1>2, <1>5, <1>8
    <3>3. l[at[i]] # l[p]
      BY <3>2 DEF Distinct
    <3> QED  BY <3>2, <3>3 DEF Items
  <2>2. ASSUME NEW x \in Items(l) \ {l[p]} PROVE x \in Items(m)
    <3>1. PICK k \in 1 .. n : x = l[k] /\ k # p
      BY <1>2 DEF Items
    <3>2. PICK i \in 1 .. n - 1 : at[i] = k
      BY <3>1, <1>7
    <3> QED  BY <3>1, <3>2, <1>4, <1>8 DEF Items
  <2> QED  BY <2>1, <2>2
<1>11. ASSUME NEW c, c # l[p] PROVE Behind(m, c) \subseteq Behind(l, c)
  <2> SUFFICES ASSUME NEW k \in 1 .. n - 1,
                      c = NoObject \/ \E j \in 1 .. n - 1 : k < j /\ m[j] = c
               PROVE  m[k] \in Behind(l, c)
    BY <1>4 DEF Behind
  <2>1. c = NoObject \/ \E j \in 1 .. n : at[k] < j /\ l[j] = c
    BY <1>5, <1>6, <1>8
  <2> QED  BY <2>1, <1>2, <1>5, <1>8 DEF Behind
<1> QED  BY <1>1, <1>9, <1>10, <1>11

\* A new object is linked at the head.
LEMMA LinkedIs ==
  ASSUME NEW l \in Seq(Nat), Distinct(l), NEW x \in Nat, x \notin Items(l), NEW m, m = <<x>> \o l
  PROVE  /\ m \in Seq(Nat) /\ Distinct(m) /\ Items(m) = Items(l) \cup {x}
         /\ \A c : c # x => Behind(m, c) \subseteq Behind(l, c) \cup {x}
<1>1. /\ m \in Seq(Nat) /\ Len(m) = Len(l) + 1 /\ m[1] = x
      /\ \A i \in 1 .. Len(l) : m[i + 1] = l[i]
  OBVIOUS
<1>2. \A i \in 1 .. Len(m) : i = 1 \/ (i - 1 \in 1 .. Len(l) /\ m[i] = l[i - 1])
  BY <1>1
<1>3. Distinct(m)
  BY <1>1, <1>2 DEF Distinct, Items
<1>4. Items(m) = Items(l) \cup {x}
  <2>1. Items(m) \subseteq Items(l) \cup {x}
    BY <1>1, <1>2 DEF Items
  <2>2. \A i \in 1 .. Len(l) : i + 1 \in 1 .. Len(m)
    BY <1>1
  <2>3. 1 \in 1 .. Len(m)
    BY <1>1
  <2> QED  BY <1>1, <2>1, <2>2, <2>3 DEF Items
<1>5. ASSUME NEW c, c # x PROVE Behind(m, c) \subseteq Behind(l, c) \cup {x}
  BY <1>1, <1>2 DEF Behind
<1> QED  BY <1>1, <1>3, <1>4, <1>5

\* A step of a walk leaves one more behind.
LEMMA NextIs ==
  ASSUME NEW l \in Seq(Nat), Distinct(l), NEW p \in 1 .. Len(l), NEW next,
         next = IF p = Len(l) THEN NoObject ELSE l[p + 1], NoObject \notin Items(l)
  PROVE  Behind(l, next) \subseteq Behind(l, l[p]) \cup {l[p]}
<1> SUFFICES ASSUME NEW k \in 1 .. Len(l),
                    next = NoObject \/ \E j \in 1 .. Len(l) : k < j /\ l[j] = next
             PROVE  l[k] \in Behind(l, l[p]) \cup {l[p]}
  BY DEF Behind
<1>1. k <= p
  BY DEF Distinct, Items
<1>2. CASE k = p
  BY <1>2
<1>3. CASE k < p
  BY <1>3 DEF Behind
<1> QED  BY <1>1, <1>2, <1>3

LEMMA FirstIs ==
  ASSUME NEW l \in Seq(Nat), Distinct(l), NoObject \notin Items(l), NEW c,
         c = IF l = <<>> THEN NoObject ELSE Head(l)
  PROVE  Behind(l, c) = {} /\ c \in Items(l) \cup {NoObject}
<1>1. CASE l = <<>>
  BY <1>1 DEF Behind
<1>2. CASE l # <<>>
  <2>1. 1 \in 1 .. Len(l) /\ c = l[1]
    BY <1>2
  <2> QED  BY <2>1 DEF Behind, Distinct, Items
<1> QED  BY <1>1, <1>2

-----------------------------------------------------------------------------
(* What a step does to the objects.                                        *)

New == Made' \ Made

\* Objects are made, dropped and have their destructors; one may go.
Evolves(gone) ==
  /\ class' \in Seq(Classes) /\ Len(class') <= MaxObjects
  /\ Made \subseteq Made' /\ New \subseteq {Len(class')}
  /\ \A o \in Made : class'[o] = class[o]
  /\ \A o \in New : class'[o] \in classes /\ o > made
  /\ holder' \in [Holders -> 0 .. Len(class')]
  /\ \A h \in Holders : \/ holder'[h] = NoObject
                        \/ holder'[h] = holder[h]
                        \/ /\ holder'[h] \in New /\ class'[holder'[h]] \in Holds[h]
                           /\ h \in Vars \cup classes
  /\ cyclic \subseteq cyclic' /\ cyclic' \subseteq cyclic \cup New
  /\ ran \subseteq ran' /\ ran' \subseteq Made
  /\ list' \in Seq(Nat) /\ Distinct(list') /\ Listed' = (Listed \ {gone}) \cup New
  /\ classes' \subseteq Classes /\ made' \in {made, Len(class)}

LEMMA ListedIs == ASSUME list \in Seq(Nat) PROVE Listed = Items(list)
BY DEF Listed, Items

LEMMA PlaceIs ==
  ASSUME list \in Seq(Nat), Distinct(list), NEW o \in Listed
  PROVE  Place(o) \in 1 .. Len(list) /\ list[Place(o)] = o
<1>1. \E i \in DOMAIN list : list[i] = o
  BY DEF Listed
<1>2. Place(o) \in DOMAIN list /\ list[Place(o)] = o
  BY <1>1 DEF Place
<1> QED  BY <1>2

\* What a settled state means.
LEMMA SettledMeans ==
  ASSUME ShutdownInv, Settled
  PROVE  doomed = {} /\ \A o \in Listed : IsHeld(o)
BY DEF Settled, Dying, ShutdownInv, ShutdownTypeOK

LEMMA SettledIs ==
  ASSUME doomed = {}, \A o \in Listed : IsHeld(o)
  PROVE  Settled
BY DEF Settled, Dying

\* The number of objects is the next object.
LEMMA CreationIs ==
  ASSUME ShutdownInv, NEW c \in Classes, Creation(c)
  PROVE  /\ class' \in Seq(Classes) /\ Len(class') = Len(class) + 1 /\ Len(class') <= MaxObjects
         /\ Made \subseteq Made' /\ New = {Len(class')} /\ Len(class') > made
         /\ \A o \in Made : class'[o] = class[o]
         /\ class'[Len(class')] = c /\ c \in classes /\ Len(class') # NoObject
         /\ Created = <<Len(class')>> /\ Len(class') \in Nat
<1>1. class \in Seq(Classes) /\ class' = Append(class, c) /\ Len(class) < MaxObjects /\ c \in classes
  BY DEF Creation, ShutdownInv, ShutdownTypeOK
<1>2. /\ class' \in Seq(Classes) /\ Len(class') = Len(class) + 1 /\ Len(class) \in Nat
      /\ \A o \in 1 .. Len(class) : class'[o] = class[o]
      /\ class'[Len(class) + 1] = c
  BY <1>1
<1>3. made \in 0 .. Len(class) /\ MaxObjects \in Nat
  BY ShutdownAssumption DEF ShutdownInv, ShutdownTypeOK
<1>4. New = {Len(class')} /\ Made \subseteq Made'
  BY <1>2 DEF New, Made
<1> QED  BY <1>1, <1>2, <1>3, <1>4 DEF Made, Created, NoObject

LEMMA NothingMade ==
  ASSUME ShutdownInv, UNCHANGED class
  PROVE  Made' = Made /\ New = {} /\ Created = <<>> /\ Len(class) \in Nat
BY DEF New, Made, Created, ShutdownInv, ShutdownTypeOK

\* What running a destructor does, apart from the list.
BodyIs ==
  /\ class' \in Seq(Classes) /\ Len(class') <= MaxObjects
  /\ Made \subseteq Made' /\ New \subseteq {Len(class')}
  /\ \A x \in Made : class'[x] = class[x]
  /\ \A x \in New : class'[x] \in classes /\ x > made /\ x \in Nat
  /\ Created = IF New = {} THEN <<>> ELSE <<Len(class')>>
  /\ New # {} => New = {Len(class')}
  /\ holder' \in [Holders -> 0 .. Len(class')]
  /\ \A h \in Holders : \/ holder'[h] = NoObject
                        \/ holder'[h] = holder[h]
                        \/ /\ holder'[h] \in New /\ class'[holder'[h]] \in Holds[h]
                           /\ h \in Vars \cup classes
  /\ cyclic \subseteq cyclic' /\ cyclic' \subseteq cyclic \cup New

LEMMA DestructorRuns ==
  ASSUME ShutdownInv, DestructorBody
  PROVE  BodyIs
<1>0. /\ holder \in [Holders -> 0 .. Len(class)] /\ Len(class) \in Nat /\ cyclic \subseteq Made
      /\ class \in Seq(Classes) /\ Len(class) <= MaxObjects /\ classes \subseteq Classes
  BY DEF ShutdownInv, ShutdownTypeOK
<1>1. CASE UNCHANGED <<class, holder, cyclic>>
  BY <1>0, <1>1, NothingMade DEF BodyIs
<1>2. CASE \E h \in Vars \cup classes : DestructorDrops(h)
  <2>1. PICK h \in Vars \cup classes : DestructorDrops(h)
    BY <1>2
  <2>2. holder' = [holder EXCEPT ![h] = NoObject] /\ UNCHANGED <<class, cyclic>>
    BY <2>1 DEF DestructorDrops
  <2>3. holder' \in [Holders -> 0 .. Len(class)]
        /\ \A x \in Holders : holder'[x] = NoObject \/ holder'[x] = holder[x]
    <3>1. PICK n \in Nat : n = Len(class)
      BY <1>0
    <3>2. holder \in [Holders -> 0 .. n] /\ 0 \in 0 .. n
      BY <1>0, <3>1
    <3>3. holder' \in [Holders -> 0 .. n]
      BY <2>2, <3>2 DEF NoObject
    <3>4. \A x \in Holders : holder'[x] = NoObject \/ holder'[x] = holder[x]
      BY <2>2, <3>2
    <3> QED  BY <3>1, <3>3, <3>4
  <2> QED  BY <1>0, <2>2, <2>3, NothingMade DEF BodyIs
<1>3. CASE \E v \in Vars : \E c \in Holds[v] : DestructorStores(v, c)
  <2>0. PICK v \in Vars : \E c \in Holds[v] : DestructorStores(v, c)
    BY <1>3
  <2>1. PICK c \in Holds[v] : DestructorStores(v, c)
    BY <2>0
  <2>2. Creation(c) /\ holder' = [holder EXCEPT ![v] = Len(class')] /\ cyclic' = cyclic
    BY <2>1 DEF DestructorStores
  <2>3. c \in Classes /\ v \in Holders
    BY ShutdownAssumption DEF Holders
  <2>4. /\ class' \in Seq(Classes) /\ Len(class') = Len(class) + 1 /\ Len(class') <= MaxObjects
        /\ Made \subseteq Made' /\ New = {Len(class')} /\ Len(class') > made
        /\ \A x \in Made : class'[x] = class[x]
        /\ class'[Len(class')] = c /\ c \in classes /\ Len(class') # NoObject
        /\ Created = <<Len(class')>> /\ Len(class') \in Nat
    BY <2>2, <2>3, CreationIs
  <2>5. holder' \in [Holders -> 0 .. Len(class')] /\ holder'[v] = Len(class')
        /\ \A x \in Holders : x # v => holder'[x] = holder[x]
    BY <1>0, <2>2, <2>3, <2>4
  <2>6. \A x \in Holders : \/ holder'[x] = holder[x]
                           \/ /\ holder'[x] \in New /\ class'[holder'[x]] \in Holds[x]
                              /\ x \in Vars \cup classes
    BY <2>4, <2>5
  <2> QED  BY <2>2, <2>4, <2>5, <2>6 DEF BodyIs
<1>4. CASE \E c \in Classes : DestructorLoses(c)
  <2>1. PICK c \in Classes : DestructorLoses(c)
    BY <1>4
  <2>2. Creation(c) /\ cyclic' = cyclic \cup {Len(class')} /\ holder' = holder
    BY <2>1 DEF DestructorLoses
  <2>3. /\ class' \in Seq(Classes) /\ Len(class') = Len(class) + 1 /\ Len(class') <= MaxObjects
        /\ Made \subseteq Made' /\ New = {Len(class')} /\ Len(class') > made
        /\ \A x \in Made : class'[x] = class[x]
        /\ class'[Len(class')] = c /\ c \in classes /\ Len(class') # NoObject
        /\ Created = <<Len(class')>> /\ Len(class') \in Nat
    BY <2>2, CreationIs
  <2>4. holder' \in [Holders -> 0 .. Len(class')]
    BY <1>0, <2>2, <2>3
  <2> QED  BY <2>2, <2>3, <2>4 DEF BodyIs
<1> QED  BY <1>1, <1>2, <1>3, <1>4 DEF DestructorBody

LEMMA RunningIs ==
  ASSUME ShutdownInv, NEW o, pobject_run_destructor(o)
  PROVE  /\ BodyIs
         /\ MayRun(o) => ran' = ran \cup {o}
         /\ ~MayRun(o) => UNCHANGED <<ran, class, holder, cyclic>>
<1>1. CASE MayRun(o)
  BY <1>1, DestructorRuns DEF pobject_run_destructor
<1>2. CASE ~MayRun(o)
  <2>1. UNCHANGED <<ran, class, holder, cyclic>>
    BY <1>2 DEF pobject_run_destructor
  <2>2. DestructorBody
    BY <2>1 DEF DestructorBody
  <2> QED  BY <1>2, <2>1, <2>2, DestructorRuns
<1> QED  BY <1>1, <1>2

\* New objects are linked in front of what is left of the list.
LEMMA Relinked ==
  ASSUME ShutdownInv, BodyIs, NEW l \in Seq(Nat), Distinct(l), Items(l) \subseteq Listed,
         list' = Created \o l
  PROVE  /\ list' \in Seq(Nat) /\ Distinct(list') /\ Listed' = Items(l) \cup New
         /\ \A c : c \notin New => Behind(list', c) \subseteq Behind(l, c) \cup New
<1>1. CASE New = {}
  <2>1. list' = l
    BY <1>1 DEF BodyIs
  <2> QED  BY <1>1, <2>1, ListedIs DEF Listed, Items
<1>2. CASE New # {}
  <2>1. PICK x \in Nat : New = {x} /\ x = Len(class')
    BY <1>2 DEF BodyIs
  <2>2. x \notin Items(l)
    BY <2>1 DEF New, ShutdownInv, ShutdownTypeOK
  <2>3. list' = <<x>> \o l
    BY <1>2, <2>1 DEF BodyIs
  <2>4. /\ list' \in Seq(Nat) /\ Distinct(list') /\ Items(list') = Items(l) \cup {x}
        /\ \A c : c # x => Behind(list', c) \subseteq Behind(l, c) \cup {x}
    BY <2>2, <2>3, LinkedIs
  <2>5. DOMAIN list' = 1 .. Len(list')
    <3>1. list' \in Seq(Nat)
      BY <2>4
    <3> QED  BY <3>1
  <2>6. Listed' = Items(list')
    BY <2>5, Zenon DEF Listed, Items
  <2> QED  BY <2>1, <2>4, <2>6
<1> QED  BY <1>1, <1>2

\* The destruction of an object: what goes is held by nothing.
LEMMA DestroyIs ==
  ASSUME ShutdownInv, NEW o \in Dying, pobject_destroy(o)
  PROVE  /\ Evolves(o) /\ o \in Listed /\ o # cursor /\ \A h \in Holders : holder[h] # o
         /\ MayRun(o) => ran' = ran \cup {o}
         /\ ~MayRun(o) => UNCHANGED <<ran, class, holder, cyclic>>
         /\ cursor \notin New /\ cursor # o
         /\ Behind(list', cursor) \subseteq Behind(list, cursor) \cup New
<1>1. /\ BodyIs
      /\ MayRun(o) => ran' = ran \cup {o}
      /\ ~MayRun(o) => UNCHANGED <<ran, class, holder, cyclic>>
  BY RunningIs DEF pobject_destroy
<1>2. list \in Seq(Nat) /\ Distinct(list) /\ Listed \subseteq Made /\ Listed = Items(list)
  BY ListedIs DEF ShutdownInv, ShutdownTypeOK
<1>3. o \in Listed /\ o # cursor /\ \A h \in Holders : holder[h] # o
  BY DEF Dying, IsHeld, Holders, ShutdownInv, ObjectsSound
<1>4. PICK l : l = RemoveAt(list, Place(o))
  OBVIOUS
<1>5. Place(o) \in 1 .. Len(list) /\ list[Place(o)] = o
  BY <1>2, <1>3, PlaceIs
<1>6. /\ l \in Seq(Nat) /\ Distinct(l) /\ Items(l) = Listed \ {o}
      /\ \A c : c # o => Behind(l, c) \subseteq Behind(list, c)
  BY <1>2, <1>4, <1>5, UnlinkedIs
<1>7. list' = Created \o l
  BY <1>4 DEF pobject_destroy
<1>8. /\ list' \in Seq(Nat) /\ Distinct(list') /\ Listed' = (Listed \ {o}) \cup New
      /\ \A c : c \notin New => Behind(list', c) \subseteq Behind(l, c) \cup New
  BY <1>1, <1>6, <1>7, Relinked
<1>9. cursor \notin New
  BY <1>1 DEF New, Made, BodyIs, ShutdownInv, ShutdownTypeOK
<1>10. Evolves(o)
  <2>1. ran \subseteq ran' /\ ran' \subseteq Made
    BY <1>1, <1>2, <1>3 DEF ShutdownInv, ShutdownTypeOK
  <2>2. classes' = classes /\ made' = made /\ classes \subseteq Classes
    BY DEF pobject_destroy, ShutdownInv, ShutdownTypeOK
  <2> QED  BY <1>1, <1>8, <2>1, <2>2 DEF Evolves, BodyIs
<1> QED  BY <1>1, <1>3, <1>6, <1>8, <1>9, <1>10

\* A step of a walk.
LEMMA VisitIs ==
  ASSUME ShutdownInv, NEW runs \in BOOLEAN, Visit(runs)
  PROVE  /\ Evolves(NoObject) /\ Settled /\ cursor \in Listed /\ cursor # NoObject
         /\ runs /\ MayRun(cursor) => ran' = ran \cup {cursor}
         /\ ~(runs /\ MayRun(cursor)) => UNCHANGED <<ran, class, holder, cyclic, list>>
         /\ cursor' = NoObject \/ cursor' \in Listed
         /\ invoked' = (invoked \/ ran' # ran)
         /\ Behind(list', cursor') \subseteq Behind(list, cursor) \cup {cursor} \cup New
<1>1. Settled /\ cursor # NoObject /\ list' = Created \o list /\ cursor' = After(cursor)
      /\ invoked' = (invoked \/ ran' # ran) /\ UNCHANGED <<classes, made>>
  BY DEF Visit
<1>2. /\ list \in Seq(Nat) /\ Distinct(list) /\ Listed \subseteq Made /\ Listed = Items(list)
      /\ cursor \in Listed /\ NoObject \notin Items(list)
  BY <1>1, ListedIs DEF ShutdownInv, ShutdownTypeOK, ObjectsSound, CursorLive, NoObject, Made
<1>3. /\ BodyIs
      /\ runs /\ MayRun(cursor) => ran' = ran \cup {cursor}
      /\ ~(runs /\ MayRun(cursor)) => UNCHANGED <<ran, class, holder, cyclic>>
  <2>1. CASE runs
    BY <2>1, RunningIs DEF Visit
  <2>2. CASE ~runs
    <3>1. UNCHANGED <<ran, class, holder, cyclic>>
      BY <2>2 DEF Visit
    <3>2. DestructorBody
      BY <3>1 DEF DestructorBody
    <3> QED  BY <2>2, <3>1, <3>2, DestructorRuns
  <2> QED  BY <2>1, <2>2
<1>4. Place(cursor) \in 1 .. Len(list) /\ list[Place(cursor)] = cursor
  BY <1>2, PlaceIs
<1>5. PICK p \in 1 .. Len(list) : p = Place(cursor)
  BY <1>4
<1>6. cursor' = (IF p = Len(list) THEN NoObject ELSE list[p + 1]) /\ list[p] = cursor
  BY <1>1, <1>4, <1>5 DEF After
<1>7. Behind(list, cursor') \subseteq Behind(list, cursor) \cup {cursor}
  BY <1>2, <1>6, NextIs
<1>8. cursor' = NoObject \/ cursor' \in Listed
  BY <1>2, <1>6 DEF Items
<1>9. /\ list' \in Seq(Nat) /\ Distinct(list') /\ Listed' = Listed \cup New
      /\ \A c : c \notin New => Behind(list', c) \subseteq Behind(list, c) \cup New
  BY <1>1, <1>2, <1>3, Relinked
<1>10. cursor' \notin New
  <2>1. NoObject \notin Made'
    BY DEF Made, NoObject
  <2> QED  BY <1>2, <1>8, <2>1 DEF New
<1>11. Evolves(NoObject)
  <2>1. ran \subseteq ran' /\ ran' \subseteq Made
    BY <1>2, <1>3 DEF ShutdownInv, ShutdownTypeOK
  <2>2. classes' \subseteq Classes
    BY <1>1 DEF ShutdownInv, ShutdownTypeOK
  <2>3. Listed \ {NoObject} = Listed
    BY <1>2
  <2> QED  BY <1>1, <1>3, <1>9, <2>1, <2>2, <2>3 DEF Evolves, BodyIs
<1>12. UNCHANGED class => list' = list
  BY <1>1, <1>2, NothingMade
<1> QED  BY <1>1, <1>2, <1>3, <1>7, <1>8, <1>9, <1>10, <1>11, <1>12

-----------------------------------------------------------------------------
(* What every step keeps.                                                  *)

LEMMA EvolvesKeeps ==
  ASSUME ShutdownInv, NEW gone, Evolves(gone),
         gone = NoObject \/ (/\ gone \in Listed /\ \A h \in Holders : holder[h] # gone
                             /\ MayRun(gone) => gone \in ran'),
         doomed' \subseteq Listed', cursor' = NoObject \/ cursor' \in Listed',
         \A o \in doomed' : o # cursor' /\ \A h \in Holders : holder'[h] # o
  PROVE  /\ ObjectsSound'
         /\ phase' \in Phases /\ goal' \in {"ready", "idle"} /\ invoked' \in BOOLEAN
            /\ reach' \in [objects : SUBSET Nat, classes : SUBSET Classes]
              => ShutdownTypeOK'
         /\ NoObject \notin Listed' /\ \A o \in Made : MayRun(o)' => MayRun(o)
<1>1. /\ Listed \subseteq Made /\ NoObject \notin Made /\ NoObject \notin Made'
      /\ Made \subseteq Made' /\ Made' = Made \cup New
      /\ Len(class) \in Nat /\ Len(class') \in Nat
  BY DEF Made, NoObject, New, Evolves, ShutdownInv, ShutdownTypeOK
<1>2. Listed' \subseteq Made' /\ Listed' = (Listed \ {gone}) \cup New
  BY <1>1 DEF Evolves
<1>3. \A h \in Holders : holder'[h] # NoObject =>
        holder'[h] \in Listed' /\ class'[holder'[h]] \in Holds[h]
  <2> SUFFICES ASSUME NEW h \in Holders, holder'[h] # NoObject
               PROVE  holder'[h] \in Listed' /\ class'[holder'[h]] \in Holds[h]
    OBVIOUS
  <2>1. CASE holder'[h] = holder[h]
    <3>1. holder[h] \in Listed /\ class[holder[h]] \in Holds[h]
      BY <2>1 DEF ShutdownInv, ObjectsSound
    <3>2. holder[h] # gone
      BY <2>1
    <3> QED  BY <2>1, <3>1, <3>2, <1>1, <1>2 DEF Evolves
  <2>2. CASE holder'[h] \in New /\ class'[holder'[h]] \in Holds[h]
    BY <2>2, <1>2
  <2> QED  BY <2>1, <2>2 DEF Evolves
<1>4. \A o \in Made' \ Listed' : class'[o] \in Destructors => o \in ran'
  <2> SUFFICES ASSUME NEW o \in Made' \ Listed', class'[o] \in Destructors PROVE o \in ran'
    OBVIOUS
  <2>1. o \in Made /\ class'[o] = class[o]
    BY <1>1, <1>2 DEF Evolves
  <2>2. CASE o = gone
    BY <2>1, <2>2, <1>1 DEF MayRun, Evolves
  <2>3. CASE o # gone
    <3>1. o \notin Listed
      BY <2>3, <1>2
    <3> QED  BY <2>1, <3>1 DEF ShutdownInv, ObjectsSound, Evolves
  <2> QED  BY <2>2, <2>3
<1>5. ObjectsSound'
  BY <1>3, <1>4 DEF ObjectsSound, CursorLive
<1>6. ASSUME phase' \in Phases, goal' \in {"ready", "idle"}, invoked' \in BOOLEAN,
             reach' \in [objects : SUBSET Nat, classes : SUBSET Classes]
      PROVE  ShutdownTypeOK'
  <2>1. cyclic' \subseteq Made' /\ ran' \subseteq Made'
    BY <1>1 DEF Evolves, ShutdownInv, ShutdownTypeOK
  <2>2. cursor' \in 0 .. Len(class')
    BY <1>1, <1>2 DEF Made, NoObject
  <2>3. made' \in 0 .. Len(class')
    <3>1. Len(class) <= Len(class')
      BY <1>1 DEF Made
    <3> QED  BY <3>1, <1>1 DEF Evolves, ShutdownInv, ShutdownTypeOK
  <2> QED  BY <1>2, <1>6, <2>1, <2>2, <2>3 DEF Evolves, ShutdownTypeOK
<1>7. \A o \in Made : MayRun(o)' => MayRun(o)
  BY DEF Evolves, MayRun
<1> QED  BY <1>1, <1>2, <1>5, <1>6, <1>7

\* The classes stay, and so does what they need.
LEMMA TableKeeps ==
  ASSUME ShutdownInv, NEW gone, Evolves(gone), UNCHANGED classes,
         phase' = "running" => classes = Classes,
         phase = "closed" => phase' = "closed"
  PROVE  TableSound'
<1>1. \A o \in Made : MayRun(o)' => MayRun(o)
  BY DEF Evolves, MayRun
<1>2. ASSUME phase' # "closed" PROVE \A c \in Classes \ classes' : holder'[c] = NoObject
  <2> SUFFICES ASSUME NEW c \in Classes \ classes PROVE holder'[c] = NoObject
    OBVIOUS
  <2>1. c \in Holders /\ c \notin Vars /\ holder[c] = NoObject
    BY <1>2, ShutdownAssumption DEF Holders, ShutdownInv, TableSound
  <2> QED  BY <2>1 DEF Evolves
<1>3. ASSUME phase' # "closed" PROVE \A o \in Listed' : MayRun(o)' => class'[o] \in classes
  <2> SUFFICES ASSUME NEW o \in Listed', MayRun(o)' PROVE class'[o] \in classes
    OBVIOUS
  <2>1. CASE o \in New
    BY <2>1 DEF Evolves
  <2>2. CASE o \notin New
    <3>1. o \in Listed /\ o \in Made
      BY <2>2 DEF Evolves, ShutdownInv, ShutdownTypeOK
    <3>2. class[o] \in classes /\ class'[o] = class[o]
      BY <3>1, <1>1, <1>3 DEF Evolves, ShutdownInv, TableSound
    <3> QED  BY <3>2
  <2> QED  BY <2>1, <2>2
<1>4. \A c \in classes' : Extends[c] \cup Needs[c] \subseteq classes'
  BY DEF ShutdownInv, TableSound
<1> QED  BY <1>2, <1>3, <1>4 DEF TableSound

\* A step that makes and destroys nothing.
Rests ==
  /\ UNCHANGED <<list, class, cyclic, ran>>
  /\ holder' \in [Holders -> 0 .. Len(class)]
  /\ \A h \in Holders : holder'[h] = NoObject \/ holder'[h] = holder[h]
  /\ classes' \subseteq Classes /\ made' \in {made, Len(class)}
  /\ phase' \in Phases /\ goal' \in {"ready", "idle"} /\ invoked' \in BOOLEAN
  /\ reach' \in [objects : SUBSET Nat, classes : SUBSET Classes]

LEMMA RestsIs ==
  ASSUME ShutdownInv, Rests
  PROVE  /\ Evolves(NoObject) /\ Made' = Made /\ Listed' = Listed
         /\ \A o : MayRun(o)' <=> MayRun(o)
<1>1. Made' = Made /\ Listed' = Listed /\ New = {}
  BY DEF Rests, Made, Listed, New
<1>2. NoObject \notin Listed
  BY DEF ShutdownInv, ShutdownTypeOK, Made, NoObject
<1>3. Evolves(NoObject)
  BY <1>1, <1>2 DEF Evolves, Rests, ShutdownInv, ShutdownTypeOK
<1> QED  BY <1>1, <1>3 DEF Rests, MayRun

LEMMA RestsKeeps ==
  ASSUME ShutdownInv, Rests, cursor' = NoObject \/ cursor' \in Listed,
         doomed' \subseteq Listed,
         \A o \in doomed' : o # cursor' /\ \A h \in Holders : holder[h] # o
  PROVE  ShutdownTypeOK' /\ ObjectsSound'
<1>1. Evolves(NoObject) /\ Listed' = Listed
  BY RestsIs
<1>2. \A o \in doomed' : o # cursor' /\ \A h \in Holders : holder'[h] # o
  <2>1. NoObject \notin Listed
    BY DEF ShutdownInv, ShutdownTypeOK, Made, NoObject
  <2> QED  BY <2>1 DEF Rests
<1>3. NoObject = NoObject
  OBVIOUS
<1>4. /\ ObjectsSound'
      /\ phase' \in Phases /\ goal' \in {"ready", "idle"} /\ invoked' \in BOOLEAN
         /\ reach' \in [objects : SUBSET Nat, classes : SUBSET Classes]
           => ShutdownTypeOK'
  BY <1>1, <1>2, <1>3, EvolvesKeeps
<1> QED  BY <1>4 DEF Rests

\* The same of a step that only goes on to another part of the code.
GoesOn == UNCHANGED <<list, class, holder, cyclic, ran, doomed, cursor, reach, invoked, classes, made>>

LEMMA GoesOnKeeps ==
  ASSUME ShutdownInv, GoesOn, phase' \in Phases, goal' \in {"ready", "idle"}
  PROVE  /\ Rests /\ ShutdownTypeOK' /\ ObjectsSound'
         /\ (phase' = "running" => classes = Classes) /\ (phase = "closed" => phase' = "closed")
              => TableSound'
         /\ Listed' = Listed /\ \A o : MayRun(o)' <=> MayRun(o)
         /\ Settled' = Settled
<1>1. Rests
  BY DEF GoesOn, Rests, ShutdownInv, ShutdownTypeOK
<1>2. /\ cursor' = NoObject \/ cursor' \in Listed
      /\ doomed' \subseteq Listed
      /\ \A o \in doomed' : o # cursor' /\ \A h \in Holders : holder[h] # o
  BY DEF GoesOn, ShutdownInv, ShutdownTypeOK, ObjectsSound, CursorLive
<1>3. ShutdownTypeOK' /\ ObjectsSound'
  BY <1>1, <1>2, RestsKeeps
<1>4. Evolves(NoObject) /\ Listed' = Listed /\ \A o : MayRun(o)' <=> MayRun(o)
  BY <1>1, RestsIs
<1>5. UNCHANGED classes
  BY DEF GoesOn
<1>6. Settled' = Settled
  BY <1>4 DEF GoesOn, Settled, Dying, IsHeld
<1> QED  BY <1>1, <1>3, <1>4, <1>5, <1>6, TableKeeps

LEMMA BehindAll ==
  ASSUME list \in Seq(Nat)
  PROVE  Behind(list, NoObject) = Listed
BY DEF Behind, Listed

-----------------------------------------------------------------------------
(* The steps.                                                              *)

LEMMA PhaseSteps ==
  ASSUME ShutdownInv, BeginChunk \/ EndChunk \/ AnotherRound \/ MarkingFails
  PROVE  ShutdownInv'
<1>1. /\ GoesOn /\ goal' \in {"ready", "idle"} /\ goal \in {"ready", "idle"}
      /\ phase' = "marking" \/ (phase = "marking" /\ phase' = goal)
      /\ cursor = NoObject /\ Settled /\ phase # "closed"
  <2>1. goal \in {"ready", "idle"}
    BY DEF ShutdownInv, ShutdownTypeOK
  <2>2. CASE BeginChunk
    BY <2>1, <2>2 DEF BeginChunk, GoesOn, objectVars, walkVars, ShutdownInv, Quiet
  <2>3. CASE EndChunk
    BY <2>1, <2>3 DEF EndChunk, GoesOn, objectVars, walkVars, ShutdownInv, Quiet
  <2>4. CASE AnotherRound
    BY <2>1, <2>4 DEF AnotherRound, GoesOn, objectVars, walkVars
  <2>5. CASE MarkingFails
    BY <2>1, <2>5 DEF MarkingFails, GoesOn, objectVars, walkVars, ShutdownInv, Quiet
  <2> QED  BY <2>2, <2>3, <2>4, <2>5
<1>2. phase' \in {"marking", "ready", "idle"}
  BY <1>1
<1>3. ShutdownTypeOK' /\ ObjectsSound' /\ TableSound' /\ Settled'
  BY <1>1, <1>2, GoesOnKeeps DEF Phases
<1>4. cursor' = cursor
  BY <1>1 DEF GoesOn
<1>5. Quiet'
  BY <1>1, <1>2, <1>3, <1>4 DEF Quiet
<1>6. Clearing' /\ ClosingInv'
  BY <1>2 DEF Clearing, ClosingInv
<1> QED  BY <1>3, <1>5, <1>6 DEF ShutdownInv

LEMMA StartChunkStep ==
  ASSUME ShutdownInv, StartChunk
  PROVE  ShutdownInv'
<1>1. /\ phase = "ready" /\ phase' = "running" /\ classes' = Classes /\ UNCHANGED <<goal, made>>
      /\ UNCHANGED objectVars /\ UNCHANGED walkVars
  BY DEF StartChunk
<1>2. Rests /\ doomed' = doomed /\ cursor' = cursor
  BY <1>1 DEF Rests, objectVars, walkVars, ShutdownInv, ShutdownTypeOK, Phases
<1>3. ShutdownTypeOK' /\ ObjectsSound'
  BY <1>2, RestsKeeps DEF ShutdownInv, ShutdownTypeOK, ObjectsSound, CursorLive
<1>4. TableSound'
  <2>1. Extends \in [Classes -> SUBSET Classes] /\ Needs \in [Classes -> SUBSET Classes]
    BY ShutdownAssumption
  <2>2. \A o \in Listed' : class'[o] \in Classes
    BY <1>3 DEF ShutdownTypeOK, Made
  <2> QED  BY <1>1, <2>1, <2>2 DEF TableSound
<1>5. Quiet'
  BY <1>1, <1>2 DEF Quiet, ShutdownInv
<1>6. Clearing' /\ ClosingInv'
  BY <1>1 DEF Clearing, ClosingInv
<1> QED  BY <1>3, <1>4, <1>5, <1>6 DEF ShutdownInv

LEMMA StoreStep ==
  ASSUME ShutdownInv, NEW h \in Vars \cup Classes, NEW c \in Holds[h], NEW loop \in BOOLEAN,
         Store(h, c, loop)
  PROVE  ShutdownInv'
<1>1. /\ phase = "running" /\ Settled /\ Creation(c)
      /\ holder' = [holder EXCEPT ![h] = Len(class')]
      /\ cyclic' = IF loop THEN cyclic \cup {Len(class')} ELSE cyclic
      /\ list' = Created \o list
      /\ UNCHANGED <<phase, goal, ran, doomed, cursor, reach, invoked, classes, made>>
  BY DEF Store, walkVars
<1>2. classes = Classes /\ c \in Classes /\ h \in Holders
  BY <1>1, ShutdownAssumption DEF Holders, ShutdownInv, TableSound
<1>3. /\ class' \in Seq(Classes) /\ Len(class') = Len(class) + 1 /\ Len(class') <= MaxObjects
      /\ Made \subseteq Made' /\ New = {Len(class')} /\ Len(class') > made
      /\ \A x \in Made : class'[x] = class[x]
      /\ class'[Len(class')] = c /\ c \in classes /\ Len(class') # NoObject
      /\ Created = <<Len(class')>> /\ Len(class') \in Nat
  BY <1>1, <1>2, CreationIs
<1>4. holder \in [Holders -> 0 .. Len(class)] /\ Len(class) \in Nat
  BY DEF ShutdownInv, ShutdownTypeOK
<1>5. holder' \in [Holders -> 0 .. Len(class')] /\ holder'[h] = Len(class')
      /\ \A x \in Holders : x # h => holder'[x] = holder[x]
  BY <1>1, <1>2, <1>3, <1>4
<1>6. \A x \in Holders : \/ holder'[x] = holder[x]
                         \/ /\ holder'[x] \in New /\ class'[holder'[x]] \in Holds[x]
                            /\ x \in Vars \cup classes
  BY <1>2, <1>3, <1>5 DEF Holders
<1>7. BodyIs
  <2>1. cyclic \subseteq cyclic' /\ cyclic' \subseteq cyclic \cup New
    BY <1>1, <1>3
  <2> QED  BY <1>3, <1>5, <1>6, <2>1 DEF BodyIs
<1>8. /\ list' \in Seq(Nat) /\ Distinct(list') /\ Listed' = Listed \cup New
  <2>1. list \in Seq(Nat) /\ Distinct(list) /\ Items(list) = Listed
    BY ListedIs DEF ShutdownInv, ShutdownTypeOK
  <2> QED  BY <1>1, <1>7, <2>1, Relinked
<1>9. Evolves(NoObject)
  <2>1. Listed \ {NoObject} = Listed
    BY DEF ShutdownInv, ShutdownTypeOK, Made, NoObject
  <2> QED  BY <1>1, <1>7, <1>8, <2>1 DEF Evolves, BodyIs, ShutdownInv, ShutdownTypeOK
<1>10. doomed = {} /\ cursor = NoObject
  BY <1>1, SettledMeans DEF ShutdownInv, Quiet
<1>11. ObjectsSound' /\ ShutdownTypeOK'
  <2>1. doomed' = {} /\ cursor' = NoObject
    BY <1>1, <1>10
  <2>2. /\ phase' \in Phases /\ goal' \in {"ready", "idle"} /\ invoked' \in BOOLEAN
        /\ reach' \in [objects : SUBSET Nat, classes : SUBSET Classes]
    BY <1>1 DEF ShutdownInv, ShutdownTypeOK
  <2> QED  BY <1>9, <2>1, <2>2, EvolvesKeeps
<1>12. TableSound'
  BY <1>1, <1>2, <1>9, TableKeeps
<1>13. Quiet' /\ Clearing' /\ ClosingInv'
  BY <1>1, <1>10 DEF Quiet, Clearing, ClosingInv
<1> QED  BY <1>11, <1>12, <1>13 DEF ShutdownInv

\* A holder lets go of what it holds.
LEMMA ReleaseIs ==
  ASSUME ShutdownInv, NEW h, holder' = [holder EXCEPT ![h] = NoObject],
         UNCHANGED <<phase, goal, list, class, cyclic, ran, doomed, cursor, reach, invoked, classes, made>>
  PROVE  /\ ShutdownTypeOK' /\ ObjectsSound' /\ TableSound'
         /\ Listed' = Listed /\ \A o : MayRun(o)' <=> MayRun(o)
         /\ \A x \in Holders : holder'[x] = NoObject \/ holder'[x] = holder[x]
<1>1. holder \in [Holders -> 0 .. Len(class)] /\ Len(class) \in Nat
  BY DEF ShutdownInv, ShutdownTypeOK
<1>2. holder' \in [Holders -> 0 .. Len(class)]
  <2>1. NoObject \in 0 .. Len(class)
    BY <1>1 DEF NoObject
  <2> QED  BY <1>1, <2>1
<1>3. \A x \in Holders : holder'[x] = NoObject \/ holder'[x] = holder[x]
  BY <1>1
<1>4. Rests
  BY <1>2, <1>3 DEF Rests, ShutdownInv, ShutdownTypeOK
<1>5. ShutdownTypeOK' /\ ObjectsSound'
  BY <1>4, RestsKeeps DEF ShutdownInv, ShutdownTypeOK, ObjectsSound, CursorLive
<1>6. Evolves(NoObject) /\ Listed' = Listed /\ \A o : MayRun(o)' <=> MayRun(o)
  BY <1>4, RestsIs
<1>7. TableSound'
  BY <1>6, TableKeeps DEF ShutdownInv, TableSound
<1> QED  BY <1>3, <1>5, <1>6, <1>7

LEMMA UnsetStep ==
  ASSUME ShutdownInv, NEW h, Unset(h)
  PROVE  ShutdownInv'
<1>1. /\ phase = "running" /\ holder' = [holder EXCEPT ![h] = NoObject]
      /\ UNCHANGED <<phase, goal, list, class, cyclic, ran, doomed, cursor, reach, invoked, classes, made>>
  BY DEF Unset, walkVars
<1>2. ShutdownTypeOK' /\ ObjectsSound' /\ TableSound'
  BY <1>1, ReleaseIs
<1>3. Quiet' /\ Clearing' /\ ClosingInv'
  BY <1>1 DEF Quiet, Clearing, ClosingInv, ShutdownInv
<1> QED  BY <1>2, <1>3 DEF ShutdownInv

-----------------------------------------------------------------------------
(* What is marked.                                                         *)

\* The rounds of expansion that begin at a given point.
Rounds(f, base, n) == f[0] = base /\ \A k \in 1 .. n : f[k] = Expand(f[k - 1])

LEMMA RoundsExist ==
  ASSUME NEW base, NEW N \in Nat
  PROVE  \E f : Rounds(f, base, N)
<1> SUFFICES ASSUME ~\E f : Rounds(f, base, N) PROVE FALSE
  OBVIOUS
<1> DEFINE S == {n \in Nat : ~\E f : Rounds(f, base, n)}
<1>1. PICK n \in S : \A j \in S : n <= j
  <2>1. S \in SUBSET Nat /\ S # {}
    OBVIOUS
  <2> QED  BY <2>1, LeastIs
<1>2. n # 0
  <2>1. PICK f : f = [k \in {0} |-> base]
    OBVIOUS
  <2>2. Rounds(f, base, 0)
    BY <2>1 DEF Rounds
  <2> QED  BY <1>1, <2>2
<1>3. n - 1 \in Nat /\ n \in Nat /\ n - 1 \notin S
  BY <1>1, <1>2
<1>4. PICK f : Rounds(f, base, n - 1)
  BY <1>3
<1>5. PICK g : g = [k \in 0 .. n |-> IF k = n THEN Expand(f[n - 1]) ELSE f[k]]
  OBVIOUS
<1>6. g[0] = base
  BY <1>2, <1>3, <1>4, <1>5 DEF Rounds
<1>7. ASSUME NEW k \in 1 .. n PROVE g[k] = Expand(g[k - 1])
  <2>0. k \in 0 .. n /\ k - 1 \in 0 .. n /\ k - 1 # n
    BY <1>3
  <2>1. g[k - 1] = f[k - 1]
    BY <1>5, <2>0
  <2>2. CASE k = n
    BY <1>5, <2>0, <2>1, <2>2
  <2>3. CASE k # n
    <3>1. k \in 1 .. n - 1
      BY <1>3, <2>3
    <3>2. f[k] = Expand(f[k - 1])
      BY <1>4, <3>1 DEF Rounds
    <3>3. g[k] = f[k]
      BY <1>5, <2>0, <2>3
    <3> QED  BY <2>1, <3>2, <3>3
  <2> QED  BY <2>2, <2>3
<1>8. Rounds(g, base, n)
  BY <1>6, <1>7 DEF Rounds
<1> QED  BY <1>1, <1>8

Roots == [objects |-> {holder[v] : v \in Vars} \ {NoObject}, classes |-> {}]
RoundsMax == MaxObjects + Cardinality(Classes)

LEMMA BuildIs ==
  ASSUME RoundsMax \in Nat
  PROVE  \E f : Rounds(f, Roots, RoundsMax) /\ reachability_build = f[RoundsMax]
<1> DEFINE Body(f, n) == IF n = 0 THEN Roots ELSE Expand(f[n - 1])
           F == CHOOSE f : f = [n \in 0 .. RoundsMax |-> Body(f, n)]
<1>1. PICK g : Rounds(g, Roots, RoundsMax)
  BY RoundsExist
<1>2. PICK h : h = [n \in 0 .. RoundsMax |-> g[n]]
  OBVIOUS
<1>3. h = [n \in 0 .. RoundsMax |-> Body(h, n)]
  <2> SUFFICES ASSUME NEW n \in 0 .. RoundsMax PROVE h[n] = Body(h, n)
    BY <1>2
  <2>1. CASE n = 0
    BY <2>1, <1>1, <1>2 DEF Rounds
  <2>2. CASE n # 0
    <3>1. n \in 1 .. RoundsMax /\ n - 1 \in 0 .. RoundsMax
      BY <2>2
    <3>2. h[n] = g[n] /\ h[n - 1] = g[n - 1]
      BY <1>2, <3>1
    <3>3. g[n] = Expand(g[n - 1])
      BY <1>1, <3>1 DEF Rounds
    <3> QED  BY <2>2, <3>2, <3>3
  <2> QED  BY <2>1, <2>2
<1>4. F = [n \in 0 .. RoundsMax |-> Body(F, n)]
  <2> HIDE DEF Body
  <2> QED  BY <1>3
<1>5. reachability_build = F[RoundsMax]
  BY DEF reachability_build, RoundsMax, Roots
<1> HIDE DEF F
<1>6. Rounds(F, Roots, RoundsMax)
  <2>1. F[0] = Roots
    <3>1. 0 \in 0 .. RoundsMax
      OBVIOUS
    <3>2. F[0] = Body(F, 0)
      BY <1>4, <3>1
    <3> QED  BY <3>2
  <2>2. ASSUME NEW k \in 1 .. RoundsMax PROVE F[k] = Expand(F[k - 1])
    <3>1. k \in 0 .. RoundsMax /\ k # 0
      OBVIOUS
    <3>2. F[k] = Body(F, k)
      BY <1>4, <3>1
    <3> QED  BY <3>1, <3>2
  <2> HIDE DEF Body
  <2> QED  BY <2>1, <2>2 DEF Rounds
<1> QED  BY <1>5, <1>6

\* What is marked is held by what is marked before, and of a class that stays.
Marks(cs, r) ==
  /\ r = [objects |-> r.objects, classes |-> r.classes]
  /\ r.objects \subseteq Made /\ r.classes \subseteq cs
  /\ \A o \in r.objects : class[o] \in cs /\ \E h \in Vars \cup r.classes : holder[h] = o

\* Classes that survive: those globals may hold, with all they lead to.
Survive(cs) ==
  /\ cs \subseteq Classes
  /\ \A v \in Vars : Holds[v] \subseteq cs
  /\ \A c \in cs : /\ Extends[c] \cup Holds[c] \subseteq cs
                   /\ \A family \in Family(c) : Needs[c] \subseteq family

LEMMA HeldIs ==
  ASSUME ShutdownInv, NEW cs, Survive(cs), NEW h \in Vars \cup cs, holder[h] # NoObject
  PROVE  holder[h] \in Made /\ class[holder[h]] \in cs
BY DEF Survive, ShutdownInv, ShutdownTypeOK, ObjectsSound, Holders

LEMMA RootsMark ==
  ASSUME ShutdownInv, NEW cs, Survive(cs)
  PROVE  Marks(cs, Roots)
<1>1. /\ Roots = [objects |-> Roots.objects, classes |-> Roots.classes]
      /\ Roots.classes = {} /\ Roots.objects = {holder[v] : v \in Vars} \ {NoObject}
  BY DEF Roots
<1>2. \A o \in Roots.objects : o \in Made /\ class[o] \in cs /\ \E h \in Vars : holder[h] = o
  BY <1>1, HeldIs
<1> QED  BY <1>1, <1>2 DEF Marks

LEMMA ExpandMarks ==
  ASSUME ShutdownInv, NEW cs, Survive(cs), NEW r, Marks(cs, r)
  PROVE  /\ Marks(cs, Expand(r))
         /\ r.objects \subseteq Expand(r).objects /\ r.classes \subseteq Expand(r).classes
<1>1. /\ Expand(r) = [objects |-> Expand(r).objects, classes |-> Expand(r).classes]
      /\ Expand(r).objects = r.objects \cup ({holder[c] : c \in r.classes} \ {NoObject})
      /\ Expand(r).classes = r.classes \cup {class[o] : o \in r.objects}
                                       \cup UNION {Extends[c] : c \in r.classes}
  BY DEF Expand
<1>2. r.objects \subseteq Expand(r).objects /\ r.classes \subseteq Expand(r).classes
  BY <1>1
<1>3. Expand(r).classes \subseteq cs
  BY <1>1 DEF Marks, Survive
<1>4. ASSUME NEW o \in Expand(r).objects
      PROVE  o \in Made /\ class[o] \in cs /\ \E h \in Vars \cup Expand(r).classes : holder[h] = o
  <2>1. CASE o \in r.objects
    BY <2>1, <1>2 DEF Marks
  <2>2. CASE o \notin r.objects
    <3>1. PICK c \in r.classes : o = holder[c] /\ o # NoObject
      BY <2>2, <1>1
    <3>2. c \in cs /\ c \in Expand(r).classes
      BY <1>2 DEF Marks
    <3> QED  BY <3>1, <3>2, HeldIs
  <2> QED  BY <2>1, <2>2
<1> QED  BY <1>1, <1>2, <1>3, <1>4 DEF Marks

Size(r) == Cardinality(r.objects) + Cardinality(r.classes)

LEMMA SizeIs ==
  ASSUME ShutdownInv, NEW cs, Survive(cs), NEW r, Marks(cs, r)
  PROVE  /\ IsFiniteSet(r.objects) /\ IsFiniteSet(r.classes)
         /\ Cardinality(r.objects) \in Nat /\ Cardinality(r.classes) \in Nat
         /\ Cardinality(r.objects) <= MaxObjects /\ Cardinality(r.classes) <= Cardinality(Classes)
         /\ Cardinality(r.objects) = MaxObjects => r.objects = 1 .. MaxObjects
         /\ Cardinality(r.classes) = Cardinality(Classes) => r.classes = Classes
         /\ Cardinality(Classes) \in Nat /\ r.objects \subseteq 1 .. MaxObjects
         /\ r.classes \subseteq Classes
<1>1. MaxObjects \in Nat /\ IsFiniteSet(Classes)
  BY ShutdownAssumption
<1>2. Made \subseteq 1 .. MaxObjects
  BY <1>1 DEF Made, ShutdownInv, ShutdownTypeOK
<1>3. r.objects \in SUBSET (1 .. MaxObjects) /\ r.classes \in SUBSET Classes
  BY <1>2 DEF Marks, Survive
<1>4. IsFiniteSet(1 .. MaxObjects) /\ Cardinality(1 .. MaxObjects) = MaxObjects
  BY <1>1, FS_Interval
<1>5. /\ IsFiniteSet(r.objects) /\ Cardinality(r.objects) <= MaxObjects
      /\ Cardinality(r.objects) = MaxObjects => r.objects = 1 .. MaxObjects
  BY <1>3, <1>4, FS_Subset
<1>6. /\ IsFiniteSet(r.classes) /\ Cardinality(r.classes) <= Cardinality(Classes)
      /\ Cardinality(r.classes) = Cardinality(Classes) => r.classes = Classes
  BY <1>1, <1>3, FS_Subset
<1>7. /\ Cardinality(r.objects) \in Nat /\ Cardinality(r.classes) \in Nat
      /\ Cardinality(Classes) \in Nat
  BY <1>1, <1>5, <1>6, FS_CardinalityType
<1> QED  BY <1>3, <1>5, <1>6, <1>7

LEMMA GrowsOrStays ==
  ASSUME ShutdownInv, NEW cs, Survive(cs), NEW r, Marks(cs, r), Expand(r) # r
  PROVE  Size(Expand(r)) >= Size(r) + 1
<1>1. PICK e : e = Expand(r)
  OBVIOUS
<1>2. Marks(cs, e) /\ r.objects \subseteq e.objects /\ r.classes \subseteq e.classes /\ e # r
  BY <1>1, ExpandMarks
<1>3. e.objects # r.objects \/ e.classes # r.classes
  BY <1>2 DEF Marks
<1>4. /\ Cardinality(r.objects) <= Cardinality(e.objects)
      /\ Cardinality(r.objects) = Cardinality(e.objects) => r.objects = e.objects
  BY <1>2, SizeIs, FS_Subset
<1>5. /\ Cardinality(r.classes) <= Cardinality(e.classes)
      /\ Cardinality(r.classes) = Cardinality(e.classes) => r.classes = e.classes
  BY <1>2, SizeIs, FS_Subset
<1>6. /\ Cardinality(r.objects) \in Nat /\ Cardinality(r.classes) \in Nat
      /\ Cardinality(e.objects) \in Nat /\ Cardinality(e.classes) \in Nat
  BY <1>2, SizeIs
<1> QED  BY <1>1, <1>3, <1>4, <1>5, <1>6 DEF Size

\* The rounds are enough: what is marked in the end leads to nothing more.
LEMMA BuildEnds ==
  ASSUME ShutdownInv, NEW cs, Survive(cs)
  PROVE  Marks(cs, reachability_build) /\ Expand(reachability_build) = reachability_build
<1>1. RoundsMax \in Nat /\ Cardinality(Classes) \in Nat /\ MaxObjects \in Nat
  BY ShutdownAssumption, FS_CardinalityType DEF RoundsMax
<1>2. PICK f : Rounds(f, Roots, RoundsMax) /\ reachability_build = f[RoundsMax]
  BY <1>1, BuildIs
<1>3. ASSUME NEW n \in 0 .. RoundsMax PROVE Marks(cs, f[n])
  <2> SUFFICES ASSUME ~Marks(cs, f[n]) PROVE FALSE
    OBVIOUS
  <2> DEFINE S == {k \in 0 .. RoundsMax : ~Marks(cs, f[k])}
  <2>1. PICK k \in S : \A j \in S : k <= j
    <3>1. S \in SUBSET Nat /\ S # {}
      BY <1>1
    <3> QED  BY <3>1, LeastIs
  <2>2. k # 0
    BY <2>1, <1>2, RootsMark DEF Rounds
  <2>3. k \in 1 .. RoundsMax /\ k - 1 \in 0 .. RoundsMax /\ k - 1 \notin S
    BY <2>1, <2>2, <1>1
  <2>4. Marks(cs, f[k - 1])
    BY <2>3
  <2>5. f[k] = Expand(f[k - 1])
    BY <1>2, <2>3 DEF Rounds
  <2>6. Marks(cs, f[k])
    BY <2>4, <2>5, ExpandMarks
  <2> QED  BY <2>1, <2>6
<1>4. ASSUME NEW n \in 0 .. RoundsMax PROVE Expand(f[n]) = f[n] \/ Size(f[n]) >= n
  <2> SUFFICES ASSUME ~(Expand(f[n]) = f[n] \/ Size(f[n]) >= n) PROVE FALSE
    OBVIOUS
  <2> DEFINE S == {k \in 0 .. RoundsMax : ~(Expand(f[k]) = f[k] \/ Size(f[k]) >= k)}
  <2>1. PICK k \in S : \A j \in S : k <= j
    <3>1. S \in SUBSET Nat /\ S # {}
      BY <1>1
    <3> QED  BY <3>1, LeastIs
  <2>2. k # 0
    <3>1. 0 \in 0 .. RoundsMax
      BY <1>1
    <3>2. Marks(cs, f[0])
      BY <1>3, <3>1
    <3>3. Size(f[0]) >= 0
      BY <3>2, SizeIs DEF Size
    <3> QED  BY <2>1, <3>3
  <2>3. k \in 1 .. RoundsMax /\ k - 1 \in 0 .. RoundsMax /\ k - 1 \notin S /\ k \in Nat
    BY <2>1, <2>2, <1>1
  <2>4. f[k] = Expand(f[k - 1]) /\ Marks(cs, f[k - 1]) /\ Marks(cs, f[k])
    BY <1>2, <1>3, <2>3 DEF Rounds
  <2>5. Expand(f[k - 1]) # f[k - 1]
    BY <2>1, <2>4
  <2>6. Size(f[k - 1]) >= k - 1
    BY <2>3, <2>5
  <2>7. Size(f[k]) >= Size(f[k - 1]) + 1
    BY <2>4, <2>5, GrowsOrStays
  <2>8. Size(f[k]) \in Nat /\ Size(f[k - 1]) \in Nat
    BY <2>4, SizeIs DEF Size
  <2>9. Size(f[k]) >= k
    BY <2>3, <2>6, <2>7, <2>8
  <2> QED  BY <2>1, <2>9
<1>5. PICK r : r = f[RoundsMax]
  OBVIOUS
<1>6. RoundsMax \in 0 .. RoundsMax
  BY <1>1
<1>7. Marks(cs, r)
  BY <1>3, <1>5, <1>6
<1>8. ASSUME Size(r) >= RoundsMax PROVE Expand(r) = r
  <2>1. r.objects = 1 .. MaxObjects /\ r.classes = Classes
    BY <1>1, <1>7, <1>8, SizeIs DEF Size, RoundsMax
  <2>2. PICK e : e = Expand(r)
    OBVIOUS
  <2>3. Marks(cs, e) /\ r.objects \subseteq e.objects /\ r.classes \subseteq e.classes
    BY <1>7, <2>2, ExpandMarks
  <2>4. e.objects = r.objects /\ e.classes = r.classes
    BY <2>1, <2>3, SizeIs
  <2> QED  BY <1>7, <2>2, <2>3, <2>4 DEF Marks
<1>9. Expand(r) = r
  BY <1>4, <1>5, <1>6, <1>8
<1> QED  BY <1>2, <1>5, <1>7, <1>9

LEMMA BuildSound ==
  ASSUME ShutdownInv, SurvivorsNameNoOthers, NEW r, r = reachability_build
  PROVE  /\ r \in [objects : SUBSET Nat, classes : SUBSET Classes]
         /\ \A o \in r.objects : /\ o \in Made /\ class[o] \in r.classes
                                 /\ \E h \in Vars \cup r.classes : holder[h] = o
         /\ \A c \in r.classes : /\ Extends[c] \subseteq r.classes
                                 /\ \A family \in Family(c) : Needs[c] \subseteq family
<1>1. PICK cs : Survive(cs)
  BY DEF SurvivorsNameNoOthers, Survive
<1>2. Marks(cs, r) /\ Expand(r) = r
  BY <1>1, BuildEnds
<1>3. /\ r = [objects |-> r.objects, classes |-> r.classes]
      /\ r.objects \subseteq Nat /\ r.classes \subseteq Classes
  BY <1>1, <1>2 DEF Marks, Survive, Made
<1>4. r \in [objects : SUBSET Nat, classes : SUBSET Classes]
  BY <1>3
<1>5. r.classes = r.classes \cup {class[o] : o \in r.objects} \cup UNION {Extends[c] : c \in r.classes}
  BY <1>2 DEF Expand
<1>6. (\A o \in r.objects : class[o] \in r.classes) /\ \A c \in r.classes : Extends[c] \subseteq r.classes
  BY <1>5
<1>7. \A o \in r.objects : o \in Made /\ \E h \in Vars \cup r.classes : holder[h] = o
  BY <1>2 DEF Marks
<1>8. \A c \in r.classes : \A family \in Family(c) : Needs[c] \subseteq family
  BY <1>1, <1>2 DEF Marks, Survive
<1> QED  BY <1>4, <1>6, <1>7, <1>8

LEMMA MarkStep ==
  ASSUME ShutdownInv, SurvivorsNameNoOthers, Mark
  PROVE  ShutdownInv'
<1>1. /\ phase = "marking" /\ phase' = "clearing" /\ cursor' = First /\ invoked' = FALSE
      /\ reach' = reachability_build
      /\ UNCHANGED <<goal, list, class, holder, cyclic, ran, doomed, classes, made>>
  BY DEF Mark, objectVars
<1>2. Settled /\ cursor = NoObject
  BY <1>1 DEF ShutdownInv, Quiet
<1>3. doomed = {} /\ \A o \in Listed : IsHeld(o)
  BY <1>2, SettledMeans
<1>4. /\ reach' \in [objects : SUBSET Nat, classes : SUBSET Classes]
      /\ \A o \in reach'.objects : /\ o \in Made /\ class[o] \in reach'.classes
                                   /\ \E h \in Vars \cup reach'.classes : holder[h] = o
      /\ \A c \in reach'.classes : /\ Extends[c] \subseteq reach'.classes
                                   /\ \A family \in Family(c) : Needs[c] \subseteq family
  BY <1>1, BuildSound
<1>5. list \in Seq(Nat) /\ Distinct(list) /\ NoObject \notin Listed /\ Listed = Items(list)
  BY ListedIs DEF ShutdownInv, ShutdownTypeOK, Made, NoObject
<1>6. Behind(list, cursor') = {} /\ cursor' \in Listed \cup {NoObject}
  BY <1>1, <1>5, FirstIs DEF First
<1>7. Rests
  BY <1>1, <1>4 DEF Rests, ShutdownInv, ShutdownTypeOK, Phases
<1>8. ShutdownTypeOK' /\ ObjectsSound'
  BY <1>1, <1>3, <1>6, <1>7, RestsKeeps
<1>9. Evolves(NoObject) /\ Made' = Made /\ Listed' = Listed
  BY <1>7, RestsIs
<1>10. TableSound'
  BY <1>1, <1>9, TableKeeps
<1>11. Quiet' /\ ClosingInv'
  BY <1>1 DEF Quiet, ClosingInv
<1>12. ReachSound'
  BY <1>1, <1>4, <1>9 DEF ReachSound
<1>13. \A o \in Listed : o \in cyclic \/ \E h \in Holders : holder[h] = o
  BY <1>2, <1>3, <1>5 DEF IsHeld, Holders
<1>14. Clearing'
  BY <1>1, <1>3, <1>6, <1>9, <1>12, <1>13 DEF Clearing
<1> QED  BY <1>8, <1>10, <1>11, <1>14 DEF ShutdownInv

LEMMA VisitKeeps ==
  ASSUME ShutdownInv, NEW runs \in BOOLEAN, Visit(runs), phase \in {"clearing", "closing"},
         UNCHANGED <<phase, goal, doomed, reach, classes, made>>
  PROVE  ShutdownTypeOK' /\ ObjectsSound' /\ TableSound' /\ Quiet'
<1>1. /\ Evolves(NoObject) /\ Settled /\ (cursor' = NoObject \/ cursor' \in Listed)
      /\ invoked' = (invoked \/ ran' # ran)
  BY VisitIs
<1>2. doomed = {}
  BY <1>1, SettledMeans
<1>3. /\ phase' \in Phases /\ goal' \in {"ready", "idle"} /\ invoked' \in BOOLEAN
      /\ reach' \in [objects : SUBSET Nat, classes : SUBSET Classes]
  BY <1>1 DEF ShutdownInv, ShutdownTypeOK
<1>4. cursor' = NoObject \/ cursor' \in Listed'
  <2>1. NoObject \notin Listed
    BY DEF ShutdownInv, ShutdownTypeOK, Made, NoObject
  <2> QED  BY <1>1, <2>1 DEF Evolves
<1>5. ShutdownTypeOK' /\ ObjectsSound'
  BY <1>1, <1>2, <1>3, <1>4, EvolvesKeeps
<1>6. TableSound'
  BY <1>1, TableKeeps
<1>7. Quiet'
  BY DEF Quiet
<1> QED  BY <1>5, <1>6, <1>7

LEMMA VisitUnreachableStep ==
  ASSUME ShutdownInv, VisitUnreachable
  PROVE  ShutdownInv'
<1>1. PICK runs \in BOOLEAN : runs <=> cursor \notin reach.objects
  OBVIOUS
<1>2. /\ phase = "clearing" /\ Visit(runs)
      /\ UNCHANGED <<phase, goal, doomed, reach, classes, made>>
  BY <1>1 DEF VisitUnreachable, Visit
<1>3. ShutdownTypeOK' /\ ObjectsSound' /\ TableSound' /\ Quiet'
  BY <1>2, VisitKeeps
<1>4. /\ runs /\ MayRun(cursor) => ran' = ran \cup {cursor}
      /\ ~(runs /\ MayRun(cursor)) => UNCHANGED <<ran, class, holder, cyclic, list>>
      /\ invoked' = (invoked \/ ran' # ran)
      /\ Behind(list', cursor') \subseteq Behind(list, cursor) \cup {cursor} \cup New
  BY <1>2, VisitIs
<1>5. ASSUME ~invoked' PROVE Clearing'
  <2>1. ~invoked /\ ~(runs /\ MayRun(cursor))
    BY <1>4, <1>5 DEF MayRun
  <2>2. UNCHANGED <<ran, class, holder, cyclic, list>>
    BY <1>4, <2>1
  <2>3. New = {} /\ Made' = Made /\ Listed' = Listed /\ \A o : MayRun(o)' <=> MayRun(o)
    BY <2>2 DEF New, Made, Listed, MayRun
  <2>4. /\ ReachSound /\ doomed = {}
        /\ \A o \in Listed : o \in cyclic \/ \E h \in Holders : holder[h] = o
        /\ \A o \in Behind(list, cursor) : MayRun(o) => o \in reach.objects
    BY <1>2, <2>1 DEF ShutdownInv, Clearing
  <2>5. ReachSound'
    BY <1>2, <2>2, <2>3, <2>4 DEF ReachSound
  <2>6. \A o \in Behind(list', cursor') : MayRun(o) => o \in reach.objects
    BY <1>1, <1>4, <2>1, <2>3, <2>4
  <2> QED  BY <1>2, <2>2, <2>3, <2>4, <2>5, <2>6 DEF Clearing
<1>6. ASSUME invoked' PROVE Clearing'
  BY <1>2, <1>6 DEF Clearing
<1>7. ClosingInv'
  BY <1>2 DEF ClosingInv
<1> QED  BY <1>3, <1>5, <1>6, <1>7 DEF ShutdownInv

\* The static properties of some classes are released.
LEMMA StaticsAre ==
  ASSUME ShutdownInv, NEW cs, ReleaseStatics(cs)
  PROVE  /\ holder' \in [Holders -> 0 .. Len(class)]
         /\ \A h \in Holders : holder'[h] = IF h \in cs THEN NoObject ELSE holder[h]
<1>1. holder \in [Holders -> 0 .. Len(class)] /\ NoObject \in 0 .. Len(class)
  BY DEF ShutdownInv, ShutdownTypeOK, NoObject
<1>2. holder' = [h \in Holders |-> IF h \in cs THEN NoObject ELSE holder[h]]
  BY <1>1 DEF ReleaseStatics
<1> QED  BY <1>1, <1>2

LEMMA ReleaseUnreachableStep ==
  ASSUME ShutdownInv, ReleaseUnreachable
  PROVE  ShutdownInv'
<1>1. /\ phase = "clearing" /\ Settled /\ cursor = NoObject /\ ~invoked
      /\ ReleaseStatics(classes \ reach.classes) /\ phase' = "cleared"
      /\ UNCHANGED <<goal, list, class, cyclic, ran, doomed, cursor, reach, invoked, classes, made>>
  BY DEF ReleaseUnreachable, walkVars
<1>2. /\ holder' \in [Holders -> 0 .. Len(class)]
      /\ \A h \in Holders : holder'[h] = IF h \in classes \ reach.classes THEN NoObject ELSE holder[h]
  BY <1>1, StaticsAre
<1>3. Rests
  BY <1>1, <1>2 DEF Rests, ShutdownInv, ShutdownTypeOK, Phases
<1>4. ShutdownTypeOK' /\ ObjectsSound'
  BY <1>1, <1>3, RestsKeeps DEF ShutdownInv, ShutdownTypeOK, ObjectsSound
<1>5. Evolves(NoObject) /\ Made' = Made /\ Listed' = Listed /\ \A o : MayRun(o)' <=> MayRun(o)
  BY <1>3, RestsIs
<1>6. TableSound'
  BY <1>1, <1>5, TableKeeps
<1>7. Quiet' /\ ClosingInv'
  BY <1>1 DEF Quiet, ClosingInv
<1>8. /\ ReachSound
      /\ \A o \in Behind(list, cursor) : MayRun(o) => o \in reach.objects
      /\ Behind(list, cursor) = Listed
  BY <1>1, BehindAll DEF ShutdownInv, Clearing, ShutdownTypeOK
<1>9. ReachSound'
  <2>1. ASSUME NEW o \in reach.objects
        PROVE  \E h \in Vars \cup reach.classes : holder'[h] = o
    <3>1. PICK h \in Vars \cup reach.classes : holder[h] = o
      BY <1>8 DEF ReachSound
    <3>2. h \in Holders /\ h \notin classes \ reach.classes
      BY ShutdownAssumption DEF Holders, ShutdownInv, ShutdownTypeOK
    <3> QED  BY <3>1, <3>2, <1>2
  <2> QED  BY <1>1, <1>5, <1>8, <2>1 DEF ReachSound
<1>10. \A c \in classes \ reach.classes : holder'[c] = NoObject
  BY <1>2 DEF Holders, ShutdownInv, ShutdownTypeOK
<1>11. Clearing'
  BY <1>1, <1>5, <1>8, <1>9, <1>10 DEF Clearing
<1> QED  BY <1>4, <1>6, <1>7, <1>11 DEF ShutdownInv

LEMMA CollectIs ==
  ASSUME ShutdownInv, pphp_gc_collect, phase \in {"cleared", "globals", "values"},
         phase' \in {"collected", "statics", "released"},
         UNCHANGED <<goal, list, class, holder, cyclic, ran, cursor, reach, invoked, classes, made>>
  PROVE  /\ ShutdownTypeOK' /\ ObjectsSound' /\ TableSound' /\ Quiet'
         /\ Made' = Made /\ Listed' = Listed /\ \A o : MayRun(o)' <=> MayRun(o)
<1>1. Rests
  BY DEF Rests, ShutdownInv, ShutdownTypeOK, Phases
<1>2. /\ doomed' \subseteq Listed
      /\ \A o \in doomed' : o # cursor' /\ \A h \in Holders : holder[h] # o
  BY DEF pphp_gc_collect, Garbage, Holders
<1>3. ShutdownTypeOK' /\ ObjectsSound'
  BY <1>1, <1>2, RestsKeeps DEF ShutdownInv, ObjectsSound, CursorLive
<1>4. Evolves(NoObject) /\ Made' = Made /\ Listed' = Listed /\ \A o : MayRun(o)' <=> MayRun(o)
  BY <1>1, RestsIs
<1>5. TableSound'
  BY <1>4, TableKeeps
<1>6. Quiet'
  BY DEF Quiet, ShutdownInv
<1> QED  BY <1>3, <1>4, <1>5, <1>6

LEMMA CollectUnreachableStep ==
  ASSUME ShutdownInv, CollectUnreachable
  PROVE  ShutdownInv'
<1>1. /\ phase = "cleared" /\ pphp_gc_collect /\ phase' = "collected"
      /\ UNCHANGED <<goal, list, class, holder, cyclic, ran, cursor, reach, invoked, classes, made>>
  BY DEF CollectUnreachable, walkVars
<1>2. /\ ShutdownTypeOK' /\ ObjectsSound' /\ TableSound' /\ Quiet'
      /\ Made' = Made /\ Listed' = Listed /\ \A o : MayRun(o)' <=> MayRun(o)
  BY <1>1, CollectIs
<1>3. Clearing'
  BY <1>1, <1>2 DEF ShutdownInv, Clearing, ReachSound
<1>4. ClosingInv'
  BY <1>1 DEF ClosingInv
<1> QED  BY <1>2, <1>3, <1>4 DEF ShutdownInv

LEMMA ForgetClassesStep ==
  ASSUME ShutdownInv, ForgetClasses
  PROVE  ShutdownInv'
<1>1. /\ phase = "collected" /\ classes' = classes \cap reach.classes /\ phase' = goal
      /\ UNCHANGED <<goal, list, class, holder, cyclic, ran, doomed, cursor, reach, invoked, made>>
      /\ goal \in {"ready", "idle"}
  BY DEF ForgetClasses, objectVars, walkVars, ShutdownInv, ShutdownTypeOK
<1>2. phase' \in {"ready", "idle"}
  BY <1>1
<1>3. Rests
  BY <1>1, <1>2 DEF Rests, ShutdownInv, ShutdownTypeOK, Phases
<1>4. ShutdownTypeOK' /\ ObjectsSound'
  BY <1>1, <1>3, RestsKeeps DEF ShutdownInv, ShutdownTypeOK, ObjectsSound, CursorLive
<1>5. Made' = Made /\ Listed' = Listed /\ \A o : MayRun(o)' <=> MayRun(o)
  BY <1>3, RestsIs
<1>6. /\ ReachSound
      /\ \A o \in Listed : MayRun(o) => o \in reach.objects
      /\ \A c \in classes \ reach.classes : holder[c] = NoObject
  BY <1>1 DEF ShutdownInv, Clearing
<1>7. TableSound'
  <2>1. \A c \in classes' : Extends[c] \subseteq classes'
    BY <1>1, <1>6 DEF ReachSound, ShutdownInv, TableSound
  <2>2. ASSUME NEW c \in classes' PROVE Needs[c] \subseteq classes'
    <3>1. classes' \in Family(c)
      BY <1>1, <2>1, <2>2 DEF Family, ShutdownInv, ShutdownTypeOK
    <3> QED  BY <1>1, <1>6, <2>2, <3>1 DEF ReachSound
  <2>3. \A c \in Classes \ classes' : holder[c] = NoObject
    BY <1>1, <1>6 DEF ShutdownInv, TableSound
  <2>4. \A o \in Listed : MayRun(o) => class[o] \in classes'
    BY <1>1, <1>6 DEF ReachSound, ShutdownInv, TableSound
  <2> QED  BY <1>1, <1>2, <1>5, <2>1, <2>2, <2>3, <2>4 DEF TableSound
<1>8. Quiet' /\ Clearing' /\ ClosingInv'
  BY <1>1, <1>2 DEF Quiet, Clearing, ClosingInv, ShutdownInv
<1> QED  BY <1>4, <1>7, <1>8 DEF ShutdownInv

LEMMA BeginCloseStep ==
  ASSUME ShutdownInv, BeginClose
  PROVE  ShutdownInv'
<1>1. /\ phase = "idle" /\ Settled /\ phase' = "closing" /\ cursor' = First /\ made' = Len(class)
      /\ UNCHANGED <<goal, list, class, holder, cyclic, ran, doomed, reach, invoked, classes>>
  BY DEF BeginClose, objectVars
<1>2. doomed = {}
  BY <1>1, SettledMeans
<1>3. list \in Seq(Nat) /\ Distinct(list) /\ NoObject \notin Listed /\ Listed = Items(list)
  BY ListedIs DEF ShutdownInv, ShutdownTypeOK, Made, NoObject
<1>4. Behind(list, cursor') = {} /\ cursor' \in Listed \cup {NoObject}
  BY <1>1, <1>3, FirstIs DEF First
<1>5. Rests
  BY <1>1 DEF Rests, ShutdownInv, ShutdownTypeOK, Phases
<1>6. ShutdownTypeOK' /\ ObjectsSound'
  BY <1>1, <1>2, <1>4, <1>5, RestsKeeps
<1>7. Evolves(NoObject)
  BY <1>5, RestsIs
<1>8. TableSound'
  BY <1>1, <1>7, TableKeeps
<1>9. Quiet' /\ Clearing' /\ ClosingInv'
  BY <1>1, <1>4 DEF Quiet, Clearing, ClosingInv
<1> QED  BY <1>6, <1>8, <1>9 DEF ShutdownInv

LEMMA VisitAllStep ==
  ASSUME ShutdownInv, VisitAll
  PROVE  ShutdownInv'
<1>1. /\ phase = "closing" /\ Visit(TRUE)
      /\ UNCHANGED <<phase, goal, doomed, reach, classes, made>>
  BY DEF VisitAll, Visit
<1>2. ShutdownTypeOK' /\ ObjectsSound' /\ TableSound' /\ Quiet'
  BY <1>1, VisitKeeps
<1>3. /\ MayRun(cursor) => ran' = ran \cup {cursor}
      /\ Behind(list', cursor') \subseteq Behind(list, cursor) \cup {cursor} \cup New
      /\ Evolves(NoObject)
  BY <1>1, VisitIs
<1>4. ASSUME NEW o \in Behind(list', cursor'), o \in 1 .. made PROVE ~MayRun(o)'
  <2>1. o \in Made /\ o \notin New
    BY <1>4 DEF New, Made, ShutdownInv, ShutdownTypeOK
  <2>2. class'[o] = class[o] /\ ran \subseteq ran'
    BY <1>3, <2>1 DEF Evolves
  <2>3. CASE o = cursor
    BY <1>3, <2>2, <2>3 DEF MayRun
  <2>4. CASE o \in Behind(list, cursor)
    BY <1>1, <1>4, <2>2, <2>4 DEF MayRun, ShutdownInv, ClosingInv, Old
  <2> QED  BY <1>3, <1>4, <2>1, <2>3, <2>4
<1>5. ClosingInv'
  BY <1>1, <1>4 DEF ClosingInv, Old
<1>6. Clearing'
  BY <1>1 DEF Clearing
<1> QED  BY <1>2, <1>5, <1>6 DEF ShutdownInv

LEMMA EndWalkStep ==
  ASSUME ShutdownInv, EndWalk
  PROVE  ShutdownInv'
<1>1. phase = "closing" /\ cursor = NoObject /\ phase' = "globals" /\ goal' = goal /\ GoesOn
  BY DEF EndWalk, GoesOn, objectVars, walkVars
<1>2. /\ ShutdownTypeOK' /\ ObjectsSound' /\ TableSound'
      /\ Listed' = Listed /\ \A o : MayRun(o)' <=> MayRun(o)
  BY <1>1, GoesOnKeeps DEF Phases, ShutdownInv, ShutdownTypeOK
<1>3. Behind(list, cursor) = Listed
  BY <1>1, BehindAll DEF ShutdownInv, ShutdownTypeOK
<1>4. \A o \in Listed' : Old(o)' => ~MayRun(o)'
  BY <1>1, <1>2, <1>3 DEF ShutdownInv, ClosingInv, Old, GoesOn
<1>5. Quiet' /\ Clearing' /\ ClosingInv'
  BY <1>1, <1>4 DEF Quiet, Clearing, ClosingInv, GoesOn
<1> QED  BY <1>2, <1>5 DEF ShutdownInv

LEMMA ReleaseGlobalStep ==
  ASSUME ShutdownInv, NEW v \in Vars, ReleaseGlobal(v)
  PROVE  ShutdownInv'
<1>1. /\ phase = "globals" /\ holder' = [holder EXCEPT ![v] = NoObject]
      /\ UNCHANGED <<phase, goal, list, class, cyclic, ran, doomed, cursor, reach, invoked, classes, made>>
  BY DEF ReleaseGlobal, walkVars
<1>2. /\ ShutdownTypeOK' /\ ObjectsSound' /\ TableSound'
      /\ Listed' = Listed /\ \A o : MayRun(o)' <=> MayRun(o)
  BY <1>1, ReleaseIs
<1>3. Quiet' /\ Clearing'
  BY <1>1 DEF Quiet, Clearing, ShutdownInv
<1>4. ClosingInv'
  BY <1>1, <1>2 DEF ShutdownInv, ClosingInv, Old
<1> QED  BY <1>2, <1>3, <1>4 DEF ShutdownInv

LEMMA CollectGlobalsStep ==
  ASSUME ShutdownInv, CollectGlobals
  PROVE  ShutdownInv'
<1>1. /\ phase = "globals" /\ pphp_gc_collect /\ phase' = "statics"
      /\ \A v \in Vars : holder[v] = NoObject
      /\ UNCHANGED <<goal, list, class, holder, cyclic, ran, cursor, reach, invoked, classes, made>>
  BY DEF CollectGlobals, walkVars
<1>2. /\ ShutdownTypeOK' /\ ObjectsSound' /\ TableSound' /\ Quiet'
      /\ Listed' = Listed /\ \A o : MayRun(o)' <=> MayRun(o)
  BY <1>1, CollectIs
<1>3. ~Old(NoObject)
  BY DEF Old, NoObject
<1>4. Clearing'
  BY <1>1 DEF Clearing
<1>5. ClosingInv'
  BY <1>1, <1>2, <1>3 DEF ShutdownInv, ClosingInv, Old
<1> QED  BY <1>2, <1>4, <1>5 DEF ShutdownInv

LEMMA ReleaseAllStaticsStep ==
  ASSUME ShutdownInv, ReleaseAllStatics
  PROVE  ShutdownInv'
<1>1. /\ phase = "statics" /\ ReleaseStatics(classes) /\ phase' = "values"
      /\ UNCHANGED <<goal, list, class, cyclic, ran, doomed, cursor, reach, invoked, classes, made>>
  BY DEF ReleaseAllStatics, walkVars
<1>2. /\ holder' \in [Holders -> 0 .. Len(class)]
      /\ \A h \in Holders : holder'[h] = IF h \in classes THEN NoObject ELSE holder[h]
  BY <1>1, StaticsAre
<1>3. Rests
  BY <1>1, <1>2 DEF Rests, ShutdownInv, ShutdownTypeOK, Phases
<1>4. ShutdownTypeOK' /\ ObjectsSound'
  BY <1>1, <1>3, RestsKeeps DEF ShutdownInv, ShutdownTypeOK, ObjectsSound, CursorLive
<1>5. Evolves(NoObject) /\ Listed' = Listed /\ \A o : MayRun(o)' <=> MayRun(o)
  BY <1>3, RestsIs
<1>6. TableSound'
  BY <1>1, <1>5, TableKeeps
<1>7. Quiet' /\ Clearing'
  BY <1>1 DEF Quiet, Clearing, ShutdownInv
<1>8. ASSUME NEW h \in Holders PROVE ~Old(holder'[h])
  <2>0. ~Old(NoObject)
    BY DEF Old, NoObject
  <2>1. CASE h \in classes
    BY <1>2, <2>0, <2>1
  <2>2. CASE h \in Vars /\ h \notin classes
    BY <1>1, <1>2, <2>2 DEF ShutdownInv, ClosingInv
  <2>3. CASE h \in Classes /\ h \notin classes
    BY <1>1, <1>2, <2>0, <2>3 DEF ShutdownInv, TableSound
  <2> QED  BY <2>1, <2>2, <2>3 DEF Holders
<1>9. Vars \subseteq Holders
  BY DEF Holders
<1>10. ClosingInv'
  BY <1>1, <1>5, <1>8, <1>9 DEF ShutdownInv, ClosingInv, Old
<1> QED  BY <1>4, <1>6, <1>7, <1>10 DEF ShutdownInv

LEMMA CollectStaticsStep ==
  ASSUME ShutdownInv, CollectStatics
  PROVE  ShutdownInv'
<1>1. /\ phase = "values" /\ pphp_gc_collect /\ phase' = "released" /\ Settled
      /\ UNCHANGED <<goal, list, class, holder, cyclic, ran, cursor, reach, invoked, classes, made>>
  BY DEF CollectStatics, walkVars
<1>2. /\ ShutdownTypeOK' /\ ObjectsSound' /\ TableSound' /\ Quiet'
      /\ Listed' = Listed /\ \A o : MayRun(o)' <=> MayRun(o)
  BY <1>1, CollectIs
<1>3. ASSUME NEW o \in Listed, Old(o) PROVE o \in doomed'
  <2>1. \A h \in Holders : holder[h] # o
    BY <1>1, <1>3 DEF ShutdownInv, ClosingInv
  <2>2. o # cursor
    BY <1>1, <1>3 DEF ShutdownInv, Quiet, Old, NoObject
  <2>3. o \in cyclic
    BY <1>1, <2>1, <2>2, SettledMeans DEF IsHeld, Holders
  <2> QED  BY <1>1, <2>1, <2>2, <2>3 DEF pphp_gc_collect, Garbage, Holders
<1>4. Clearing'
  BY <1>1 DEF Clearing
<1>5. ClosingInv'
  BY <1>1, <1>2, <1>3 DEF ShutdownInv, ClosingInv, Old
<1> QED  BY <1>2, <1>4, <1>5 DEF ShutdownInv

LEMMA ReleaseClassesStep ==
  ASSUME ShutdownInv, ReleaseClasses
  PROVE  ShutdownInv'
<1>1. /\ phase = "released" /\ classes' = {} /\ phase' = "closed" /\ Settled
      /\ UNCHANGED <<goal, list, class, holder, cyclic, ran, doomed, cursor, reach, invoked, made>>
  BY DEF ReleaseClasses, objectVars, walkVars
<1>2. Rests
  BY <1>1 DEF Rests, ShutdownInv, ShutdownTypeOK, Phases
<1>3. ShutdownTypeOK' /\ ObjectsSound'
  BY <1>1, <1>2, RestsKeeps DEF ShutdownInv, ShutdownTypeOK, ObjectsSound, CursorLive
<1>4. Listed' = Listed /\ \A o : MayRun(o)' <=> MayRun(o)
  BY <1>2, RestsIs
<1>5. TableSound'
  BY <1>1 DEF TableSound
<1>6. Settled'
  BY <1>1, <1>4 DEF Settled, Dying, IsHeld
<1>7. Quiet' /\ Clearing'
  BY <1>1, <1>6 DEF Quiet, Clearing, ShutdownInv
<1>8. ClosingInv'
  BY <1>1, <1>4 DEF ShutdownInv, ClosingInv, Old
<1> QED  BY <1>3, <1>5, <1>7, <1>8 DEF ShutdownInv

LEMMA DestroyStep ==
  ASSUME ShutdownInv, NEW o \in Dying, pobject_destroy(o)
  PROVE  ShutdownInv'
<1>1. /\ Evolves(o) /\ o \in Listed /\ o # cursor /\ \A h \in Holders : holder[h] # o
      /\ MayRun(o) => ran' = ran \cup {o}
      /\ ~MayRun(o) => UNCHANGED <<ran, class, holder, cyclic>>
      /\ Behind(list', cursor) \subseteq Behind(list, cursor) \cup New
  BY DestroyIs
<1>2. doomed' = doomed \ {o} /\ UNCHANGED <<phase, goal, cursor, reach, invoked, classes, made>>
  BY DEF pobject_destroy, walkVars
<1>3. Listed' = (Listed \ {o}) \cup New /\ Listed \subseteq Made /\ NoObject \notin Made
  BY <1>1 DEF Evolves, ShutdownInv, ShutdownTypeOK, Made, NoObject
<1>4. ShutdownTypeOK' /\ ObjectsSound'
  <2>1. doomed' \subseteq Listed' /\ (cursor' = NoObject \/ cursor' \in Listed')
    BY <1>1, <1>2, <1>3 DEF ShutdownInv, ShutdownTypeOK, ObjectsSound, CursorLive
  <2>2. ASSUME NEW x \in doomed' PROVE x # cursor' /\ \A h \in Holders : holder'[h] # x
    <3>1. x \in Made /\ x \notin New /\ x \in doomed /\ x # NoObject
      BY <1>2, <1>3, <2>2 DEF New, ShutdownInv, ShutdownTypeOK
    <3> QED  BY <1>1, <1>2, <3>1 DEF Evolves, ShutdownInv, ObjectsSound
  <2>3. MayRun(o) => o \in ran'
    BY <1>1
  <2>4. /\ phase' \in Phases /\ goal' \in {"ready", "idle"} /\ invoked' \in BOOLEAN
        /\ reach' \in [objects : SUBSET Nat, classes : SUBSET Classes]
    BY <1>2 DEF ShutdownInv, ShutdownTypeOK
  <2> QED  BY <1>1, <2>1, <2>2, <2>3, <2>4, EvolvesKeeps
<1>5. TableSound'
  BY <1>1, <1>2, TableKeeps DEF ShutdownInv, TableSound
<1>6. ~Settled
  BY DEF Settled
<1>7. Quiet'
  BY <1>2, <1>6 DEF ShutdownInv, Quiet
<1>8. Clearing'
  <2>1. ~(phase = "clearing" /\ ~invoked)
    <3>1. SUFFICES ASSUME phase = "clearing", ~invoked PROVE FALSE
      OBVIOUS
    <3>2. /\ doomed = {}
          /\ \A x \in Listed : x \in cyclic \/ \E h \in Holders : holder[h] = x
      BY <3>1 DEF ShutdownInv, Clearing
    <3>3. \A x \in Listed : IsHeld(x)
      BY <3>2 DEF IsHeld, Holders
    <3> QED  BY <1>6, <3>2, <3>3, SettledIs
  <2>2. ASSUME phase \in {"cleared", "collected"}
        PROVE  /\ ReachSound'
               /\ \A x \in Listed' : MayRun(x)' => x \in reach'.objects
               /\ \A c \in classes' \ reach'.classes : holder'[c] = NoObject
    <3>1. /\ ReachSound
          /\ \A x \in Listed : MayRun(x) => x \in reach.objects
          /\ \A c \in classes \ reach.classes : holder[c] = NoObject
      BY <2>2 DEF ShutdownInv, Clearing
    <3>2. Vars \cup reach.classes \subseteq Holders
      BY DEF Holders, ShutdownInv, ShutdownTypeOK
    <3>3. ~MayRun(o)
      BY <1>1, <3>1, <3>2 DEF ReachSound
    <3>4. UNCHANGED <<ran, class, holder, cyclic>>
      BY <1>1, <3>3
    <3>5. Made' = Made /\ New = {} /\ \A x : MayRun(x)' <=> MayRun(x)
      BY <3>4 DEF Made, New, MayRun
    <3>6. ReachSound'
      BY <1>2, <3>1, <3>4, <3>5 DEF ReachSound
    <3> QED  BY <1>2, <1>3, <3>1, <3>4, <3>5, <3>6
  <2> QED  BY <1>2, <2>1, <2>2 DEF Clearing
<1>9. ClosingInv'
  <2>1. \A x \in New : ~Old(x)
    BY <1>1 DEF Evolves, Old, ShutdownInv, ShutdownTypeOK
  <2>2. \A x \in Listed : MayRun(x)' => MayRun(x)
    BY <1>1, <1>3 DEF Evolves, MayRun
  <2>3. Behind(list, cursor) \subseteq Listed
    BY DEF Behind, Listed, ShutdownInv, ShutdownTypeOK
  <2>4. \A h \in Holders : Old(holder'[h]) => holder'[h] = holder[h]
    <3>1. ~Old(NoObject)
      BY DEF Old, NoObject
    <3> QED  BY <1>1, <2>1, <3>1 DEF Evolves
  <2>5. \A x : Old(x)' <=> Old(x)
    BY <1>2 DEF Old
  <2>6. phase = "closing" => \A x \in Behind(list', cursor') : Old(x) => ~MayRun(x)'
    BY <1>1, <1>2, <2>1, <2>2, <2>3 DEF ShutdownInv, ClosingInv
  <2>7. phase \in {"globals", "statics", "values", "released", "closed"}
          => \A x \in Listed' : Old(x) => ~MayRun(x)'
    BY <1>3, <2>1, <2>2 DEF ShutdownInv, ClosingInv
  <2>8. /\ phase \in {"statics", "values", "released", "closed"} => \A v \in Vars : ~Old(holder'[v])
        /\ phase \in {"values", "released", "closed"} => \A h \in Holders : ~Old(holder'[h])
    BY <2>4 DEF ShutdownInv, ClosingInv, Holders
  <2>9. phase \in {"released", "closed"} => \A x \in Listed' : Old(x) => x \in doomed'
    BY <1>2, <1>3, <2>1 DEF ShutdownInv, ClosingInv
  <2> QED  BY <1>2, <2>5, <2>6, <2>7, <2>8, <2>9 DEF ClosingInv
<1> QED  BY <1>4, <1>5, <1>7, <1>8, <1>9 DEF ShutdownInv

LEMMA ShutdownBegins == ShutdownInit => ShutdownInv
<1> SUFFICES ASSUME ShutdownInit PROVE ShutdownInv
  OBVIOUS
<1>1. /\ phase = "idle" /\ goal = "idle" /\ list = <<>> /\ class = <<>>
      /\ holder = [h \in Holders |-> NoObject]
      /\ cyclic = {} /\ ran = {} /\ doomed = {} /\ classes = {} /\ made = 0
      /\ cursor = NoObject /\ reach = Unmarked /\ invoked = FALSE
  BY DEF ShutdownInit, Holders
<1>2. Listed = {} /\ Made = {} /\ Len(class) = 0
  BY <1>1 DEF Listed, Made
<1>3. holder \in [Holders -> 0 .. Len(class)] /\ \A h \in Holders : holder[h] = NoObject
  BY <1>1, <1>2 DEF NoObject
<1>4. class \in Seq(Classes) /\ list \in Seq(Nat) /\ Distinct(list)
  BY <1>1 DEF Distinct
<1>5. ShutdownTypeOK
  <2>1. reach \in [objects : SUBSET Nat, classes : SUBSET Classes]
    BY <1>1 DEF Unmarked
  <2>2. cursor \in 0 .. Len(class) /\ made \in 0 .. Len(class) /\ Len(class) <= MaxObjects
    BY <1>1, <1>2, ShutdownAssumption DEF NoObject
  <2>3. phase \in Phases /\ goal \in {"ready", "idle"} /\ invoked \in BOOLEAN
    BY <1>1 DEF Phases
  <2>4. /\ cyclic \subseteq Made /\ ran \subseteq Made /\ doomed \subseteq Listed
        /\ classes \subseteq Classes /\ Listed \subseteq Made
    BY <1>1, <1>2
  <2> QED  BY <1>3, <1>4, <2>1, <2>2, <2>3, <2>4 DEF ShutdownTypeOK
<1>6. ObjectsSound /\ TableSound /\ Quiet /\ Clearing /\ ClosingInv
  BY <1>1, <1>2, <1>3 DEF ObjectsSound, CursorLive, TableSound, Quiet, Clearing, ClosingInv, Holders
<1> QED  BY <1>5, <1>6 DEF ShutdownInv

LEMMA ShutdownStep ==
  ASSUME SurvivorsNameNoOthers, ShutdownInv, [ShutdownNext]_shutdownVars
  PROVE  ShutdownInv'
<1>1. CASE Program
  <2>1. CASE BeginChunk \/ EndChunk
    BY <2>1, PhaseSteps
  <2>2. CASE StartChunk
    BY <2>2, StartChunkStep
  <2>3. CASE \E h \in Vars \cup Classes : Unset(h)
    BY <2>3, UnsetStep
  <2>4. CASE \E h \in Vars \cup Classes : \E c \in Holds[h], loop \in BOOLEAN : Store(h, c, loop)
    BY <2>4, StoreStep
  <2> QED  BY <1>1, <2>1, <2>2, <2>3, <2>4 DEF Program
<1>2. CASE pphp_clear_user_classes
  BY <1>2, MarkStep, PhaseSteps, VisitUnreachableStep, ReleaseUnreachableStep,
     CollectUnreachableStep, ForgetClassesStep DEF pphp_clear_user_classes
<1>3. CASE Closing
  BY <1>3, BeginCloseStep, VisitAllStep, EndWalkStep, ReleaseGlobalStep, CollectGlobalsStep,
     ReleaseAllStaticsStep, CollectStaticsStep, ReleaseClassesStep DEF Closing
<1>4. CASE \E o \in Dying : pobject_destroy(o)
  BY <1>4, DestroyStep
<1>5. CASE UNCHANGED shutdownVars
  <2>1. GoesOn /\ UNCHANGED <<phase, goal>>
    BY <1>5 DEF shutdownVars, objectVars, walkVars, GoesOn
  <2>2. /\ ShutdownTypeOK' /\ ObjectsSound' /\ TableSound' /\ Listed' = Listed
        /\ \A o : MayRun(o)' <=> MayRun(o)
        /\ Settled' = Settled
    BY <2>1, GoesOnKeeps DEF ShutdownInv, ShutdownTypeOK, TableSound
  <2>3. Made' = Made
    BY <2>1 DEF GoesOn, Made
  <2>4. Quiet'
    BY <2>1, <2>2 DEF Quiet, GoesOn, ShutdownInv
  <2>5. ReachSound' <=> ReachSound
    BY <2>1, <2>3 DEF ReachSound, GoesOn
  <2>6. Clearing'
    BY <2>1, <2>2, <2>5 DEF Clearing, GoesOn, ShutdownInv
  <2>7. ClosingInv'
    BY <2>1, <2>2 DEF ClosingInv, GoesOn, ShutdownInv, Old
  <2> QED  BY <2>2, <2>4, <2>6, <2>7 DEF ShutdownInv
<1> QED  BY <1>1, <1>2, <1>3, <1>4, <1>5 DEF ShutdownNext, Done

\* A destructor runs for an object in the list, in a walk or because the
\* object goes.
LEMMA RunsAre ==
  ASSUME ShutdownInv, [ShutdownNext]_shutdownVars, NEW o \in ran' \ ran
  PROVE  /\ o \in Listed /\ MayRun(o) /\ phase # "closed"
         /\ phase \in {"globals", "statics", "values", "released"} => o > made
<1>1. CASE VisitUnreachable \/ VisitAll
  <2>1. PICK runs \in BOOLEAN : Visit(runs)
    <3>1. (cursor \notin reach.objects) \in BOOLEAN /\ TRUE \in BOOLEAN
      OBVIOUS
    <3> QED  BY <1>1, <3>1 DEF VisitUnreachable, VisitAll
  <2>2. phase \in {"clearing", "closing"}
    BY <1>1 DEF VisitUnreachable, VisitAll
  <2>3. cursor \in Listed /\ MayRun(cursor) /\ ran' = ran \cup {cursor}
    BY <2>1, VisitIs
  <2> QED  BY <2>2, <2>3
<1>2. CASE \E x \in Dying : pobject_destroy(x)
  <2>1. PICK x \in Dying : pobject_destroy(x)
    BY <1>2
  <2>2. o \in Listed /\ MayRun(o)
    BY <2>1, DestroyIs
  <2>3. phase # "closed"
    BY <2>1 DEF ShutdownInv, Quiet, Settled
  <2>4. o \in Made /\ made \in Nat
    BY <2>2 DEF ShutdownInv, ShutdownTypeOK
  <2>5. phase \in {"globals", "statics", "values", "released"} => ~Old(o)
    BY <2>2 DEF ShutdownInv, ClosingInv
  <2> QED  BY <2>2, <2>3, <2>4, <2>5 DEF Old, Made
<1>3. CASE Program
  BY <1>3 DEF Program, BeginChunk, StartChunk, EndChunk, Unset, Store, objectVars
<1>4. CASE pphp_clear_user_classes /\ ~VisitUnreachable
  BY <1>4 DEF pphp_clear_user_classes, Mark, MarkingFails, AnotherRound, ReleaseUnreachable,
              CollectUnreachable, ForgetClasses, objectVars
<1>5. CASE Closing /\ ~VisitAll
  BY <1>5 DEF Closing, BeginClose, EndWalk, ReleaseGlobal, CollectGlobals, ReleaseAllStatics,
              CollectStatics, ReleaseClasses, objectVars
<1>6. CASE UNCHANGED shutdownVars
  BY <1>6 DEF shutdownVars, objectVars
<1> QED  BY <1>1, <1>2, <1>3, <1>4, <1>5, <1>6 DEF ShutdownNext, Done

LEMMA EndIs == ShutdownInv => CursorLive /\ NothingRemains
<1> SUFFICES ASSUME ShutdownInv PROVE CursorLive /\ NothingRemains
  OBVIOUS
<1>1. CursorLive
  BY DEF ShutdownInv, ObjectsSound
<1>2. ASSUME phase = "closed", Settled
      PROVE  /\ \A o \in Listed : o > made
             /\ \A o \in 1 .. made : class[o] \in Destructors => o \in ran
  <2>1. \A o \in Listed : ~Old(o)
    BY <1>2, SettledMeans DEF ShutdownInv, ClosingInv
  <2>2. Listed \subseteq Made /\ made \in 0 .. Len(class) /\ Len(class) \in Nat
    BY DEF ShutdownInv, ShutdownTypeOK
  <2>3. \A o \in 1 .. made : o \in Made \ Listed
    BY <2>1, <2>2 DEF Old, Made
  <2>4. \A o \in Listed : o > made
    BY <2>1, <2>2 DEF Old, Made
  <2> QED  BY <2>3, <2>4 DEF ShutdownInv, ObjectsSound
<1> QED  BY <1>1, <1>2 DEF NothingRemains

\* Walks never stand on a freed object, destructors run while globals and
\* classes are there, and pphp_close leaves nothing but what destructors have
\* made meanwhile (pphp_clear_user_classes, pphp_close).
THEOREM StatesEndOrderly == SurvivorsNameNoOthers => (ShutdownSpec => EndsOrderly)
<1> SUFFICES ASSUME SurvivorsNameNoOthers PROVE ShutdownSpec => EndsOrderly
  OBVIOUS
<1>1. ShutdownInv /\ [ShutdownNext]_shutdownVars => ShutdownInv'
  BY ShutdownStep
<1>2. ShutdownInv /\ [ShutdownNext]_shutdownVars =>
        [\A o \in ran' \ ran :
           phase \in {"globals", "statics", "values", "released", "closed"} => o > made]_shutdownVars
  <2> SUFFICES ASSUME ShutdownInv, [ShutdownNext]_shutdownVars, NEW o \in ran' \ ran,
                      phase \in {"globals", "statics", "values", "released", "closed"}
               PROVE  o > made
    OBVIOUS
  <2> QED  BY RunsAre
<1>3. ShutdownInv /\ [ShutdownNext]_shutdownVars =>
        [\A o \in ran' \ ran : Needs[class[o]] \cup Extends[class[o]] \subseteq classes]_shutdownVars
  <2> SUFFICES ASSUME ShutdownInv, [ShutdownNext]_shutdownVars, NEW o \in ran' \ ran
               PROVE  Needs[class[o]] \cup Extends[class[o]] \subseteq classes
    OBVIOUS
  <2>1. o \in Listed /\ MayRun(o) /\ phase # "closed"
    BY RunsAre
  <2> QED  BY <2>1 DEF ShutdownInv, TableSound
<1>4. ShutdownInv => CursorLive /\ NothingRemains
  BY EndIs
<1> QED
  BY ShutdownBegins, <1>1, <1>2, <1>3, <1>4, PTL
     DEF ShutdownSpec, EndsOrderly, DestructorsSeeGlobals, DestructorsFindClasses

-----------------------------------------------------------------------------
(* Tables in the heap.                                                     *)

\* The slots of table t in use, in heap h.
InUse(h, t) == [i \in 1 .. t.n |-> h[t.p].slots[i]]

IsTable(t) == t \in [p : Nat, n : Nat, c : Nat] /\ t.n <= t.c

InHeap(h, t) ==
  /\ IsTable(t)
  /\ t.p = 0 => t.c = 0
  /\ t.p # 0 => /\ t.p \in 1 .. Len(h) /\ DOMAIN h[t.p] = {"state", "slots"}
                /\ h[t.p].state = "live" /\ IsSeq(h[t.p].slots) /\ Len(h[t.p].slots) = t.c

\* Two tables that share no block.
Apart(t, u) == t.p = 0 \/ u.p = 0 \/ t.p # u.p

LEMMA PrefixIs ==
  ASSUME NEW s, IsSeq(s), NEW n \in 0 .. Len(s)
  PROVE  SubSeq(s, 1, n) = [i \in 1 .. n |-> s[i]]
<1>1. PICK S : s \in Seq(S)
  BY DEF IsSeq
<1> QED  BY <1>1

LEMMA TupleIs ==
  ASSUME NEW n \in Nat, NEW f, DOMAIN f = 1 .. n, f = [i \in 1 .. n |-> f[i]]
  PROVE  IsSeq(f) /\ Len(f) = n
<1> DEFINE S == {f[i] : i \in 1 .. n}
<1>1. f \in [1 .. n -> S]
  OBVIOUS
<1>2. f \in Seq(S) /\ Len(f) = n
  BY <1>1
<1> QED  BY <1>2 DEF IsSeq

LEMMA InUseAre ==
  ASSUME NEW h, NEW t, InHeap(h, t)
  PROVE  /\ IsSeq(InUse(h, t)) /\ Len(InUse(h, t)) = t.n /\ DOMAIN InUse(h, t) = 1 .. t.n
         /\ \A i \in 1 .. t.n : InUse(h, t)[i] = h[t.p].slots[i]
<1>1. t.n \in Nat
  BY DEF InHeap, IsTable
<1>2. DOMAIN InUse(h, t) = 1 .. t.n /\ InUse(h, t) = [i \in 1 .. t.n |-> InUse(h, t)[i]]
  BY DEF InUse
<1> QED  BY <1>1, <1>2, TupleIs DEF InUse

LEMMA EntriesAre ==
  ASSUME NEW t, InHeap(blocks, t)
  PROVE  Entries(t) = InUse(blocks, t) /\ ~IsFreed(t)
<1>1. ~IsFreed(t)
  BY DEF InHeap, IsFreed, Freed
<1>2. CASE t.p = 0
  <2>1. t.n = 0
    BY <1>2 DEF InHeap, IsTable
  <2>2. InUse(blocks, t) = <<>>
    BY <2>1 DEF InUse
  <2> QED  BY <1>1, <1>2, <2>2 DEF Entries
<1>3. CASE t.p # 0
  <2>1. IsSeq(blocks[t.p].slots) /\ t.n \in 0 .. Len(blocks[t.p].slots)
    BY <1>3 DEF InHeap, IsTable
  <2>2. Entries(t) = SubSeq(blocks[t.p].slots, 1, t.n)
    BY <1>1, <1>3 DEF Entries
  <2> QED  BY <1>1, <2>1, <2>2, PrefixIs DEF InUse
<1> QED  BY <1>2, <1>3

\* Appending to a table leaves the tables apart from it alone.
LEMMA GrowIs ==
  ASSUME IsSeq(blocks), NEW t, InHeap(blocks, t), NEW x, NEW first \in Nat \ {0},
         NEW t2, t2 = Grow(t, x, first).table, NEW h2, h2 = Grow(t, x, first).heap
  PROVE  /\ IsSeq(h2) /\ Len(blocks) <= Len(h2) /\ InHeap(h2, t2) /\ t2.n = t.n + 1
         /\ \A i \in 1 .. t.n : InUse(h2, t2)[i] = InUse(blocks, t)[i]
         /\ InUse(h2, t2)[t.n + 1] = x
         /\ \A u : InHeap(blocks, u) /\ Apart(t, u) =>
                   InHeap(h2, u) /\ Apart(t2, u) /\ InUse(h2, u) = InUse(blocks, u)
<1>1. t.p \in Nat /\ t.n \in Nat /\ t.c \in Nat /\ t.n <= t.c /\ DOMAIN t = {"p", "n", "c"}
      /\ t = [p |-> t.p, n |-> t.n, c |-> t.c]
  BY DEF InHeap, IsTable
<1>2. CASE t.n < t.c
  <2>1. t.p # 0 /\ t.p \in 1 .. Len(blocks)
    BY <1>1, <1>2 DEF InHeap
  <2> DEFINE old == blocks[t.p].slots
             new == [old EXCEPT ![t.n + 1] = x]
             b == [blocks[t.p] EXCEPT !.slots = new]
  <2>2. t2 = [t EXCEPT !.n = @ + 1] /\ h2 = Replaced(blocks, t.p, b)
    BY <1>2 DEF Grow, Replaced
  <2>3. t2.n = t.n + 1 /\ t2.p = t.p /\ t2.c = t.c /\ IsTable(t2)
    BY <1>1, <1>2, <2>2 DEF IsTable
  <2>4. IsSeq(old) /\ Len(old) = t.c /\ t.n + 1 \in 1 .. Len(old) /\ new = Replaced(old, t.n + 1, x)
    BY <1>1, <1>2, <2>1 DEF InHeap, Replaced
  <2> HIDE DEF new, old
  <2>5. IsSeq(new) /\ Len(new) = t.c /\ new[t.n + 1] = x
        /\ \A i \in 1 .. t.c : i # t.n + 1 => new[i] = old[i]
    BY <2>4, ReplacedIs
  <2>6. DOMAIN b = {"state", "slots"} /\ b.state = "live" /\ b.slots = new
    BY <2>1 DEF InHeap
  <2> HIDE DEF b
  <2>7. IsSeq(h2) /\ Len(h2) = Len(blocks) /\ h2[t.p] = b
        /\ \A i \in 1 .. Len(blocks) : i # t.p => h2[i] = blocks[i]
    BY <2>1, <2>2, ReplacedIs
  <2>8. InHeap(h2, t2)
    BY <2>1, <2>3, <2>5, <2>6, <2>7 DEF InHeap
  <2>9. \A i \in 1 .. t.n + 1 : InUse(h2, t2)[i] = new[i]
    BY <2>3, <2>6, <2>7 DEF InUse
  <2>10. \A i \in 1 .. t.n : InUse(blocks, t)[i] = old[i]
    BY DEF InUse, old
  <2>11. \A i \in 1 .. t.n : InUse(h2, t2)[i] = InUse(blocks, t)[i]
    BY <1>1, <1>2, <2>5, <2>9, <2>10
  <2>12. ASSUME NEW u, InHeap(blocks, u), Apart(t, u)
         PROVE  InHeap(h2, u) /\ Apart(t2, u) /\ InUse(h2, u) = InUse(blocks, u)
    <3>1. CASE u.p = 0
      BY <2>12, <3>1 DEF InHeap, Apart, InUse, IsTable
    <3>2. CASE u.p # 0
      <4>1. u.p \in 1 .. Len(blocks) /\ h2[u.p] = blocks[u.p]
        BY <2>1, <2>7, <2>12, <3>2 DEF InHeap, Apart
      <4> QED  BY <2>3, <2>7, <2>12, <3>2, <4>1 DEF InHeap, Apart, InUse
    <3> QED  BY <3>1, <3>2
  <2> QED  BY <1>1, <2>3, <2>5, <2>7, <2>8, <2>9, <2>11, <2>12, SeqIs
<1>3. CASE ~(t.n < t.c)
  <2> DEFINE capacity == IF t.c = 0 THEN first ELSE 2 * t.c
             moved == [i \in 1 .. capacity |->
                         IF i <= t.n THEN blocks[t.p].slots[i] ELSE IF i = t.n + 1 THEN x ELSE Null]
             old == IF t.p = 0 THEN blocks ELSE [blocks EXCEPT ![t.p] = FreedBlock]
  <2>1. t2 = [p |-> Len(blocks) + 1, n |-> t.n + 1, c |-> capacity]
        /\ h2 = Append(old, Block(moved))
    BY <1>3 DEF Grow
  <2>2. capacity \in Nat /\ t.n + 1 <= capacity
    BY <1>1, <1>3
  <2>3. IsSeq(moved) /\ Len(moved) = capacity
    BY <2>2, TupleIs
  <2>4. moved[t.n + 1] = x /\ \A i \in 1 .. t.n : moved[i] = blocks[t.p].slots[i]
    BY <1>1, <2>2
  <2> HIDE DEF capacity, moved
  <2>5. IsSeq(old) /\ Len(old) = Len(blocks) /\ Len(blocks) \in Nat
        /\ \A i \in 1 .. Len(blocks) : i # t.p => old[i] = blocks[i]
    <3>1. CASE t.p = 0
      BY <3>1, SeqIs
    <3>2. CASE t.p # 0
      <4>1. t.p \in 1 .. Len(blocks) /\ old = Replaced(blocks, t.p, FreedBlock)
        BY <3>2 DEF InHeap, Replaced
      <4> QED  BY <4>1, ReplacedIs, SeqIs
    <3> QED  BY <3>1, <3>2
  <2> HIDE DEF old
  <2>6. IsSeq(h2) /\ Len(h2) = Len(blocks) + 1 /\ h2[Len(blocks) + 1] = Block(moved)
        /\ \A i \in 1 .. Len(blocks) : h2[i] = old[i]
    BY <2>1, <2>5, AppendIs
  <2>7. t2.p = Len(blocks) + 1 /\ t2.n = t.n + 1 /\ t2.c = capacity /\ IsTable(t2)
    BY <1>1, <2>1, <2>2, <2>5 DEF IsTable
  <2>8. DOMAIN Block(moved) = {"state", "slots"} /\ Block(moved).state = "live" /\ Block(moved).slots = moved
    BY DEF Block
  <2>9. InHeap(h2, t2)
    BY <2>3, <2>5, <2>6, <2>7, <2>8 DEF InHeap
  <2>10. \A i \in 1 .. t.n + 1 : InUse(h2, t2)[i] = moved[i]
    BY <2>6, <2>7, <2>8 DEF InUse
  <2>11. \A i \in 1 .. t.n : InUse(blocks, t)[i] = blocks[t.p].slots[i]
    BY DEF InUse
  <2>12. ASSUME NEW u, InHeap(blocks, u), Apart(t, u)
         PROVE  InHeap(h2, u) /\ Apart(t2, u) /\ InUse(h2, u) = InUse(blocks, u)
    <3>1. CASE u.p = 0
      BY <2>12, <3>1 DEF InHeap, Apart, InUse, IsTable
    <3>2. CASE u.p # 0
      <4>1. u.p \in 1 .. Len(blocks) /\ u.p # t.p
        BY <2>12, <3>2, <1>1 DEF InHeap, Apart
      <4>2. h2[u.p] = blocks[u.p] /\ u.p \in 1 .. Len(h2) /\ u.p # t2.p
        BY <2>5, <2>6, <2>7, <4>1
      <4> QED  BY <2>12, <3>2, <4>2 DEF InHeap, Apart, InUse
    <3> QED  BY <3>1, <3>2
  <2>13. \A i \in 1 .. t.n : InUse(h2, t2)[i] = InUse(blocks, t)[i]
    BY <1>1, <2>4, <2>10, <2>11
  <2>14. InUse(h2, t2)[t.n + 1] = x
    BY <1>1, <2>4, <2>10
  <2> QED  BY <2>5, <2>6, <2>7, <2>9, <2>12, <2>13, <2>14
<1> QED  BY <1>1, <1>2, <1>3

-----------------------------------------------------------------------------
(* Compacting a table.                                                     *)

\* One turn of the loop of Those.
Taken(s, S, f, i) ==
  IF i = 0 THEN <<>> ELSE IF s[i] \in S THEN Append(f[i - 1], s[i]) ELSE f[i - 1]

LEMMA TakenExists ==
  ASSUME NEW n \in Nat, NEW s, NEW S
  PROVE  \E f : f = [i \in 0 .. n |-> Taken(s, S, f, i)]
<1> SUFFICES ASSUME ~\E f : f = [i \in 0 .. n |-> Taken(s, S, f, i)] PROVE FALSE
  OBVIOUS
<1> DEFINE Upto(m) == \E f : f = [i \in 0 .. m |-> Taken(s, S, f, i)]
           U == {m \in Nat : ~Upto(m)}
<1>1. U \in SUBSET Nat /\ U # {}
  OBVIOUS
<1> HIDE DEF Upto
<1>2. PICK m \in U : \A j \in U : m <= j
  BY <1>1, LeastIs
<1>3. m # 0
  <2> DEFINE g == [i \in 0 .. 0 |-> <<>>]
  <2>1. g = [i \in 0 .. 0 |-> Taken(s, S, g, i)]
    BY DEF Taken
  <2>2. Upto(0)
    BY <2>1 DEF Upto
  <2> QED  BY <2>2, <1>2
<1>4. m - 1 \in Nat /\ Upto(m - 1)
  BY <1>2, <1>3
<1>5. PICK f : f = [i \in 0 .. m - 1 |-> Taken(s, S, f, i)]
  BY <1>4 DEF Upto
<1> DEFINE last == Taken(s, S, f, m)
           g == [i \in 0 .. m |-> IF i = m THEN last ELSE f[i]]
<1>6. \A i \in 0 .. m : Taken(s, S, g, i) = g[i]
  <2> SUFFICES ASSUME NEW i \in 0 .. m PROVE Taken(s, S, g, i) = g[i]
    OBVIOUS
  <2>1. Taken(s, S, g, i) = Taken(s, S, f, i)
    <3>1. i > 0 => g[i - 1] = f[i - 1]
      BY <1>4
    <3> HIDE DEF g
    <3> QED  BY <3>1 DEF Taken
  <2>2. CASE i = m
    BY <2>1, <2>2
  <2>3. CASE i # m
    <3>1. i \in 0 .. m - 1
      BY <2>3, <1>4
    <3>2. f[i] = Taken(s, S, f, i)
      BY <1>5, <3>1
    <3> QED  BY <2>1, <2>3, <3>2
  <2> QED  BY <2>2, <2>3
<1>7. g = [i \in 0 .. m |-> Taken(s, S, g, i)]
  BY <1>6
<1>8. Upto(m)
  BY <1>7 DEF Upto
<1> QED  BY <1>8, <1>2

\* k holds, in their order, the elements in S of the first n of s.
Compact(s, n, S, k) ==
  /\ IsSeq(k) /\ Len(k) \in 0 .. n
  /\ {k[i] : i \in 1 .. Len(k)} = {s[i] : i \in 1 .. n} \cap S
  /\ (\A i, j \in 1 .. n : s[i] = s[j] => i = j) => \A i, j \in 1 .. Len(k) : k[i] = k[j] => i = j

LEMMA ThoseAre ==
  ASSUME NEW s, IsSeq(s), NEW S
  PROVE  Compact(s, Len(s), S, Those(s, S))
<1> DEFINE n == Len(s)
           F == CHOOSE f : f = [i \in 0 .. n |-> Taken(s, S, f, i)]
<1>0. n \in Nat
  BY SeqIs
<1>1. F = [i \in 0 .. n |-> Taken(s, S, F, i)]
  BY <1>0, TakenExists
<1>2. Those(s, S) = F[n]
  BY DEF Those, Taken
<1> HIDE DEF F, n
<1> DEFINE Good(m) == Compact(s, m, S, F[m])
<1>3. Good(0)
  <2>1. PICK k : k = F[0]
    OBVIOUS
  <2>2. k = <<>>
    BY <1>0, <1>1, <2>1 DEF Taken
  <2>3. k \in Seq({0}) /\ Len(k) = 0
    BY <2>2
  <2>4. IsSeq(k) /\ Len(k) = 0
    BY <2>3 DEF IsSeq
  <2> QED  BY <2>1, <2>4 DEF Compact
<1>4. ASSUME NEW m \in 1 .. n, Good(m - 1) PROVE Good(m)
  <2>1. PICK old, k, x : old = F[m - 1] /\ k = F[m] /\ x = s[m]
    OBVIOUS
  <2>2. k = IF x \in S THEN Append(old, x) ELSE old
    <3>1. F[m] = Taken(s, S, F, m) /\ m # 0
      BY <1>0, <1>1
    <3> QED  BY <2>1, <3>1 DEF Taken
  <2>3. Compact(s, m - 1, S, old)
    BY <1>4, <2>1
  <2>4. \A i : i \in 1 .. m <=> i \in 1 .. m - 1 \/ i = m
    BY <1>0
  <2>5. {s[i] : i \in 1 .. m} = {s[i] : i \in 1 .. m - 1} \cup {x}
    BY <2>1, <2>4, Zenon
  <2>6. CASE x \notin S
    <3>1. k = old
      BY <2>2, <2>6
    <3>2. {s[i] : i \in 1 .. m} \cap S = {s[i] : i \in 1 .. m - 1} \cap S
      BY <2>5, <2>6
    <3>3. Len(k) \in 0 .. m
      BY <1>0, <2>3, <3>1 DEF Compact
    <3>4. Compact(s, m, S, k)
      BY <2>3, <2>4, <3>1, <3>2, <3>3, Zenon DEF Compact
    <3> QED  BY <2>1, <3>4
  <2>7. CASE x \in S
    <3>1. k = Append(old, x) /\ IsSeq(old) /\ Len(old) \in Nat
      BY <2>2, <2>3, <2>7 DEF Compact
    <3>2. /\ IsSeq(k) /\ Len(k) = Len(old) + 1 /\ k[Len(old) + 1] = x
          /\ \A i \in 1 .. Len(old) : k[i] = old[i]
      BY <3>1, AppendIs
    <3>3. \A i : i \in 1 .. Len(k) <=> i \in 1 .. Len(old) \/ i = Len(old) + 1
      BY <3>1, <3>2
    <3>4. {k[i] : i \in 1 .. Len(k)} = {old[i] : i \in 1 .. Len(old)} \cup {x}
      BY <3>2, <3>3
    <3>5. {k[i] : i \in 1 .. Len(k)} = {s[i] : i \in 1 .. m} \cap S
      BY <2>3, <2>5, <2>7, <3>4 DEF Compact
    <3>6. Len(k) \in 0 .. m
      BY <1>0, <2>3, <3>2 DEF Compact
    <3>7. ASSUME \A i, j \in 1 .. m : s[i] = s[j] => i = j, NEW i \in 1 .. Len(k), NEW j \in 1 .. Len(k),
                 k[i] = k[j]
          PROVE  i = j
      <4>1. \A a \in 1 .. Len(old) : old[a] # x
        <5> SUFFICES ASSUME NEW a \in 1 .. Len(old), old[a] = x PROVE FALSE
          OBVIOUS
        <5>1. x \in {s[b] : b \in 1 .. m - 1}
          BY <2>3 DEF Compact
        <5>2. PICK b \in 1 .. m - 1 : s[b] = x
          BY <5>1
        <5> QED  BY <1>0, <2>1, <3>7, <5>2
      <4>2. \A a, b \in 1 .. Len(old) : old[a] = old[b] => a = b
        BY <2>3, <2>4, <3>7, Zenon DEF Compact
      <4> QED  BY <3>2, <3>3, <3>7, <4>1, <4>2
    <3>8. Compact(s, m, S, k)
      BY <3>2, <3>5, <3>6, <3>7 DEF Compact
    <3> QED  BY <2>1, <3>8
  <2> QED  BY <2>6, <2>7
<1>5. Good(n)
  <2> SUFFICES ASSUME ~Good(n) PROVE FALSE
    OBVIOUS
  <2> DEFINE U == {m \in 0 .. n : ~Good(m)}
  <2> HIDE DEF Good
  <2>1. U \in SUBSET Nat /\ n \in U
    BY <1>0
  <2>2. PICK m \in U : \A j \in U : m <= j
    <3> HIDE DEF U
    <3> QED  BY <2>1, LeastIs
  <2>3. m # 0
    BY <1>3, <2>2
  <2>4. m \in 1 .. n /\ m - 1 \in 0 .. n /\ ~(m <= m - 1)
    BY <1>0, <2>2, <2>3
  <2>5. Good(m - 1)
    BY <2>2, <2>4
  <2> QED  BY <1>4, <2>2, <2>4, <2>5
<1> QED  BY <1>2, <1>5 DEF n

-----------------------------------------------------------------------------
(* What a state can see: the classes of the running VM, the runtime        *)
(* functions, the modules, and the list of modules of the root.            *)

View(t, r, h, F, L) ==
  [classes |-> InUse(h, t.classes), functions |-> F, modules |-> L, mods |-> InUse(h, r.mods)]

\* The functions a module defines.
Stat(L, m) == IF L[m].source = "callback" THEN {} ELSE Defines[L[m].source]

ClassesAt(v, c) == {NameOf(v.classes[i]) : i \in 1 .. c}
StaticsOf(L, s, k) == UNION {Stat(L, s[i]) : i \in 1 .. k}
StaticsAt(v, k) == StaticsOf(v.modules, v.mods, k)
FunctionsAt(v, f, k) == {v.functions[i].name : i \in 1 .. f} \cup StaticsAt(v, k)

\* K is what the first c classes, f functions and k modules declare.
KnownAt(v, K, c, f, k) ==
  K \subseteq Names \cup Functions /\ K \cap Names = ClassesAt(v, c)
  /\ K \cap Functions = FunctionsAt(v, f, k)

IsClass(x) == \E name \in Names : \E m : x = <<name, m>>

ViewOK(v) ==
  /\ DOMAIN v = {"classes", "functions", "modules", "mods"}
  /\ IsSeq(v.classes) /\ IsSeq(v.functions) /\ IsSeq(v.modules) /\ IsSeq(v.mods)
  /\ \A i \in 1 .. Len(v.classes) : IsClass(v.classes[i])
  /\ \A i, j \in 1 .. Len(v.classes) : NameOf(v.classes[i]) = NameOf(v.classes[j]) => i = j
  /\ \A i \in 1 .. Len(v.functions) : v.functions[i].name \in Functions
  /\ \A m \in 1 .. Len(v.modules) : /\ v.modules[m].source \in Files \cup Sources \cup {"callback"}
                                    /\ DOMAIN v.modules[m] = {"source", "refs"}
  /\ \A i \in 1 .. Len(v.mods) : v.mods[i] \in 1 .. Len(v.modules)

\* A VM sees what module m defines through the first k modules of the root.
Covered(v, m, k) ==
  m \in 0 .. Len(v.modules) /\ (m # 0 => Stat(v.modules, m) \subseteq StaticsAt(v, k))

\* A checkpoint: a part of the view, and what was known then.
Point(v, s) ==
  /\ s.classes \in 0 .. Len(v.classes) /\ s.functions \in 0 .. Len(v.functions)
  /\ s.mods \in 0 .. Len(v.mods)
  /\ KnownAt(v, s.known, s.classes, s.functions, s.mods)
  /\ Covered(v, s.module, s.mods)

\* The modules keep what they define.
SameSources(v, w) ==
  /\ Len(v.modules) <= Len(w.modules)
  /\ \A m \in 1 .. Len(v.modules) : w.modules[m].source = v.modules[m].source

\* w begins like v, up to the counts.
Agree(v, w, c, f, k) ==
  /\ SameSources(v, w)
  /\ c \in 0 .. Len(v.classes) /\ c <= Len(w.classes) /\ \A i \in 1 .. c : w.classes[i] = v.classes[i]
  /\ f \in 0 .. Len(v.functions) /\ f <= Len(w.functions)
  /\ \A i \in 1 .. f : w.functions[i] = v.functions[i]
  /\ k \in 0 .. Len(v.mods) /\ k <= Len(w.mods) /\ \A i \in 1 .. k : w.mods[i] = v.mods[i]

Extended(v, w) == Agree(v, w, Len(v.classes), Len(v.functions), Len(v.mods))

LEMMA StaticsAgree ==
  ASSUME NEW v, NEW w, ViewOK(v), ViewOK(w), SameSources(v, w), NEW k \in 0 .. Len(v.mods),
         k <= Len(w.mods), \A i \in 1 .. k : w.mods[i] = v.mods[i]
  PROVE  StaticsAt(w, k) = StaticsAt(v, k)
<1>1. Len(v.mods) \in Nat
  BY SeqIs DEF ViewOK
<1>2. ASSUME NEW i \in 1 .. k PROVE Stat(w.modules, w.mods[i]) = Stat(v.modules, v.mods[i])
  <2>1. v.mods[i] \in 1 .. Len(v.modules) /\ w.mods[i] = v.mods[i]
    BY <1>1 DEF ViewOK
  <2> QED  BY <2>1 DEF SameSources, Stat
<1> QED  BY <1>2 DEF StaticsAt, StaticsOf

LEMMA CoveredAgree ==
  ASSUME NEW v, NEW w, ViewOK(v), ViewOK(w), SameSources(v, w), NEW k \in 0 .. Len(v.mods),
         k <= Len(w.mods), \A i \in 1 .. k : w.mods[i] = v.mods[i], NEW m, Covered(v, m, k)
  PROVE  Covered(w, m, k)
<1>1. StaticsAt(w, k) = StaticsAt(v, k)
  BY StaticsAgree
<1>2. Len(v.modules) \in Nat /\ Len(w.modules) \in Nat /\ m \in 0 .. Len(v.modules)
      /\ m \in 0 .. Len(w.modules)
  BY SeqIs DEF ViewOK, SameSources, Covered
<1>3. m # 0 => Stat(w.modules, m) = Stat(v.modules, m)
  BY <1>2 DEF SameSources, Stat
<1> QED  BY <1>1, <1>2, <1>3 DEF Covered

LEMMA KnownAgree ==
  ASSUME NEW v, NEW w, ViewOK(v), ViewOK(w), NEW c, NEW f, NEW k, Agree(v, w, c, f, k),
         NEW K, KnownAt(v, K, c, f, k)
  PROVE  KnownAt(w, K, c, f, k)
<1>1. StaticsAt(w, k) = StaticsAt(v, k)
  BY StaticsAgree DEF Agree
<1>2. ClassesAt(w, c) = ClassesAt(v, c)
  BY DEF Agree, ClassesAt
<1>3. FunctionsAt(w, f, k) = FunctionsAt(v, f, k)
  <2>1. \A i \in 1 .. f : w.functions[i] = v.functions[i]
    BY DEF Agree
  <2>2. {w.functions[i].name : i \in 1 .. f} = {v.functions[i].name : i \in 1 .. f}
    BY ONLY <2>1
  <2> QED  BY ONLY <1>1, <2>2 DEF FunctionsAt
<1> QED  BY <1>2, <1>3 DEF KnownAt

LEMMA PointAgree ==
  ASSUME NEW v, NEW w, ViewOK(v), ViewOK(w), NEW s, Agree(v, w, s.classes, s.functions, s.mods),
         Point(v, s)
  PROVE  Point(w, s)
<1>1. KnownAt(w, s.known, s.classes, s.functions, s.mods)
  BY KnownAgree DEF Point
<1>2. Covered(w, s.module, s.mods)
  BY CoveredAgree DEF Point, Agree
<1> QED  BY <1>1, <1>2 DEF Point, Agree

LEMMA ExtendedKeeps ==
  ASSUME NEW v, NEW w, ViewOK(v), ViewOK(w), Extended(v, w)
  PROVE  /\ \A s : Point(v, s) => Point(w, s)
         /\ \A m, k : k \in 0 .. Len(v.mods) /\ Covered(v, m, k) => Covered(w, m, k)
         /\ StaticsAt(w, Len(v.mods)) = StaticsAt(v, Len(v.mods))
<1>1. Len(v.classes) \in Nat /\ Len(v.functions) \in Nat /\ Len(v.mods) \in Nat
      /\ Len(w.classes) \in Nat /\ Len(w.functions) \in Nat /\ Len(w.mods) \in Nat
  BY SeqIs DEF ViewOK
<1>2. ASSUME NEW s, Point(v, s) PROVE Point(w, s)
  <2>1. s.classes \in 0 .. Len(v.classes) /\ s.functions \in 0 .. Len(v.functions)
        /\ s.mods \in 0 .. Len(v.mods)
    BY <1>2 DEF Point
  <2>2. /\ SameSources(v, w)
        /\ Len(v.classes) <= Len(w.classes) /\ Len(v.functions) <= Len(w.functions)
        /\ Len(v.mods) <= Len(w.mods)
    BY DEF Extended, Agree
  <2>3. \A i \in 1 .. s.classes : w.classes[i] = v.classes[i]
    BY <1>1, <2>1 DEF Extended, Agree
  <2>4. \A i \in 1 .. s.functions : w.functions[i] = v.functions[i]
    BY <1>1, <2>1 DEF Extended, Agree
  <2>5. \A i \in 1 .. s.mods : w.mods[i] = v.mods[i]
    BY <1>1, <2>1 DEF Extended, Agree
  <2>6. s.classes <= Len(w.classes) /\ s.functions <= Len(w.functions) /\ s.mods <= Len(w.mods)
    <3>1. \A a, b, c : a \in Nat /\ b \in Nat /\ c \in 0 .. a /\ a <= b => c <= b
      OBVIOUS
    <3> QED  BY ONLY <1>1, <2>1, <2>2, <3>1, Zenon
  <2>7. Agree(v, w, s.classes, s.functions, s.mods)
    BY ONLY <2>1, <2>2, <2>3, <2>4, <2>5, <2>6 DEF Agree
  <2> QED  BY <1>2, <2>7, PointAgree
<1>3. ASSUME NEW m, NEW k \in 0 .. Len(v.mods), Covered(v, m, k) PROVE Covered(w, m, k)
  <2>1. k <= Len(w.mods) /\ \A i \in 1 .. k : w.mods[i] = v.mods[i]
    BY <1>1 DEF Extended, Agree
  <2>2. SameSources(v, w)
    BY DEF Extended, Agree
  <2> QED  BY <1>3, <2>1, <2>2, CoveredAgree
<1>4. StaticsAt(w, Len(v.mods)) = StaticsAt(v, Len(v.mods))
  <2>1. Len(v.mods) \in 0 .. Len(v.mods) /\ Len(v.mods) <= Len(w.mods) /\ SameSources(v, w)
        /\ \A i \in 1 .. Len(v.mods) : w.mods[i] = v.mods[i]
    BY <1>1 DEF Extended, Agree
  <2> QED  BY <2>1, StaticsAgree
<1> QED  BY <1>2, <1>3, <1>4, Zenon

-----------------------------------------------------------------------------
(* The invariant, for stacks of at most two VMs: n VMs, the root r, the    *)
(* running VM t, and the heap, functions, modules and names.               *)

StartFields == {"classes", "functions", "mods", "module", "known", "class_end"}
IsVm(vm) == DOMAIN vm = Fields /\ DOMAIN vm.start = StartFields /\ vm.once \in BOOLEAN

\* A callback or destructor has a list of its own, with the modules of the
\* root and the one the root executes.
Borrowed(v, r, t, h) ==
  /\ InHeap(h, t.mods) /\ t.mods.p # 0 /\ Apart(t.mods, t.classes) /\ Apart(t.mods, r.mods)
  /\ \A i \in 1 .. t.mods.n : InUse(h, t.mods)[i] \in 1 .. Len(v.modules)
  /\ t.module \in 1 .. Len(v.modules)
  /\ StaticsOf(v.modules, InUse(h, t.mods), t.mods.n) \cup Stat(v.modules, t.module)
       = StaticsAt(v, Len(v.mods))

Later(s, u) == s.classes <= u.classes /\ s.functions <= u.functions /\ s.mods <= u.mods

Nested(v, r, t, h) ==
  /\ r.kind \in {"chunk", "rollback"} /\ t.kind \in {"invoke", "include", "rollback"}
  /\ t.kind = "invoke" => Borrowed(v, r, t, h)
  /\ t.kind = "include" => t.mods = r.mods /\ Covered(v, t.module, Len(v.mods))
  /\ t.kind \in {"include", "rollback"} => Point(v, t.start) /\ Later(r.start, t.start)
  /\ t.kind = "rollback" => r.classes = t.classes

Tables(h, t, r) == IsSeq(h) /\ InHeap(h, t.classes) /\ InHeap(h, r.mods) /\ Apart(t.classes, r.mods)

Seen(v, n, r, t, h, K) ==
  /\ ViewOK(v) /\ KnownAt(v, K, Len(v.classes), Len(v.functions), Len(v.mods))
  /\ Covered(v, r.module, Len(v.mods))
  /\ r.kind \in {"chunk", "rollback"} => Point(v, r.start)
  /\ n = 1 => t = r /\ r.kind \in {"idle", "chunk", "rollback", "closed"}
  /\ n = 2 => Nested(v, r, t, h)

Sound(n, r, t, h, F, L, K) ==
  /\ n \in {1, 2} /\ IsVm(r) /\ IsVm(t) /\ Tables(h, t, r)
  /\ Seen(View(t, r, h, F, L), n, r, t, h, K)

DefInv == IsSeq(vms) /\ Sound(Len(vms), Root, Running, blocks, functions, modules, known)

-----------------------------------------------------------------------------
(* What each step does to what is seen.                                    *)

SeenNow == View(Running, Root, blocks, functions, modules)

\* The VM has at most other tables.
SameVm(vm, vm2) ==
  vm2.kind = vm.kind /\ vm2.module = vm.module /\ vm2.code = vm.code /\ vm2.start = vm.start

\* t is s followed by x.
Longer(s, t, x) ==
  IsSeq(t) /\ Len(t) = Len(s) + 1 /\ t[Len(s) + 1] = x /\ \A i \in 1 .. Len(s) : t[i] = s[i]

SameDefinitions(v, w) == w.classes = v.classes /\ w.functions = v.functions /\ w.mods = v.mods

ClassDefined(name) ==
  /\ Len(vms') = Len(vms) /\ Len(blocks) <= Len(blocks')
  /\ SameVm(Running, Running') /\ SameVm(Root, Root') /\ Running'.file = Running.file
  /\ Len(vms) = 2 => Root' = Root
  /\ name \notin ClassesAt(SeenNow, Len(SeenNow.classes))
  /\ Longer(SeenNow.classes, SeenNow'.classes, <<name, Running.code>>)
  /\ SeenNow'.functions = SeenNow.functions /\ SeenNow'.mods = SeenNow.mods
  /\ SeenNow'.modules = pmodule_retain(SeenNow.modules, Running.code)

FunctionDefined(f) ==
  /\ Len(vms') = Len(vms) /\ Root' = Root /\ Running' = Running /\ blocks' = blocks
  /\ SeenNow'.functions = Append(SeenNow.functions, [name |-> f, module |-> Running.code])
  /\ SeenNow'.classes = SeenNow.classes /\ SeenNow'.mods = SeenNow.mods
  /\ SeenNow'.modules = pmodule_retain(SeenNow.modules, Running.code)

Invoked ==
  /\ Len(vms') = 2 /\ Root' = Root /\ Running'.classes = Root.classes
  /\ Running'.kind = "invoke" /\ Running'.module = Len(modules) + 1 /\ Running'.code = Root.code
  /\ SameDefinitions(SeenNow, SeenNow')
  /\ SeenNow'.modules = Append(SeenNow.modules, [source |-> "callback", refs |-> 1])

InvokeFinished ==
  /\ Len(vms) = 2 /\ Len(vms') = 1 /\ SameVm(Root, Root') /\ SameDefinitions(SeenNow, SeenNow')
  /\ SeenNow'.modules = pmodule_release(SeenNow.modules, Running.module)

Included(file) ==
  /\ Len(vms) = 1 /\ Len(vms') = 2 /\ SameVm(Root, Root') /\ Root'.classes = Running'.classes
  /\ Root.kind = "chunk" /\ Running'.kind = "include" /\ Running'.file = file
  /\ Running'.module = Len(modules) + 1 /\ Running'.code = Len(modules) + 1
  /\ Running'.start.module = Root.module /\ Running'.start.mods = Len(SeenNow.mods)
  /\ SeenNow'.classes = SeenNow.classes /\ SeenNow'.functions = SeenNow.functions
  /\ Longer(SeenNow.mods, SeenNow'.mods, Len(modules) + 1)
  /\ SeenNow'.modules = Append(SeenNow.modules, [source |-> file, refs |-> 1])

IncludeFinished ==
  Len(vms) = 2 /\ Len(vms') = 1 /\ SameVm(Root, Root') /\ SeenNow' = SeenNow

IncludeFailed ==
  /\ Len(vms) = 2 /\ Len(vms') = 2 /\ SameVm(Root, Root') /\ Root'.classes = Running'.classes
  /\ Running'.kind = "rollback" /\ Running'.module = Running.module /\ Running'.code = Running.code
  /\ Running'.start.module = Running.start.module /\ Running'.start.mods = Running.start.mods
  /\ Running'.start.class_end = Len(SeenNow.classes) /\ Running'.mods = Root'.mods
  /\ SeenNow' = SeenNow

\* s has the first n elements of the other sequence.
Cut(s, n, old) == IsSeq(s) /\ Len(s) = n /\ \A i \in 1 .. n : s[i] = old[i]

\* What a rollback to checkpoint s takes from v.
Dropped(v, s) == SubSeq(v.classes, s.classes + 1, s.class_end)
Gone(v, s) == SubSeq(v.functions, s.functions + 1, Len(v.functions))
Unlisted(v, s) == SubSeq(v.mods, s.mods + 1, Len(v.mods))
Left(v, s) ==
  ReleaseEach(ReleaseEach(ReleaseEach(v.modules, ModulesOfClasses(Dropped(v, s))),
                          ModulesOfFunctions(Gone(v, s))), Unlisted(v, s))

BackAt(v, w, s) ==
  /\ Cut(w.classes, s.classes, v.classes) /\ Cut(w.functions, s.functions, v.functions)
  /\ Cut(w.mods, s.mods, v.mods)

\* The classes of v are split: w has those in S, d the others.
Cleared(v, w, S, d) ==
  /\ Compact(v.classes, Len(v.classes), S, w.classes)
  /\ Compact(v.classes, Len(v.classes), Items(v.classes) \ S, d)

ChunkStarted(source) ==
  /\ Len(vms) = 1 /\ Root.kind = "idle" /\ Len(vms') = 1 /\ Root'.kind = "chunk"
  /\ Root'.module = Len(modules) + 1 /\ Root'.code = Len(modules) + 1
  /\ SeenNow'.functions = SeenNow.functions
  /\ SeenNow'.mods = SeenNow.mods \/ Longer(SeenNow.mods, SeenNow'.mods, Len(modules) + 1)
  /\ \E S, d :
       /\ Cleared(SeenNow, SeenNow', S, d) /\ live' = live \ ToSet(d)
       /\ SeenNow'.modules = Append(ReleaseEach(SeenNow.modules, ModulesOfClasses(d)),
                                    [source |-> source, refs |-> 1])

ChunkFinished ==
  /\ Len(vms) = 1 /\ Root.kind = "chunk" /\ Len(vms') = 1 /\ Root'.kind = "idle"
  /\ SeenNow'.functions = SeenNow.functions /\ SeenNow'.mods = SeenNow.mods
  /\ \E S, d :
       /\ Cleared(SeenNow, SeenNow', S, d) /\ live' = live \ ToSet(d)
       /\ SeenNow'.modules =
            IF Root.module \in ToSet(SeenNow.mods) THEN ReleaseEach(SeenNow.modules, ModulesOfClasses(d))
            ELSE pmodule_release(ReleaseEach(SeenNow.modules, ModulesOfClasses(d)), Root.module)

ChunkFailed ==
  /\ Len(vms) = 1 /\ Root.kind = "chunk" /\ Len(vms') = 1 /\ Root'.kind = "rollback"
  /\ Root'.module = Root.module /\ Root'.code = Root.code
  /\ Root'.start.classes = Root.start.classes /\ Root'.start.class_end = Len(SeenNow.classes)
  /\ SeenNow' = SeenNow

Closed ==
  /\ Len(vms) = 1 /\ Root.kind = "idle" /\ Len(vms') = 1 /\ Root'.kind = "closed"
  /\ Len(SeenNow'.classes) = 0 /\ Len(SeenNow'.functions) = 0 /\ Len(SeenNow'.mods) = 0
  /\ live' = live \ ToSet(SeenNow.classes)
  /\ SeenNow'.modules = ReleaseEach(ReleaseEach(ReleaseEach(SeenNow.modules,
                           ModulesOfClasses(SeenNow.classes)),
                           ModulesOfFunctions(SeenNow.functions)), SeenNow.mods)

RollbackFinished ==
  /\ Len(vms') = 1 /\ Root'.kind = (IF Len(vms) = 1 THEN "idle" ELSE Root.kind)
  /\ Root'.code = Root.code /\ Root'.module = Running.start.module /\ Root'.start = Root.start
  /\ BackAt(SeenNow, SeenNow', Running.start)
  /\ live' = live \ ToSet(Dropped(SeenNow, Running.start))
  /\ SeenNow'.modules = IF Len(vms) = 1 /\ Running.module \notin ToSet(SeenNow.mods)
                        THEN pmodule_release(Left(SeenNow, Running.start), Running.module)
                        ELSE Left(SeenNow, Running.start)

-----------------------------------------------------------------------------
(* The stack.                                                              *)

LEMMA OneVm ==
  ASSUME NEW x, vms' = <<x>>
  PROVE  IsSeq(vms') /\ Len(vms') = 1 /\ Root' = x /\ Running' = x
<1>1. IsSeq(vms') /\ Len(vms') = 1 /\ vms'[1] = x
  BY OneIs
<1> QED  BY <1>1 DEF Root, Running, Top

LEMMA TopIs ==
  ASSUME DefInv
  PROVE  /\ Len(vms) \in {1, 2} /\ Top = Len(vms) /\ vms[Top] = Running /\ vms[1] = Root
         /\ Top \in 1 .. Len(vms) /\ 1 \in 1 .. Len(vms) /\ (Len(vms) = 1 => Running = Root)
<1>1. Len(vms) \in {1, 2}
  BY DEF DefInv, Sound
<1> QED  BY <1>1 DEF Root, Running, Top

LEMMA TwoIs ==
  ASSUME NEW s, IsSeq(s), Len(s) = 1, NEW x
  PROVE  IsSeq(Append(s, x)) /\ Len(Append(s, x)) = 2 /\ Append(s, x)[1] = s[1] /\ Append(s, x)[2] = x
<1>1. PICK n \in Nat : n = Len(s)
  OBVIOUS
<1>2. /\ IsSeq(Append(s, x)) /\ Len(Append(s, x)) = n + 1
      /\ \A i \in 1 .. n : Append(s, x)[i] = s[i]
      /\ Append(s, x)[n + 1] = x
  BY <1>1, AppendIs
<1>3. n = 1 /\ n + 1 = 2 /\ 1 \in 1 .. n
  BY <1>1
<1> QED  BY <1>2, <1>3

LEMMA Pushed ==
  ASSUME IsSeq(vms), Len(vms) = 1, NEW x, vms' = Append(vms, x)
  PROVE  IsSeq(vms') /\ Len(vms') = 2 /\ Root' = Root /\ Running' = x
<1>1. IsSeq(vms') /\ Len(vms') = 2 /\ vms'[1] = vms[1] /\ vms'[2] = x
  BY TwoIs
<1> QED  BY <1>1 DEF Root, Running, Top

LEMMA OneReplaced ==
  ASSUME NEW s, IsSeq(s), Len(s) = 1, NEW o
  PROVE  IsSeq(Replaced(s, 1, o)) /\ Len(Replaced(s, 1, o)) = 1 /\ Replaced(s, 1, o)[1] = o
<1>1. 1 \in 1 .. Len(s)
  OBVIOUS
<1>2. PICK t : t = Replaced(s, 1, o)
  OBVIOUS
<1>3. IsSeq(t) /\ Len(t) = Len(s) /\ t[1] = o
  BY <1>1, <1>2, ReplacedIs
<1> QED  BY <1>2, <1>3

LEMMA PushedOn ==
  ASSUME IsSeq(vms), Len(vms) = 1, NEW o, NEW x, vms' = Append(Replaced(vms, 1, o), x)
  PROVE  IsSeq(vms') /\ Len(vms') = 2 /\ Root' = o /\ Running' = x
<1>1. PICK s : s = Replaced(vms, 1, o)
  OBVIOUS
<1>2. IsSeq(s) /\ Len(s) = 1 /\ s[1] = o
  BY <1>1, OneReplaced
<1>3. vms' = Append(s, x)
  BY <1>1
<1>4. IsSeq(vms') /\ Len(vms') = 2 /\ vms'[1] = s[1] /\ vms'[2] = x
  <2>1. IsSeq(Append(s, x)) /\ Len(Append(s, x)) = 2 /\ Append(s, x)[1] = s[1] /\ Append(s, x)[2] = x
    BY <1>2, TwoIs
  <2> QED  BY <1>3, <2>1
<1> QED  BY <1>2, <1>4 DEF Root, Running, Top

LEMMA Touched ==
  ASSUME DefInv, NEW x, vms' = Replaced(vms, Top, x)
  PROVE  IsSeq(vms') /\ Len(vms') = Len(vms) /\ Running' = x
         /\ Root' = IF Len(vms) = 1 THEN x ELSE Root
<1>1. /\ IsSeq(vms') /\ Len(vms') = Len(vms) /\ vms'[Top] = x
      /\ \A i \in 1 .. Len(vms) : i # Top => vms'[i] = vms[i]
  BY TopIs, ReplacedIs DEF DefInv
<1> QED  BY <1>1, TopIs DEF Root, Running, Top

LEMMA Popped ==
  ASSUME DefInv, Len(vms) = 2, NEW x, vms' = Replaced(SubSeq(vms, 1, Top - 1), 1, x)
  PROVE  IsSeq(vms') /\ Len(vms') = 1 /\ Root' = x /\ Running' = x
<1>1. PICK s : s = SubSeq(vms, 1, Len(vms) - 1)
  OBVIOUS
<1>2. IsSeq(s) /\ Len(s) = 1
  <2>1. IsSeq(vms) /\ Len(vms) > 1 /\ Len(vms) - 1 = 1
    BY DEF DefInv
  <2>2. IsSeq(s) /\ Len(s) = Len(vms) - 1
    BY <1>1, <2>1, FrontIs
  <2> QED  BY <2>1, <2>2
<1>3. vms' = Replaced(s, 1, x) /\ 1 \in 1 .. Len(s)
  BY <1>1, <1>2 DEF Top
<1>4. IsSeq(vms') /\ Len(vms') = 1 /\ vms'[1] = x
  BY <1>2, <1>3, ReplacedIs
<1> QED  BY <1>4 DEF Root, Running, Top

LEMMA BothTouched ==
  ASSUME DefInv, Len(vms) = 2, NEW o, NEW x, vms' = Replaced(Replaced(vms, 1, o), Top, x)
  PROVE  IsSeq(vms') /\ Len(vms') = 2 /\ Root' = o /\ Running' = x
<1>1. PICK s : s = Replaced(vms, 1, o)
  OBVIOUS
<1>2. IsSeq(s) /\ Len(s) = 2 /\ s[1] = o
  BY <1>1, TopIs, ReplacedIs DEF DefInv
<1>3. vms' = Replaced(s, 2, x) /\ 2 \in 1 .. Len(s)
  BY <1>1, <1>2 DEF Top
<1>4. IsSeq(vms') /\ Len(vms') = 2 /\ vms'[2] = x /\ vms'[1] = s[1]
  BY <1>2, <1>3, ReplacedIs
<1> QED  BY <1>2, <1>4 DEF Root, Running, Top

-----------------------------------------------------------------------------
(* What the invariant says of lookups.                                     *)

LEMMA ViewIs ==
  ASSUME DefInv, NEW v, v = View(Running, Root, blocks, functions, modules)
  PROVE  /\ v.classes = InUse(blocks, Running.classes) /\ v.functions = functions
         /\ v.modules = modules /\ v.mods = InUse(blocks, Root.mods)
         /\ Entries(Running.classes) = v.classes /\ Entries(Root.mods) = v.mods
         /\ Len(v.classes) = Running.classes.n /\ Len(v.mods) = Root.mods.n
         /\ Seen(v, Len(vms), Root, Running, blocks, known) /\ Tables(blocks, Running, Root)
         /\ IsVm(Root) /\ IsVm(Running)
<1>1. Seen(v, Len(vms), Root, Running, blocks, known) /\ Tables(blocks, Running, Root)
      /\ IsVm(Root) /\ IsVm(Running)
  BY DEF DefInv, Sound
<1>2. v.classes = InUse(blocks, Running.classes) /\ v.mods = InUse(blocks, Root.mods)
      /\ v.functions = functions /\ v.modules = modules
  BY DEF View
<1>3. InHeap(blocks, Running.classes) /\ InHeap(blocks, Root.mods)
  BY <1>1 DEF Tables
<1> QED  BY <1>1, <1>2, <1>3, InUseAre, EntriesAre

LEMMA StatIs ==
  ASSUME NEW m
  PROVE  FunctionsOf(m) = Stat(modules, m)
BY DEF FunctionsOf, Stat

LEMMA TablesFound ==
  ASSUME DefInv, InCode
  PROVE  RunningTablesLive /\ DeclaredClassesFound
<1>1. PICK v : v = View(Running, Root, blocks, functions, modules)
  OBVIOUS
<1>2. ViewOK(v) /\ KnownAt(v, known, Len(v.classes), Len(v.functions), Len(v.mods))
  BY <1>1, ViewIs DEF Seen
<1>3. DOMAIN v.classes = 1 .. Len(v.classes)
  BY <1>2, SeqIs DEF ViewOK
<1>4. \A i \in 1 .. Len(v.classes) : v.classes[i] # Null
  BY <1>2 DEF ViewOK, IsClass, Null
<1>5. Null \notin ToSet(v.classes) /\ ToSet(v.classes) = {v.classes[i] : i \in 1 .. Len(v.classes)}
  BY <1>3, <1>4 DEF ToSet
<1>6. ClassNames(Running.classes) = ClassesAt(v, Len(v.classes))
  <2>1. ClassNames(Running.classes) = {NameOf(k) : k \in ToSet(v.classes) \ {Null}}
    BY <1>1, ViewIs DEF ClassNames
  <2> QED  BY <1>5, <2>1 DEF ClassesAt
<1>7. DeclaredClassesFound
  BY <1>2, <1>6 DEF DeclaredClassesFound, KnownAt
<1>8. ~IsFreed(Running.classes)
  BY EntriesAre DEF DefInv, Sound, Tables
<1>9. ~IsFreed(Running.mods)
  <2>1. InHeap(blocks, Running.mods)
    BY <1>1, ViewIs, TopIs DEF Seen, Nested, Borrowed, Tables, InCode
  <2> QED  BY <2>1, EntriesAre
<1> QED  BY <1>1, <1>5, <1>7, <1>8, <1>9, ViewIs DEF RunningTablesLive

LEMMA FunctionsFound ==
  ASSUME DefInv, InCode
  PROVE  DefinedFunctionsFound
<1>1. PICK v : v = View(Running, Root, blocks, functions, modules)
  OBVIOUS
<1>2. ViewOK(v) /\ KnownAt(v, known, Len(v.classes), Len(v.functions), Len(v.mods))
  BY <1>1, ViewIs DEF Seen
<1>3. InHeap(blocks, Running.mods)
  BY <1>1, ViewIs, TopIs DEF Seen, Nested, Borrowed, Tables, InCode
<1>4. PICK s : s = InUse(blocks, Running.mods)
  OBVIOUS
<1>5. Entries(Running.mods) = s /\ IsSeq(s) /\ Len(s) = Running.mods.n /\ DOMAIN s = 1 .. Len(s)
  BY <1>3, <1>4, EntriesAre, InUseAre
<1>6. DOMAIN functions = 1 .. Len(v.functions)
  BY <1>1, <1>2, ViewIs, SeqIs DEF ViewOK
<1>7. StaticsOf(v.modules, s, Len(s)) \cup
        (IF Running.module = 0 THEN {} ELSE Stat(v.modules, Running.module))
      = StaticsAt(v, Len(v.mods))
  <2>1. CASE Running.kind = "invoke"
    <3>1. Borrowed(v, Root, Running, blocks)
      BY <1>1, <2>1, ViewIs, TopIs DEF Seen, Nested
    <3>2. Running.module # 0
      BY <3>1 DEF Borrowed
    <3> QED  BY <1>4, <1>5, <3>1, <3>2 DEF Borrowed
  <2>2. CASE Running.kind # "invoke"
    <3>1. Running.mods = Root.mods /\ Covered(v, Running.module, Len(v.mods))
      BY <1>1, <2>2, ViewIs, TopIs DEF Seen, Nested, InCode
    <3>2. s = v.mods
      BY <1>1, <1>4, <3>1, ViewIs
    <3> QED  BY <3>1, <3>2 DEF Covered, StaticsAt, StaticsOf
  <2> QED  BY <2>1, <2>2
<1>8. ASSUME NEW f
      PROVE  pphp_find_function(Running, f) <=> f \in FunctionsAt(v, Len(v.functions), Len(v.mods))
  <2>1. pphp_find_function(Running, f) <=>
          \/ \E i \in 1 .. Len(v.functions) : v.functions[i].name = f
          \/ Running.module # 0 /\ f \in Stat(v.modules, Running.module)
          \/ \E i \in 1 .. Len(s) : f \in Stat(v.modules, s[i])
    BY <1>1, <1>5, <1>6, ViewIs, StatIs DEF pphp_find_function, ToSet
  <2>2. f \in StaticsAt(v, Len(v.mods)) <=>
          \/ Running.module # 0 /\ f \in Stat(v.modules, Running.module)
          \/ \E i \in 1 .. Len(s) : f \in Stat(v.modules, s[i])
    BY <1>7, Zenon DEF StaticsOf
  <2> QED  BY <2>1, <2>2 DEF FunctionsAt
<1>9. FunctionsAt(v, Len(v.functions), Len(v.mods)) = known \cap Functions
  BY <1>2 DEF KnownAt
<1> QED  BY <1>8, <1>9 DEF DefinedFunctionsFound

-----------------------------------------------------------------------------
(* Modules keep what they define when they are counted.                    *)

ModulesLike(L, M) ==
  /\ IsSeq(M) /\ Len(M) = Len(L)
  /\ \A m \in 1 .. Len(L) : DOMAIN M[m] = DOMAIN L[m] /\ M[m].source = L[m].source

ModuleRecords(L) == IsSeq(L) /\ \A m \in 1 .. Len(L) : DOMAIN L[m] = {"source", "refs"}

LEMMA CountedLike ==
  ASSUME NEW L, ModuleRecords(L), NEW m, NEW d, NEW M, M = [L EXCEPT ![m].refs = d]
  PROVE  ModulesLike(L, M)
<1>1. CASE m \in 1 .. Len(L)
  <2>1. PICK x : x = [L[m] EXCEPT !.refs = d]
    OBVIOUS
  <2>2. M = Replaced(L, m, x) /\ IsSeq(L)
    BY <2>1 DEF Replaced, ModuleRecords
  <2>3. IsSeq(M) /\ Len(M) = Len(L) /\ M[m] = x /\ \A i \in 1 .. Len(L) : i # m => M[i] = L[i]
    BY ONLY <1>1, <2>2, ReplacedIs
  <2>4. DOMAIN x = DOMAIN L[m] /\ x.source = L[m].source
    BY <1>1, <2>1 DEF ModuleRecords
  <2> QED  BY <2>3, <2>4 DEF ModulesLike
<1>2. CASE m \notin 1 .. Len(L)
  <2>1. DOMAIN L = 1 .. Len(L) /\ IsSeq(L)
    BY SeqIs DEF ModuleRecords
  <2>2. M = L
    <3>1. PICK S : L \in Seq(S)
      BY <2>1 DEF IsSeq
    <3> QED  BY <1>2, <2>1, <3>1
  <2> QED  BY <2>1, <2>2 DEF ModulesLike
<1> QED  BY <1>1, <1>2

LEMMA RetainLike ==
  ASSUME NEW L, ModuleRecords(L), NEW m
  PROVE  ModulesLike(L, pmodule_retain(L, m)) /\ ModulesLike(L, pmodule_release(L, m))
<1>1. ModulesLike(L, [L EXCEPT ![m].refs = L[m].refs + 1])
  BY CountedLike
<1>2. ModulesLike(L, [L EXCEPT ![m].refs = L[m].refs - 1])
  BY CountedLike
<1> QED  BY <1>1, <1>2 DEF pmodule_retain, pmodule_release

LEMMA ReleaseEachLike ==
  ASSUME NEW L, ModuleRecords(L), NEW s
  PROVE  ModulesLike(L, ReleaseEach(L, s)) /\ ModuleRecords(ReleaseEach(L, s))
<1>1. PICK M : M = ReleaseEach(L, s)
  OBVIOUS
<1>2. DOMAIN L = 1 .. Len(L) /\ Len(L) \in Nat
  BY SeqIs DEF ModuleRecords
<1>3. DOMAIN M = 1 .. Len(L) /\ M = [i \in 1 .. Len(L) |-> M[i]]
  BY <1>1, <1>2 DEF ReleaseEach
<1>4. IsSeq(M) /\ Len(M) = Len(L)
  BY <1>2, <1>3, TupleIs
<1>5. ASSUME NEW m \in 1 .. Len(L) PROVE DOMAIN M[m] = DOMAIN L[m] /\ M[m].source = L[m].source
  <2>1. PICK d : M[m] = [L[m] EXCEPT !.refs = d]
    BY <1>1, <1>2 DEF ReleaseEach
  <2> QED  BY <2>1 DEF ModuleRecords
<1> QED  BY <1>1, <1>4, <1>5 DEF ModulesLike, ModuleRecords

LEMMA LikeLike ==
  ASSUME NEW L, NEW M, NEW N, ModulesLike(L, M), ModulesLike(M, N)
  PROVE  ModulesLike(L, N)
BY DEF ModulesLike

LEMMA LikeRecords ==
  ASSUME NEW L, NEW M, ModuleRecords(L), ModulesLike(L, M)
  PROVE  ModuleRecords(M)
BY DEF ModulesLike, ModuleRecords

LEMMA RecordsAre ==
  ASSUME DefInv
  PROVE  ModuleRecords(modules) /\ IsSeq(functions)
<1>1. PICK v : v = View(Running, Root, blocks, functions, modules)
  OBVIOUS
<1> QED  BY <1>1, ViewIs DEF Seen, ViewOK, ModuleRecords

-----------------------------------------------------------------------------
(* Steps after which more is declared, or the same.                        *)

\* The VM has at most another table of classes.
LikeVm(vm, vm2) ==
  vm2.kind = vm.kind /\ vm2.module = vm.module /\ vm2.start = vm.start /\ vm2.mods = vm.mods

\* The running VM keeps its own list, if it has one.
Alike(n, r2, t, t2, h, h2) ==
  /\ n = 1 => t2 = r2
  /\ n = 2 => t.kind # "rollback"
  /\ n = 2 /\ t.kind = "invoke" =>
       InHeap(h2, t.mods) /\ InUse(h2, t.mods) = InUse(h, t.mods) /\ Apart(t.mods, t2.classes)

LEMMA SeenGrows ==
  ASSUME NEW v, NEW w, NEW n, NEW r, NEW t, NEW h, NEW K, Seen(v, n, r, t, h, K),
         ViewOK(w), Extended(v, w), Len(w.mods) = Len(v.mods),
         NEW K2, KnownAt(w, K2, Len(w.classes), Len(w.functions), Len(w.mods)),
         NEW r2, LikeVm(r, r2), NEW t2, LikeVm(t, t2), NEW h2, Alike(n, r2, t, t2, h, h2)
  PROVE  Seen(w, n, r2, t2, h2, K2)
<1>0. /\ r2.kind = r.kind /\ r2.module = r.module /\ r2.start = r.start /\ r2.mods = r.mods
      /\ t2.kind = t.kind /\ t2.module = t.module /\ t2.start = t.start /\ t2.mods = t.mods
  BY DEF LikeVm
<1>1. Len(v.mods) \in Nat /\ Len(v.modules) \in Nat /\ Len(w.modules) \in Nat
      /\ Len(v.modules) <= Len(w.modules)
  BY SeqIs DEF Seen, ViewOK, Extended, Agree, SameSources
<1>2. /\ \A s : Point(v, s) => Point(w, s)
      /\ \A m, k : k \in 0 .. Len(v.mods) /\ Covered(v, m, k) => Covered(w, m, k)
      /\ StaticsAt(w, Len(v.mods)) = StaticsAt(v, Len(v.mods))
  BY ExtendedKeeps DEF Seen
<1>3. Covered(w, r2.module, Len(w.mods)) /\ (r2.kind \in {"chunk", "rollback"} => Point(w, r2.start))
  BY <1>0, <1>1, <1>2 DEF Seen
<1>4. n = 1 => t2 = r2 /\ r2.kind \in {"idle", "chunk", "rollback", "closed"}
  BY <1>0 DEF Seen, Alike
<1>5. ASSUME n = 2 PROVE Nested(w, r2, t2, h2)
  <2>1. Nested(v, r, t, h)
    BY <1>5 DEF Seen
  <2>2. ASSUME t.kind = "invoke" PROVE Borrowed(w, r2, t2, h2)
    <3>1. Borrowed(v, r, t, h)
      BY <2>1, <2>2 DEF Nested
    <3>2. ASSUME NEW m \in 1 .. Len(v.modules)
          PROVE  m \in 1 .. Len(w.modules) /\ Stat(w.modules, m) = Stat(v.modules, m)
      BY <1>1 DEF Extended, Agree, SameSources, Stat
    <3>3. StaticsOf(w.modules, InUse(h, t.mods), t.mods.n) = StaticsOf(v.modules, InUse(h, t.mods), t.mods.n)
      BY <3>1, <3>2 DEF Borrowed, StaticsOf
    <3>4. t.module \in 1 .. Len(w.modules) /\ Stat(w.modules, t.module) = Stat(v.modules, t.module)
      BY <3>1, <3>2 DEF Borrowed
    <3>5. \A i \in 1 .. t.mods.n : InUse(h, t.mods)[i] \in 1 .. Len(w.modules)
      BY <3>1, <3>2 DEF Borrowed
    <3>6. Apart(t.mods, r.mods) /\ t.mods.p # 0
          /\ StaticsOf(v.modules, InUse(h, t.mods), t.mods.n) \cup Stat(v.modules, t.module)
               = StaticsAt(v, Len(v.mods))
      BY <3>1 DEF Borrowed
    <3>7. InHeap(h2, t.mods) /\ InUse(h2, t.mods) = InUse(h, t.mods) /\ Apart(t.mods, t2.classes)
      BY <1>5, <2>2 DEF Alike
    <3> QED  BY <1>0, <1>2, <3>3, <3>4, <3>5, <3>6, <3>7 DEF Borrowed
  <2>3. t.kind = "include" => t2.mods = r2.mods /\ Covered(w, t2.module, Len(w.mods))
    BY <1>0, <1>1, <1>2, <2>1 DEF Nested
  <2>4. t.kind = "include" => Point(w, t2.start) /\ Later(r2.start, t2.start)
    BY <1>0, <1>2, <2>1 DEF Nested
  <2> QED  BY <1>0, <1>5, <2>1, <2>2, <2>3, <2>4 DEF Nested, Alike
<1> QED  BY <1>3, <1>4, <1>5 DEF Seen

LEMMA ClassAdded ==
  ASSUME NEW v, ViewOK(v), NEW K, KnownAt(v, K, Len(v.classes), Len(v.functions), Len(v.mods)),
         NEW name \in Names, name \notin ClassesAt(v, Len(v.classes)), NEW m,
         NEW w, DOMAIN w = {"classes", "functions", "modules", "mods"},
         IsSeq(w.classes), Len(w.classes) = Len(v.classes) + 1,
         \A i \in 1 .. Len(v.classes) : w.classes[i] = v.classes[i],
         w.classes[Len(v.classes) + 1] = <<name, m>>,
         w.functions = v.functions, w.mods = v.mods, ModulesLike(v.modules, w.modules)
  PROVE  ViewOK(w) /\ Extended(v, w)
         /\ KnownAt(w, K \cup {name}, Len(w.classes), Len(w.functions), Len(w.mods))
<1>1. PICK c \in Nat : c = Len(v.classes)
  BY SeqIs DEF ViewOK
<1>2. \A i : i \in 1 .. c + 1 <=> i \in 1 .. c \/ i = c + 1
  OBVIOUS
<1>3. NameOf(w.classes[c + 1]) = name
  BY <1>1 DEF NameOf
<1>4. \A i \in 1 .. c : NameOf(w.classes[i]) = NameOf(v.classes[i]) /\ NameOf(w.classes[i]) # name
  BY <1>1 DEF ClassesAt
<1>5. ClassesAt(w, c + 1) = ClassesAt(v, c) \cup {name}
  BY <1>2, <1>3, <1>4 DEF ClassesAt
<1>6. Len(v.functions) \in Nat /\ Len(v.mods) \in Nat /\ Len(v.modules) \in Nat
  BY SeqIs DEF ViewOK
<1>7. Extended(v, w)
  BY <1>1, <1>6 DEF Extended, Agree, SameSources, ModulesLike
<1>8. ViewOK(w)
  <2>1. \A i \in 1 .. c + 1 : IsClass(w.classes[i])
    <3>1. IsClass(<<name, m>>)
      BY DEF IsClass
    <3> QED  BY <1>1, <1>2, <3>1 DEF ViewOK
  <2>2. \A i, j \in 1 .. c + 1 : NameOf(w.classes[i]) = NameOf(w.classes[j]) => i = j
    BY <1>1, <1>2, <1>3, <1>4 DEF ViewOK
  <2>3. IsSeq(w.modules) /\ Len(w.modules) = Len(v.modules)
        /\ \A i \in 1 .. Len(w.modules) : /\ w.modules[i].source \in Files \cup Sources \cup {"callback"}
                                          /\ DOMAIN w.modules[i] = {"source", "refs"}
    BY DEF ViewOK, ModulesLike
  <2> QED  BY <1>1, <2>1, <2>2, <2>3 DEF ViewOK
<1>9. StaticsAt(w, Len(v.mods)) = StaticsAt(v, Len(v.mods))
  BY <1>7, <1>8, ExtendedKeeps
<1>10. FunctionsAt(w, Len(v.functions), Len(v.mods)) = FunctionsAt(v, Len(v.functions), Len(v.mods))
  BY <1>9 DEF FunctionsAt
<1>11. name \notin Functions
  BY ConstantsAreDefinitions DEF DefinitionsAssumption
<1>12. KnownAt(w, K \cup {name}, c + 1, Len(v.functions), Len(v.mods))
  BY <1>1, <1>5, <1>10, <1>11 DEF KnownAt
<1> QED  BY <1>1, <1>7, <1>8, <1>12

LEMMA DefineClassSound ==
  ASSUME DefInv, NEW name \in Names, DefineClass(name)
  PROVE  DefInv' /\ ClassDefined(name)
<1>1. PICK v : v = View(Running, Root, blocks, functions, modules)
  OBVIOUS
<1>2. Seen(v, Len(vms), Root, Running, blocks, known) /\ Tables(blocks, Running, Root)
      /\ IsVm(Root) /\ IsVm(Running)
  BY <1>1, ViewIs
<1>3. Running.kind \in {"chunk", "include", "invoke"}
  BY DEF DefineClass, Executing
<1>4. name \notin ClassesAt(v, Len(v.classes))
  <2>1. ClassNames(Running.classes) = known \cap Names
    BY <1>3, TablesFound DEF InCode, DeclaredClassesFound
  <2>2. known \cap Names = ClassesAt(v, Len(v.classes))
    BY <1>2 DEF Seen, KnownAt
  <2> QED  BY <2>1, <2>2 DEF DefineClass, pphp_find_class
<1>5. PICK x, g, h2, m2 : /\ x = <<name, Running.code>>
                          /\ g = Grow(Running.classes, x, FirstClasses).table
                          /\ h2 = Grow(Running.classes, x, FirstClasses).heap
                          /\ m2 = pmodule_retain(modules, Running.code)
  OBVIOUS
<1>6. PICK t2 : t2 = [Running EXCEPT !.classes = g]
  OBVIOUS
<1>7. /\ vms' = Replaced(vms, Top, t2) /\ blocks' = h2 /\ modules' = m2
      /\ known' = known \cup {name} /\ functions' = functions
  BY <1>5, <1>6, TopIs DEF DefineClass, Replaced
<1>8. /\ IsVm(t2) /\ t2.classes = g /\ t2.kind = Running.kind /\ t2.module = Running.module
      /\ t2.start = Running.start /\ t2.mods = Running.mods
  BY <1>2, <1>6 DEF IsVm, Fields
<1>9. PICK r2 : r2 = IF Len(vms) = 1 THEN t2 ELSE Root
  OBVIOUS
<1>10. /\ IsVm(r2) /\ r2.kind = Root.kind /\ r2.module = Root.module
       /\ r2.start = Root.start /\ r2.mods = Root.mods
  BY <1>2, <1>8, <1>9, TopIs
<1>11. IsSeq(vms') /\ Len(vms') = Len(vms) /\ Running' = t2 /\ Root' = r2
  BY <1>7, <1>9, Touched
<1>12. FirstClasses \in Nat \ {0}
  BY ConstantsAreDefinitions DEF DefinitionsAssumption
<1>13. PICK c : c = Running.classes.n
  OBVIOUS
<1>14. /\ IsSeq(h2) /\ InHeap(h2, g) /\ g.n = c + 1
       /\ \A i \in 1 .. c : InUse(h2, g)[i] = InUse(blocks, Running.classes)[i]
       /\ InUse(h2, g)[c + 1] = x
       /\ \A u : InHeap(blocks, u) /\ Apart(Running.classes, u) =>
                 InHeap(h2, u) /\ Apart(g, u) /\ InUse(h2, u) = InUse(blocks, u)
  BY <1>2, <1>5, <1>12, <1>13, GrowIs DEF Tables
<1>15. PICK w : w = View(t2, r2, h2, functions, m2)
  OBVIOUS
<1>16. /\ DOMAIN w = {"classes", "functions", "modules", "mods"} /\ w.functions = v.functions
       /\ w.classes = InUse(h2, g) /\ w.modules = m2 /\ w.mods = InUse(h2, Root.mods)
  BY <1>1, <1>8, <1>10, <1>15 DEF View
<1>17. w.mods = v.mods /\ InHeap(h2, Root.mods) /\ Apart(g, Root.mods)
  BY <1>1, <1>2, <1>14, <1>16, ViewIs DEF Tables
<1>18. /\ IsSeq(w.classes) /\ Len(w.classes) = Len(v.classes) + 1
       /\ \A i \in 1 .. Len(v.classes) : w.classes[i] = v.classes[i]
       /\ w.classes[Len(v.classes) + 1] = <<name, Running.code>>
  <2>1. v.classes = InUse(blocks, Running.classes) /\ Len(v.classes) = c
    BY <1>1, <1>13, ViewIs
  <2>2. IsSeq(w.classes) /\ Len(w.classes) = c + 1
    BY <1>14, <1>16, InUseAre
  <2> QED  BY <1>5, <1>14, <1>16, <2>1, <2>2
<1>19. ModulesLike(v.modules, w.modules)
  BY <1>1, <1>5, <1>16, RecordsAre, RetainLike, ViewIs
<1>20. ViewOK(v) /\ KnownAt(v, known, Len(v.classes), Len(v.functions), Len(v.mods))
  BY <1>2 DEF Seen
<1>21. /\ ViewOK(w) /\ Extended(v, w)
       /\ KnownAt(w, known \cup {name}, Len(w.classes), Len(w.functions), Len(w.mods))
  BY <1>4, <1>16, <1>17, <1>18, <1>19, <1>20, ClassAdded
<1>22. Len(vms) = 2 /\ Running.kind = "invoke" =>
         /\ InHeap(h2, Running.mods) /\ InUse(h2, Running.mods) = InUse(blocks, Running.mods)
         /\ Apart(Running.mods, g)
  BY <1>2, <1>14 DEF Seen, Nested, Borrowed, Apart
<1>23. Seen(w, Len(vms), r2, t2, h2, known \cup {name})
  <2>1. LikeVm(Running, t2) /\ LikeVm(Root, r2)
    BY <1>8, <1>10 DEF LikeVm
  <2>2. Alike(Len(vms), r2, Running, t2, blocks, h2)
    BY <1>3, <1>8, <1>9, <1>22 DEF Alike
  <2>3. Len(w.mods) = Len(v.mods)
    BY <1>17
  <2> QED  BY <1>2, <1>21, <2>1, <2>2, <2>3, SeenGrows
<1>24. Tables(h2, t2, r2)
  BY <1>8, <1>10, <1>14, <1>17 DEF Tables
<1>25. Sound(Len(vms), r2, t2, h2, functions, m2, known \cup {name})
  BY <1>8, <1>10, <1>15, <1>23, <1>24, TopIs DEF Sound
<1>26. DefInv'
  BY <1>7, <1>11, <1>25 DEF DefInv
<1>27. SameVm(Running, Running') /\ SameVm(Root, Root') /\ Running'.file = Running.file
  <2>1. t2.code = Running.code /\ t2.file = Running.file
    BY <1>2, <1>6 DEF IsVm, Fields
  <2>2. r2.code = Root.code
    BY <1>9, <2>1, TopIs
  <2> QED  BY <1>8, <1>10, <1>11, <2>1, <2>2 DEF SameVm
<1>28. SeenNow' = w /\ SeenNow = v
  BY <1>1, <1>7, <1>11, <1>15 DEF SeenNow
<1>29. Longer(v.classes, w.classes, <<name, Running.code>>)
  BY <1>18 DEF Longer
<1>30. w.modules = pmodule_retain(v.modules, Running.code)
  BY <1>1, <1>5, <1>16, ViewIs
<1>31. Len(blocks) <= Len(blocks')
  BY <1>2, <1>5, <1>7, <1>12, GrowIs DEF Tables
<1>32. Len(vms) = 2 => Root' = Root
  BY <1>9, <1>11
<1> QED  BY <1>4, <1>11, <1>16, <1>17, <1>26, <1>27, <1>28, <1>29, <1>30, <1>31, <1>32 DEF ClassDefined

-----------------------------------------------------------------------------
(* Functions, and the modules of callbacks.                                *)

LEMMA FunctionAdded ==
  ASSUME NEW v, ViewOK(v), NEW K, KnownAt(v, K, Len(v.classes), Len(v.functions), Len(v.mods)),
         NEW x, x.name \in Functions,
         NEW w, DOMAIN w = {"classes", "functions", "modules", "mods"},
         w.functions = Append(v.functions, x),
         w.classes = v.classes, w.mods = v.mods, ModulesLike(v.modules, w.modules)
  PROVE  ViewOK(w) /\ Extended(v, w)
         /\ KnownAt(w, K \cup {x.name}, Len(w.classes), Len(w.functions), Len(w.mods))
<1>1. PICK f \in Nat : f = Len(v.functions)
  BY SeqIs DEF ViewOK
<1>2. \A i : i \in 1 .. f + 1 <=> i \in 1 .. f \/ i = f + 1
  OBVIOUS
<1>3. /\ IsSeq(w.functions) /\ Len(w.functions) = f + 1 /\ w.functions[f + 1] = x
      /\ \A i \in 1 .. f : w.functions[i] = v.functions[i]
  <2>1. IsSeq(v.functions)
    BY DEF ViewOK
  <2>2. /\ IsSeq(Append(v.functions, x)) /\ Len(Append(v.functions, x)) = f + 1
        /\ Append(v.functions, x)[f + 1] = x
        /\ \A i \in 1 .. f : Append(v.functions, x)[i] = v.functions[i]
    BY <1>1, <2>1, AppendIs
  <2> QED  BY <2>2
<1>4. Len(v.classes) \in Nat /\ Len(v.mods) \in Nat /\ Len(v.modules) \in Nat
  BY SeqIs DEF ViewOK
<1>5. Extended(v, w)
  BY <1>1, <1>3, <1>4 DEF Extended, Agree, SameSources, ModulesLike
<1>6. ViewOK(w)
  <2>1. \A i \in 1 .. f + 1 : w.functions[i].name \in Functions
    BY <1>1, <1>2, <1>3 DEF ViewOK
  <2>2. IsSeq(w.modules) /\ Len(w.modules) = Len(v.modules)
        /\ \A i \in 1 .. Len(w.modules) : /\ w.modules[i].source \in Files \cup Sources \cup {"callback"}
                                          /\ DOMAIN w.modules[i] = {"source", "refs"}
    BY DEF ViewOK, ModulesLike
  <2> QED  BY <1>3, <2>1, <2>2 DEF ViewOK
<1>7. StaticsAt(w, Len(v.mods)) = StaticsAt(v, Len(v.mods))
  BY <1>5, <1>6, ExtendedKeeps
<1>8. {w.functions[i].name : i \in 1 .. f + 1} = {v.functions[i].name : i \in 1 .. f} \cup {x.name}
  BY <1>2, <1>3
<1>9. FunctionsAt(w, f + 1, Len(v.mods)) = FunctionsAt(v, f, Len(v.mods)) \cup {x.name}
  BY <1>7, <1>8 DEF FunctionsAt
<1>10. x.name \notin Names
  BY ConstantsAreDefinitions DEF DefinitionsAssumption
<1>11. KnownAt(w, K \cup {x.name}, Len(v.classes), f + 1, Len(v.mods))
  BY <1>1, <1>9, <1>10 DEF KnownAt, ClassesAt
<1> QED  BY <1>3, <1>5, <1>6, <1>11

LEMMA DefineFunctionSound ==
  ASSUME DefInv, NEW f \in Functions, DefineFunction(f)
  PROVE  DefInv' /\ FunctionDefined(f)
<1>1. PICK v : v = View(Running, Root, blocks, functions, modules)
  OBVIOUS
<1>2. Seen(v, Len(vms), Root, Running, blocks, known) /\ Tables(blocks, Running, Root)
      /\ IsVm(Root) /\ IsVm(Running)
  BY <1>1, ViewIs
<1>3. Running.kind \in {"chunk", "include", "invoke"}
  BY DEF DefineFunction, Executing
<1>4. PICK x, f2, m2 : /\ x = [name |-> f, module |-> Running.code] /\ f2 = Append(functions, x)
                       /\ m2 = pmodule_retain(modules, Running.code)
  OBVIOUS
<1>5. /\ vms' = vms /\ blocks' = blocks /\ modules' = m2
      /\ known' = known \cup {f} /\ functions' = f2
  BY <1>4 DEF DefineFunction
<1>6. PICK w : w = View(Running, Root, blocks, f2, m2)
  OBVIOUS
<1>7. /\ DOMAIN w = {"classes", "functions", "modules", "mods"} /\ w.functions = Append(v.functions, x)
      /\ w.classes = v.classes /\ w.modules = m2 /\ w.mods = v.mods
  BY <1>1, <1>4, <1>6, ViewIs DEF View
<1>8. ModulesLike(v.modules, w.modules)
  BY <1>1, <1>4, <1>7, RecordsAre, RetainLike, ViewIs
<1>9. ViewOK(v) /\ KnownAt(v, known, Len(v.classes), Len(v.functions), Len(v.mods))
  BY <1>2 DEF Seen
<1>10. x.name = f
  BY <1>4
<1>11. /\ ViewOK(w) /\ Extended(v, w)
       /\ KnownAt(w, known \cup {f}, Len(w.classes), Len(w.functions), Len(w.mods))
  BY <1>7, <1>8, <1>9, <1>10, FunctionAdded
<1>12. Seen(w, Len(vms), Root, Running, blocks, known \cup {f})
  <2>1. LikeVm(Running, Running) /\ LikeVm(Root, Root)
    BY DEF LikeVm
  <2>2. Alike(Len(vms), Root, Running, Running, blocks, blocks)
    BY <1>2, <1>3, TopIs DEF Alike, Seen, Nested, Borrowed
  <2>3. Len(w.mods) = Len(v.mods)
    BY <1>7
  <2> QED  BY <1>2, <1>11, <2>1, <2>2, <2>3, SeenGrows
<1>13. Sound(Len(vms), Root, Running, blocks, f2, m2, known \cup {f})
  BY <1>2, <1>6, <1>12, TopIs DEF Sound
<1>14. Root' = Root /\ Running' = Running /\ IsSeq(vms')
  BY <1>5 DEF Root, Running, Top, DefInv
<1>15. DefInv'
  BY <1>5, <1>13, <1>14 DEF DefInv
<1>16. SeenNow' = w /\ SeenNow = v
  BY <1>1, <1>5, <1>6, <1>14 DEF SeenNow
<1>17. w.modules = pmodule_retain(v.modules, Running.code)
  BY <1>1, <1>4, <1>7, ViewIs
<1> QED  BY <1>4, <1>5, <1>7, <1>14, <1>15, <1>16, <1>17 DEF FunctionDefined

-----------------------------------------------------------------------------
(* Steps after which the same is declared.                                 *)

\* M has the modules of L, and perhaps more.
ModulesMore(L, M) ==
  /\ IsSeq(M) /\ Len(L) <= Len(M)
  /\ \A m \in 1 .. Len(L) : M[m].source = L[m].source
  /\ \A m \in 1 .. Len(M) : /\ M[m].source \in Files \cup Sources \cup {"callback"}
                            /\ DOMAIN M[m] = {"source", "refs"}

LEMMA ViewSame ==
  ASSUME NEW v, ViewOK(v), NEW K, KnownAt(v, K, Len(v.classes), Len(v.functions), Len(v.mods)),
         NEW w, DOMAIN w = {"classes", "functions", "modules", "mods"}, w.classes = v.classes,
         w.functions = v.functions, w.mods = v.mods, ModulesMore(v.modules, w.modules)
  PROVE  ViewOK(w) /\ Extended(v, w)
         /\ KnownAt(w, K, Len(w.classes), Len(w.functions), Len(w.mods))
<1>1. Len(v.classes) \in Nat /\ Len(v.functions) \in Nat /\ Len(v.mods) \in Nat
      /\ Len(v.modules) \in Nat /\ Len(w.modules) \in Nat
  BY SeqIs DEF ViewOK, ModulesMore
<1>2. Extended(v, w)
  BY <1>1 DEF Extended, Agree, SameSources, ModulesMore
<1>3. \A i \in 1 .. Len(w.mods) : w.mods[i] \in 1 .. Len(w.modules)
  BY <1>1 DEF ViewOK, ModulesMore
<1>4. ViewOK(w)
  BY <1>3 DEF ViewOK, ModulesMore
<1>5. KnownAt(w, K, Len(v.classes), Len(v.functions), Len(v.mods))
  BY <1>2, <1>4, KnownAgree DEF Extended
<1> QED  BY <1>2, <1>4, <1>5

LEMMA LikeMore ==
  ASSUME NEW v, ViewOK(v), NEW M, ModulesLike(v.modules, M)
  PROVE  ModulesMore(v.modules, M)
<1>1. Len(v.modules) \in Nat
  BY SeqIs DEF ViewOK
<1> QED  BY <1>1 DEF ViewOK, ModulesLike, ModulesMore

LEMMA AppendMore ==
  ASSUME NEW v, ViewOK(v), NEW s \in Files \cup Sources \cup {"callback"}, NEW d
  PROVE  /\ ModulesMore(v.modules, Append(v.modules, [source |-> s, refs |-> d]))
         /\ Len(Append(v.modules, [source |-> s, refs |-> d])) = Len(v.modules) + 1
         /\ Append(v.modules, [source |-> s, refs |-> d])[Len(v.modules) + 1].source = s
<1>1. PICK x, M, n : x = [source |-> s, refs |-> d] /\ M = Append(v.modules, x) /\ n = Len(v.modules)
  OBVIOUS
<1>2. IsSeq(v.modules) /\ n \in Nat
  BY <1>1, SeqIs DEF ViewOK
<1>3. IsSeq(M) /\ Len(M) = n + 1 /\ M[n + 1] = x /\ \A i \in 1 .. n : M[i] = v.modules[i]
  BY <1>1, <1>2, AppendIs
<1>4. x.source = s /\ DOMAIN x = {"source", "refs"}
  BY <1>1
<1>5. \A i : i \in 1 .. n + 1 <=> i \in 1 .. n \/ i = n + 1
  BY <1>2
<1>6. ModulesMore(v.modules, M)
  BY <1>1, <1>2, <1>3, <1>4, <1>5 DEF ViewOK, ModulesMore
<1> QED  BY <1>1, <1>3, <1>4, <1>6

\* A block is allocated, or freed.
LEMMA HeapAppended ==
  ASSUME NEW h, IsSeq(h), NEW b, NEW u, InHeap(h, u)
  PROVE  InHeap(Append(h, b), u) /\ InUse(Append(h, b), u) = InUse(h, u) /\ u.p <= Len(h)
<1>1. PICK g, n : g = Append(h, b) /\ n = Len(h)
  OBVIOUS
<1>2. n \in Nat /\ Len(g) = n + 1 /\ \A i \in 1 .. n : g[i] = h[i]
  BY <1>1, AppendIs, SeqIs
<1>3. CASE u.p = 0
  BY <1>1, <1>2, <1>3 DEF InHeap, InUse, IsTable
<1>4. CASE u.p # 0
  <2>1. u.p \in 1 .. n /\ u.p \in 1 .. n + 1 /\ g[u.p] = h[u.p]
    BY <1>1, <1>2, <1>4 DEF InHeap
  <2> QED  BY <1>1, <1>2, <2>1 DEF InHeap, InUse
<1> QED  BY <1>3, <1>4

Preserves(h, g, t) ==
  \A u : InHeap(h, u) /\ Apart(t, u) => InHeap(g, u) /\ InUse(g, u) = InUse(h, u)

LEMMA HeapFreed ==
  ASSUME NEW h, IsSeq(h), NEW t, InHeap(h, t), t.p # 0, NEW b
  PROVE  IsSeq(Replaced(h, t.p, b)) /\ Preserves(h, Replaced(h, t.p, b), t)
<1>1. PICK g : g = Replaced(h, t.p, b)
  OBVIOUS
<1>2. t.p \in 1 .. Len(h)
  BY DEF InHeap
<1>3. IsSeq(g) /\ Len(g) = Len(h) /\ \A i \in 1 .. Len(h) : i # t.p => g[i] = h[i]
  BY ONLY <1>1, <1>2, IsSeq(h), ReplacedIs
<1> SUFFICES ASSUME NEW u, InHeap(h, u), Apart(t, u) PROVE InHeap(g, u) /\ InUse(g, u) = InUse(h, u)
  BY <1>1, <1>3 DEF Preserves
<1>4. CASE u.p = 0
  BY <1>3, <1>4 DEF InHeap, InUse, IsTable
<1>5. CASE u.p # 0
  <2>1. u.p \in 1 .. Len(h) /\ g[u.p] = h[u.p]
    BY <1>3, <1>5 DEF InHeap, Apart
  <2> QED  BY <1>3, <2>1 DEF InHeap, InUse
<1> QED  BY <1>4, <1>5

-----------------------------------------------------------------------------
(* Callbacks and destructors.                                              *)

\* The list a of a VM and the module m it executes.
WithOwn(a, m) == a \o (IF m = 0 THEN <<>> ELSE <<m>>)

Own(m) == IF m = 0 THEN {} ELSE {m}

LEMMA ListedWith ==
  ASSUME NEW a, IsSeq(a), NEW m
  PROVE  /\ IsSeq(WithOwn(a, m))
         /\ Items(WithOwn(a, m))
              = Items(a) \cup Own(m)
<1> DEFINE l == WithOwn(a, m)
<1>1. PICK S : a \in Seq(S)
  BY DEF IsSeq
<1>2. CASE m = 0
  <2>1. l = a \o <<>>
    BY <1>2 DEF WithOwn
  <2>2. l = a
    BY <1>1, <2>1
  <2> QED  BY <1>2, <2>2 DEF Own
<1>3. CASE m # 0
  <2>1. l = Append(a, m)
    <3>1. l = a \o <<m>>
      BY <1>3 DEF WithOwn
    <3> QED  BY <1>1, <3>1
  <2> HIDE DEF l
  <2>2. PICK n \in Nat : n = Len(a)
    BY <1>1
  <2>3. IsSeq(l) /\ Len(l) = n + 1 /\ l[n + 1] = m /\ \A i \in 1 .. n : l[i] = a[i]
    <3>1. /\ IsSeq(Append(a, m)) /\ Len(Append(a, m)) = n + 1 /\ Append(a, m)[n + 1] = m
          /\ \A i \in 1 .. n : Append(a, m)[i] = a[i]
      BY <2>2, AppendIs
    <3> QED  BY <2>1, <3>1
  <2>4. \A i : i \in 1 .. n + 1 <=> i \in 1 .. n \/ i = n + 1
    OBVIOUS
  <2> QED  BY <1>3, <2>2, <2>3, <2>4 DEF l, Own, Items
<1> QED  BY <1>2, <1>3

LEMMA StartInvokeSound ==
  ASSUME DefInv, Len(vms) = 1, Root.kind \in {"chunk", "rollback"}, NEW kind,
         NEW vm, vm = Root, StartInvoke(vm, kind)
  PROVE  DefInv' /\ Invoked
<1>1. PICK v : v = View(Running, Root, blocks, functions, modules)
  OBVIOUS
<1>2. /\ Seen(v, 1, Root, Root, blocks, known) /\ Tables(blocks, Root, Root)
      /\ IsVm(Root) /\ Running = Root
  BY <1>1, ViewIs, TopIs
<1>3. PICK l, t2, h2, m2 : /\ l = Entries(Root.mods) \o (IF Root.module = 0 THEN <<>> ELSE <<Root.module>>)
                           /\ t2 = ChildOf(Root, kind) /\ h2 = Append(blocks, Block(l))
                           /\ m2 = Append(modules, [source |-> "callback", refs |-> 1])
  OBVIOUS
<1>4. /\ vms' = Append(vms, t2) /\ blocks' = h2 /\ modules' = m2
      /\ known' = known /\ functions' = functions
  BY <1>3 DEF StartInvoke, NewModule
<1>5. IsSeq(vms') /\ Len(vms') = 2 /\ Root' = Root /\ Running' = t2
  BY <1>4, Pushed DEF DefInv
<1>6. PICK p, k, g : p = Len(blocks) + 1 /\ k = Len(l) /\ g = [p |-> p, n |-> k, c |-> k]
  OBVIOUS
<1>7. /\ IsVm(t2) /\ t2.kind = "invoke" /\ t2.module = Len(modules) + 1 /\ t2.mods = g
      /\ t2.classes = Root.classes
  BY <1>2, <1>3, <1>6 DEF ChildOf, IsVm, Fields, StartFields, NoCheckpoint
<1>8. /\ IsSeq(l) /\ k \in Nat
      /\ Items(l) = Items(v.mods)
                                 \cup Own(Root.module)
  <2>1. Entries(Root.mods) = v.mods /\ IsSeq(v.mods)
    BY <1>1, ViewIs DEF Seen, ViewOK
  <2>2. l = WithOwn(v.mods, Root.module)
    BY <1>3, <2>1 DEF WithOwn
  <2>3. IsSeq(l) /\ Items(l) = Items(v.mods)
                                 \cup Own(Root.module)
    <3>1. PICK a, m : a = v.mods /\ m = Root.module
      OBVIOUS
    <3>2. IsSeq(a) /\ l = WithOwn(a, m)
      BY <2>1, <2>2, <3>1
    <3>3. /\ IsSeq(WithOwn(a, m))
          /\ Items(WithOwn(a, m))
               = Items(a) \cup Own(m)
      BY <3>2, ListedWith, Zenon
    <3> QED  BY <3>1, <3>2, <3>3
  <2> QED  BY <1>6, <2>3, SeqIs
<1>9. IsSeq(blocks) /\ Len(blocks) \in Nat
  BY <1>2, SeqIs DEF Tables
<1>10. IsSeq(h2) /\ Len(h2) = p /\ h2[p] = Block(l)
  BY <1>3, <1>6, <1>9, AppendIs
<1>11. \A u : InHeap(blocks, u) => InHeap(h2, u) /\ InUse(h2, u) = InUse(blocks, u) /\ Apart(g, u)
  <2> SUFFICES ASSUME NEW u, InHeap(blocks, u)
               PROVE  InHeap(h2, u) /\ InUse(h2, u) = InUse(blocks, u) /\ Apart(g, u)
    OBVIOUS
  <2>1. InHeap(h2, u) /\ InUse(h2, u) = InUse(blocks, u) /\ u.p <= Len(blocks)
    BY <1>3, <1>9, HeapAppended
  <2>2. u.p \in Nat
    BY DEF InHeap, IsTable
  <2> QED  BY <1>6, <1>9, <2>1, <2>2 DEF Apart
<1>12. InHeap(h2, g) /\ g.p # 0 /\ g.n = k /\ \A i \in 1 .. k : InUse(h2, g)[i] = l[i]
  <2>1. DOMAIN Block(l) = {"state", "slots"} /\ Block(l).state = "live" /\ Block(l).slots = l
    BY DEF Block
  <2>2. p \in Nat \ {0} /\ g.p = p /\ g.n = k /\ g.c = k /\ IsTable(g)
    BY <1>6, <1>8, <1>9 DEF IsTable
  <2> QED  BY <1>6, <1>8, <1>10, <2>1, <2>2 DEF InHeap, InUse
<1>13. PICK w : w = View(t2, Root, h2, functions, m2)
  OBVIOUS
<1>14. /\ DOMAIN w = {"classes", "functions", "modules", "mods"} /\ w.classes = v.classes
       /\ w.functions = v.functions /\ w.mods = v.mods /\ w.modules = m2
  BY <1>1, <1>2, <1>7, <1>11, <1>13, ViewIs DEF View, Tables
<1>15. ViewOK(v) /\ KnownAt(v, known, Len(v.classes), Len(v.functions), Len(v.mods))
       /\ v.modules = modules
  BY <1>1, <1>2, ViewIs DEF Seen
<1>16. /\ ModulesMore(v.modules, w.modules) /\ Len(m2) = Len(modules) + 1
       /\ m2[Len(modules) + 1].source = "callback"
  <2>1. m2 = Append(v.modules, [source |-> "callback", refs |-> 1]) /\ w.modules = m2
    BY <1>3, <1>14, <1>15
  <2>2. ViewOK(v) /\ "callback" \in Files \cup Sources \cup {"callback"}
    BY <1>15
  <2>3. /\ ModulesMore(v.modules, m2) /\ Len(m2) = Len(v.modules) + 1
        /\ m2[Len(v.modules) + 1].source = "callback"
    BY ONLY <2>1, <2>2, AppendMore
  <2> QED  BY <1>15, <2>1, <2>3
<1>17. /\ ViewOK(w) /\ Extended(v, w)
       /\ KnownAt(w, known, Len(w.classes), Len(w.functions), Len(w.mods))
  BY <1>14, <1>15, <1>16, ViewSame
<1>18. /\ Covered(w, Root.module, Len(w.mods)) /\ Point(w, Root.start)
       /\ StaticsAt(w, Len(v.mods)) = StaticsAt(v, Len(v.mods))
  <2>1. Len(v.mods) \in 0 .. Len(v.mods)
    BY <1>15, SeqIs DEF ViewOK
  <2> QED  BY <1>2, <1>14, <1>15, <1>17, <2>1, ExtendedKeeps DEF Seen
<1>19. Borrowed(w, Root, t2, h2)
  <2>1. Apart(g, Root.classes) /\ Apart(g, Root.mods)
    BY <1>2, <1>11 DEF Tables
  <2>2. \A i \in 1 .. k : l[i] \in 1 .. Len(m2)
    <3>1. \A i \in 1 .. Len(v.mods) : v.mods[i] \in 1 .. Len(m2)
      BY <1>14, <1>17 DEF ViewOK
    <3>2. Root.module = 0 \/ Root.module \in 1 .. Len(m2)
      BY <1>14, <1>18 DEF Covered
    <3> QED  BY <1>6, <1>8, <3>1, <3>2 DEF Own, Items
  <2>3. Len(modules) + 1 \in 1 .. Len(m2)
    <3>1. Len(modules) \in Nat
      BY <1>15, SeqIs DEF ViewOK
    <3> QED  BY <1>16, <3>1
  <2>4. Stat(m2, Len(modules) + 1) = {}
    BY <1>16 DEF Stat
  <2>5. StaticsOf(m2, InUse(h2, g), k) = UNION {Stat(m2, m) : m \in Items(l)}
    BY <1>6, <1>12 DEF StaticsOf, Items
  <2>6. UNION {Stat(m2, m) : m \in Items(l)} = StaticsAt(w, Len(w.mods))
    <3>1. StaticsAt(w, Len(w.mods)) = UNION {Stat(m2, m) : m \in Items(v.mods)}
      BY <1>14 DEF StaticsAt, StaticsOf, Items
    <3>2. Root.module # 0 => Stat(m2, Root.module) \subseteq StaticsAt(w, Len(w.mods))
      BY <1>14, <1>18 DEF Covered
    <3> HIDE DEF StaticsAt
    <3> QED  BY <1>8, <3>1, <3>2 DEF Own
  <2> QED  BY <1>7, <1>12, <1>14, <2>1, <2>2, <2>3, <2>4, <2>5, <2>6 DEF Borrowed
<1>20. Seen(w, 2, Root, t2, h2, known)
  BY <1>7, <1>17, <1>18, <1>19 DEF Seen, Nested
<1>21. Tables(h2, t2, Root)
  BY <1>2, <1>7, <1>10, <1>11 DEF Tables
<1>22. Sound(2, Root, t2, h2, functions, m2, known)
  BY <1>2, <1>7, <1>13, <1>20, <1>21 DEF Sound
<1>23. DefInv'
  BY <1>4, <1>5, <1>22 DEF DefInv
<1>24. SeenNow' = w /\ SeenNow = v
  BY <1>1, <1>4, <1>5, <1>13 DEF SeenNow
<1>25. t2.code = Root.code
  BY <1>2, <1>3 DEF ChildOf, IsVm, Fields
<1>26. SameDefinitions(v, w) /\ w.modules = Append(v.modules, [source |-> "callback", refs |-> 1])
  BY <1>3, <1>14, <1>15 DEF SameDefinitions
<1> QED  BY <1>5, <1>7, <1>23, <1>24, <1>25, <1>26 DEF Invoked

LEMMA FinishInvokeSound ==
  ASSUME DefInv, FinishInvoke
  PROVE  DefInv' /\ InvokeFinished
<1>1. PICK v : v = View(Running, Root, blocks, functions, modules)
  OBVIOUS
<1>2. /\ Seen(v, Len(vms), Root, Running, blocks, known) /\ Tables(blocks, Running, Root)
      /\ IsVm(Root) /\ IsVm(Running) /\ Running.kind = "invoke"
  BY <1>1, ViewIs DEF FinishInvoke
<1>3. Len(vms) = 2 /\ Borrowed(v, Root, Running, blocks) /\ Root.kind \in {"chunk", "rollback"}
  BY <1>2, TopIs DEF Seen, Nested
<1>4. PICK h2, m2 : /\ h2 = [blocks EXCEPT ![Running.mods.p] = FreedBlock]
                    /\ m2 = pmodule_release(modules, Running.module)
  OBVIOUS
<1>5. /\ vms' = Replaced(SubSeq(vms, 1, Top - 1), 1, Handed) /\ blocks' = h2 /\ modules' = m2
      /\ known' = known /\ functions' = functions
  <2>1. vms' = [SubSeq(vms, 1, Top - 1) EXCEPT ![1].classes = Running.classes]
    BY DEF FinishInvoke
  <2>2. SubSeq(vms, 1, Top - 1)[1] = Root
    BY <1>3, TopIs, FrontIs DEF DefInv
  <2>3. vms' = Replaced(SubSeq(vms, 1, Top - 1), 1, Handed)
    BY <2>1, <2>2 DEF Replaced, Handed
  <2> QED  BY <1>4, <2>3 DEF FinishInvoke
<1>6. IsSeq(vms') /\ Len(vms') = 1 /\ Root' = Handed /\ Running' = Handed
  BY <1>3, <1>5, Popped
<1>7. /\ IsVm(Handed) /\ Handed.kind = Root.kind /\ Handed.module = Root.module
      /\ Handed.start = Root.start /\ Handed.mods = Root.mods /\ Handed.classes = Running.classes
  BY <1>2 DEF Handed, IsVm, Fields
<1>8. /\ IsSeq(h2) /\ InHeap(h2, Running.classes) /\ InUse(h2, Running.classes) = InUse(blocks, Running.classes)
      /\ InHeap(h2, Root.mods) /\ InUse(h2, Root.mods) = InUse(blocks, Root.mods)
  <2>1. /\ IsSeq(blocks) /\ InHeap(blocks, Running.mods) /\ Running.mods.p # 0
        /\ InHeap(blocks, Running.classes) /\ Apart(Running.mods, Running.classes)
        /\ InHeap(blocks, Root.mods) /\ Apart(Running.mods, Root.mods)
    BY <1>2, <1>3 DEF Tables, Borrowed
  <2>2. IsSeq(h2) /\ Preserves(blocks, h2, Running.mods)
    <3>1. PICK h, t : h = blocks /\ t = Running.mods
      OBVIOUS
    <3>2. IsSeq(h) /\ InHeap(h, t) /\ t.p # 0 /\ h2 = Replaced(h, t.p, FreedBlock)
      BY <1>4, <2>1, <3>1 DEF Replaced
    <3>3. IsSeq(Replaced(h, t.p, FreedBlock)) /\ Preserves(h, Replaced(h, t.p, FreedBlock), t)
      BY ONLY <3>2, HeapFreed, Zenon
    <3> QED  BY ONLY <3>1, <3>2, <3>3, Zenon
  <2> QED  BY <2>1, <2>2 DEF Preserves
<1>9. PICK w : w = View(Handed, Handed, h2, functions, m2)
  OBVIOUS
<1>10. /\ DOMAIN w = {"classes", "functions", "modules", "mods"} /\ w.classes = v.classes
       /\ w.functions = v.functions /\ w.mods = v.mods /\ w.modules = m2
  BY <1>1, <1>7, <1>8, <1>9, ViewIs DEF View
<1>11. ViewOK(v) /\ KnownAt(v, known, Len(v.classes), Len(v.functions), Len(v.mods))
  BY <1>2 DEF Seen
<1>12. ModulesMore(v.modules, w.modules)
  BY <1>1, <1>4, <1>10, <1>11, RecordsAre, RetainLike, ViewIs, LikeMore
<1>13. /\ ViewOK(w) /\ Extended(v, w)
       /\ KnownAt(w, known, Len(w.classes), Len(w.functions), Len(w.mods))
  BY <1>10, <1>11, <1>12, ViewSame
<1>14. Covered(w, Root.module, Len(w.mods)) /\ Point(w, Root.start)
  <2>1. Len(v.mods) \in 0 .. Len(v.mods)
    BY <1>11, SeqIs DEF ViewOK
  <2> QED  BY <1>2, <1>3, <1>10, <1>11, <1>13, <2>1, ExtendedKeeps DEF Seen
<1>15. Seen(w, 1, Handed, Handed, h2, known)
  BY <1>3, <1>7, <1>13, <1>14 DEF Seen
<1>16. Tables(h2, Handed, Handed)
  BY <1>2, <1>7, <1>8 DEF Tables
<1>17. Sound(1, Handed, Handed, h2, functions, m2, known)
  BY <1>7, <1>9, <1>15, <1>16 DEF Sound
<1>18. DefInv'
  BY <1>5, <1>6, <1>17 DEF DefInv
<1>19. SeenNow' = w /\ SeenNow = v
  BY <1>1, <1>5, <1>6, <1>9 DEF SeenNow
<1>20. SameVm(Root, Handed)
  <2>1. Handed.code = Root.code
    BY <1>2 DEF Handed, IsVm, Fields
  <2> QED  BY <1>7, <2>1 DEF SameVm
<1>21. SameDefinitions(v, w) /\ w.modules = pmodule_release(v.modules, Running.module)
  BY <1>1, <1>4, <1>10, ViewIs DEF SameDefinitions
<1> QED  BY <1>3, <1>6, <1>18, <1>19, <1>20, <1>21 DEF InvokeFinished

-----------------------------------------------------------------------------
(* Includes.                                                               *)

LEMMA FinishIncludeSound ==
  ASSUME DefInv, FinishInclude
  PROVE  DefInv' /\ IncludeFinished
<1>1. PICK v : v = View(Running, Root, blocks, functions, modules)
  OBVIOUS
<1>2. /\ Seen(v, Len(vms), Root, Running, blocks, known) /\ Tables(blocks, Running, Root)
      /\ IsVm(Root) /\ IsVm(Running) /\ Running.kind = "include"
  BY <1>1, ViewIs DEF FinishInclude
<1>3. Len(vms) = 2 /\ Root.kind \in {"chunk", "rollback"}
  BY <1>2, TopIs DEF Seen, Nested
<1>4. /\ vms' = Replaced(SubSeq(vms, 1, Top - 1), 1, Handed) /\ blocks' = blocks
      /\ modules' = modules /\ known' = known /\ functions' = functions
  <2>1. vms' = [SubSeq(vms, 1, Top - 1) EXCEPT ![1].classes = Running.classes]
    BY DEF FinishInclude
  <2>2. SubSeq(vms, 1, Top - 1)[1] = Root
    BY <1>3, TopIs, FrontIs DEF DefInv
  <2>3. vms' = Replaced(SubSeq(vms, 1, Top - 1), 1, Handed)
    BY <2>1, <2>2 DEF Replaced, Handed
  <2> QED  BY <2>3 DEF FinishInclude
<1>5. IsSeq(vms') /\ Len(vms') = 1 /\ Root' = Handed /\ Running' = Handed
  BY <1>3, <1>4, Popped
<1>6. /\ IsVm(Handed) /\ Handed.kind = Root.kind /\ Handed.module = Root.module
      /\ Handed.start = Root.start /\ Handed.mods = Root.mods /\ Handed.classes = Running.classes
  BY <1>2 DEF Handed, IsVm, Fields
<1>7. View(Handed, Handed, blocks, functions, modules) = v
  BY <1>1, <1>6 DEF View
<1>8. Seen(v, 1, Handed, Handed, blocks, known)
  BY <1>2, <1>3, <1>6 DEF Seen
<1>9. Tables(blocks, Handed, Handed)
  BY <1>2, <1>6 DEF Tables
<1>10. Sound(1, Handed, Handed, blocks, functions, modules, known)
  BY <1>6, <1>7, <1>8, <1>9 DEF Sound
<1>11. DefInv'
  BY <1>4, <1>5, <1>10 DEF DefInv
<1>12. SeenNow' = v /\ SeenNow = v
  BY <1>1, <1>4, <1>5, <1>7 DEF SeenNow
<1>13. SameVm(Root, Handed)
  <2>1. Handed.code = Root.code
    BY <1>2 DEF Handed, IsVm, Fields
  <2> QED  BY <1>6, <2>1 DEF SameVm
<1> QED  BY <1>3, <1>5, <1>11, <1>12, <1>13 DEF IncludeFinished

LEMMA FailIncludeSound ==
  ASSUME DefInv, FailInclude
  PROVE  DefInv' /\ IncludeFailed
<1>1. PICK v : v = View(Running, Root, blocks, functions, modules)
  OBVIOUS
<1>2. /\ Seen(v, Len(vms), Root, Running, blocks, known) /\ Tables(blocks, Running, Root)
      /\ IsVm(Root) /\ IsVm(Running) /\ Running.kind = "include"
  BY <1>1, ViewIs DEF FailInclude
<1>3. Len(vms) = 2 /\ Root.kind \in {"chunk", "rollback"}
      /\ Point(v, Running.start) /\ Later(Root.start, Running.start)
  BY <1>2, TopIs DEF Seen, Nested
<1>4. PICK t2 : t2 = [Running EXCEPT !.kind = "rollback", !.start.class_end = Running.classes.n]
  OBVIOUS
<1>5. /\ vms' = Replaced(Replaced(vms, 1, Handed), Top, t2) /\ blocks' = blocks
      /\ modules' = modules /\ known' = known /\ functions' = functions
  <2>1. vms' = [[vms EXCEPT ![1] = Handed] EXCEPT ![Top] = t2]
    <3>1. Top # 1
      BY <1>3, TopIs
    <3> QED  BY <1>4, <3>1, TopIs DEF FailInclude, Handed
  <2> QED  BY <2>1 DEF Replaced, FailInclude
<1>6. IsSeq(vms') /\ Len(vms') = 2 /\ Root' = Handed /\ Running' = t2
  BY <1>3, <1>5, BothTouched
<1>7. /\ IsVm(Handed) /\ Handed.kind = Root.kind /\ Handed.module = Root.module
      /\ Handed.start = Root.start /\ Handed.mods = Root.mods /\ Handed.classes = Running.classes
  BY <1>2 DEF Handed, IsVm, Fields
<1>8. /\ IsVm(t2) /\ t2.kind = "rollback" /\ t2.classes = Running.classes
      /\ t2.start.classes = Running.start.classes /\ t2.start.functions = Running.start.functions
      /\ t2.start.mods = Running.start.mods /\ t2.start.known = Running.start.known
      /\ t2.start.module = Running.start.module
  BY <1>2, <1>4 DEF IsVm, Fields, StartFields
<1>9. View(t2, Handed, blocks, functions, modules) = v
  BY <1>1, <1>7, <1>8 DEF View
<1>10. Point(v, t2.start) /\ Later(Handed.start, t2.start)
  BY <1>3, <1>7, <1>8 DEF Point, Later
<1>11. Seen(v, 2, Handed, t2, blocks, known)
  BY <1>2, <1>3, <1>7, <1>8, <1>10 DEF Seen, Nested
<1>12. Tables(blocks, t2, Handed)
  BY <1>2, <1>7, <1>8 DEF Tables
<1>13. Sound(2, Handed, t2, blocks, functions, modules, known)
  BY <1>7, <1>8, <1>9, <1>11, <1>12 DEF Sound
<1>14. DefInv'
  BY <1>5, <1>6, <1>13 DEF DefInv
<1>15. SeenNow' = v /\ SeenNow = v
  BY <1>1, <1>5, <1>6, <1>9 DEF SeenNow
<1>16. SameVm(Root, Handed)
  <2>1. Handed.code = Root.code
    BY <1>2 DEF Handed, IsVm, Fields
  <2> QED  BY <1>7, <2>1 DEF SameVm
<1>17. /\ t2.module = Running.module /\ t2.code = Running.code /\ t2.mods = Running.mods
       /\ t2.start.class_end = Running.classes.n
  BY <1>2, <1>4 DEF IsVm, Fields, StartFields
<1>18. Running.mods = Root.mods /\ Running.classes.n = Len(v.classes)
  BY <1>1, <1>2, <1>3, ViewIs DEF Seen, Nested
<1> QED  BY <1>3, <1>6, <1>7, <1>8, <1>14, <1>15, <1>16, <1>17, <1>18 DEF IncludeFailed

LEMMA ModuleAdded ==
  ASSUME NEW v, ViewOK(v), NEW K, KnownAt(v, K, Len(v.classes), Len(v.functions), Len(v.mods)),
         NEW s \in Files \cup Sources,
         NEW w, DOMAIN w = {"classes", "functions", "modules", "mods"}, w.classes = v.classes,
         w.functions = v.functions, ModulesMore(v.modules, w.modules),
         Len(w.modules) = Len(v.modules) + 1, w.modules[Len(v.modules) + 1].source = s,
         IsSeq(w.mods), Len(w.mods) = Len(v.mods) + 1,
         \A i \in 1 .. Len(v.mods) : w.mods[i] = v.mods[i],
         w.mods[Len(v.mods) + 1] = Len(v.modules) + 1
  PROVE  /\ ViewOK(w) /\ Extended(v, w)
         /\ KnownAt(w, K \cup Defines[s], Len(w.classes), Len(w.functions), Len(w.mods))
         /\ Covered(w, Len(v.modules) + 1, Len(w.mods))
<1>1. PICK k \in Nat, m \in Nat : k = Len(v.mods) /\ m = Len(v.modules)
  BY SeqIs DEF ViewOK
<1>2. \A i : i \in 1 .. k + 1 <=> i \in 1 .. k \/ i = k + 1
  OBVIOUS
<1>3. Len(v.classes) \in Nat /\ Len(v.functions) \in Nat
  BY SeqIs DEF ViewOK
<1>4. Extended(v, w)
  BY <1>1, <1>3 DEF Extended, Agree, SameSources, ModulesMore
<1>5. \A i \in 1 .. k + 1 : w.mods[i] \in 1 .. m + 1
  <2>1. \A i \in 1 .. k : w.mods[i] \in 1 .. m
    BY <1>1 DEF ViewOK
  <2>2. w.mods[k + 1] = m + 1 /\ 1 .. m \subseteq 1 .. m + 1 /\ m + 1 \in 1 .. m + 1
    BY <1>1
  <2> QED  BY <1>2, <2>1, <2>2
<1>6. ViewOK(w)
  BY <1>1, <1>5 DEF ViewOK, ModulesMore
<1>7. StaticsAt(w, k) = StaticsAt(v, k)
  BY <1>1, <1>4, <1>6, ExtendedKeeps
<1>8. Stat(w.modules, m + 1) = Defines[s]
  BY <1>1, ConstantsAreDefinitions DEF Stat, DefinitionsAssumption
<1>9. StaticsAt(w, k + 1) = StaticsAt(w, k) \cup Stat(w.modules, m + 1)
  <2>1. w.mods[k + 1] = m + 1
    BY <1>1
  <2> QED  BY <1>2, <2>1 DEF StaticsAt, StaticsOf
<1>10. FunctionsAt(w, Len(v.functions), k + 1) = FunctionsAt(v, Len(v.functions), k) \cup Defines[s]
  BY <1>7, <1>8, <1>9 DEF FunctionsAt
<1>11. Defines[s] \subseteq Functions /\ Names \cap Functions = {}
  BY ConstantsAreDefinitions DEF DefinitionsAssumption
<1>12. KnownAt(w, K \cup Defines[s], Len(v.classes), Len(v.functions), k + 1)
  BY <1>1, <1>10, <1>11 DEF KnownAt, ClassesAt
<1>13. Covered(w, m + 1, k + 1)
  BY <1>1, <1>9 DEF Covered
<1> QED  BY <1>1, <1>4, <1>6, <1>12, <1>13

LEMMA IncludeSound ==
  ASSUME DefInv, MaxDepth <= 2, NEW file \in Files, NEW once \in BOOLEAN, Include(file, once)
  PROVE  DefInv' /\ Included(file)
<1>1. PICK v : v = View(Running, Root, blocks, functions, modules)
  OBVIOUS
<1>2. Len(vms) = 1
  <2>1. MaxDepth \in Nat /\ Len(vms) < MaxDepth
    BY ConstantsAreDefinitions DEF DefinitionsAssumption, Include
  <2> QED  BY <2>1, TopIs
<1>3. /\ Seen(v, 1, Root, Root, blocks, known) /\ Tables(blocks, Root, Root)
      /\ IsVm(Root) /\ Running = Root
  BY <1>1, <1>2, ViewIs, TopIs
<1>4. Root.kind = "chunk"
  BY <1>3 DEF Include, Executing, Seen
<1>5. PICK m, g, h2, m2, s : /\ m = Len(modules) + 1 /\ g = Grow(Root.mods, m, FirstModules).table
                             /\ h2 = Grow(Root.mods, m, FirstModules).heap
                             /\ m2 = Append(modules, [source |-> file, refs |-> 1])
                             /\ s = checkpoint_definitions(Root)
  OBVIOUS
<1>6. PICK o : o = [Root EXCEPT !.mods = g]
  OBVIOUS
<1>7. PICK t2 : t2 = [o EXCEPT !.kind = "include", !.module = m, !.code = m, !.file = file,
                               !.once = once, !.start = s]
  OBVIOUS
<1>8. /\ vms' = Append(Replaced(vms, 1, o), t2) /\ blocks' = h2 /\ modules' = m2
      /\ known' = known \cup Defines[file] /\ functions' = functions
  BY <1>5, <1>6, <1>7 DEF Include, NewModule, Replaced
<1>9. IsSeq(vms') /\ Len(vms') = 2 /\ Root' = o /\ Running' = t2
  BY <1>2, <1>8, PushedOn DEF DefInv
<1>10. /\ IsVm(o) /\ o.mods = g /\ o.kind = "chunk" /\ o.classes = Root.classes
       /\ o.start = Root.start /\ o.module = Root.module
  BY <1>3, <1>4, <1>6 DEF IsVm, Fields
<1>11. /\ s.classes = Root.classes.n /\ s.functions = Len(functions) /\ s.mods = Root.mods.n
       /\ s.known = known /\ s.module = Root.module /\ DOMAIN s = StartFields
  BY <1>5 DEF checkpoint_definitions, StartFields
<1>12. /\ IsVm(t2) /\ t2.mods = g /\ t2.kind = "include" /\ t2.classes = Root.classes
       /\ t2.start = s /\ t2.module = m
  BY <1>7, <1>10, <1>11 DEF IsVm, Fields
<1>13. FirstModules \in Nat \ {0}
  BY ConstantsAreDefinitions DEF DefinitionsAssumption
<1>14. PICK k : k = Root.mods.n
  OBVIOUS
<1>15. /\ IsSeq(h2) /\ InHeap(h2, g) /\ g.n = k + 1
       /\ \A i \in 1 .. k : InUse(h2, g)[i] = InUse(blocks, Root.mods)[i]
       /\ InUse(h2, g)[k + 1] = m
       /\ \A u : InHeap(blocks, u) /\ Apart(Root.mods, u) =>
                 InHeap(h2, u) /\ Apart(g, u) /\ InUse(h2, u) = InUse(blocks, u)
  BY <1>3, <1>5, <1>13, <1>14, GrowIs DEF Tables
<1>16. /\ InHeap(h2, Root.classes) /\ Apart(Root.classes, g)
       /\ InUse(h2, Root.classes) = InUse(blocks, Root.classes)
  BY <1>3, <1>15 DEF Tables, Apart
<1>17. PICK w : w = View(t2, o, h2, functions, m2)
  OBVIOUS
<1>18. /\ DOMAIN w = {"classes", "functions", "modules", "mods"} /\ w.functions = v.functions
       /\ w.classes = v.classes /\ w.modules = m2 /\ w.mods = InUse(h2, g)
  BY <1>1, <1>3, <1>10, <1>12, <1>16, <1>17, ViewIs DEF View
<1>19. ViewOK(v) /\ KnownAt(v, known, Len(v.classes), Len(v.functions), Len(v.mods))
       /\ v.modules = modules
  BY <1>1, <1>3, ViewIs DEF Seen
<1>20. /\ IsSeq(w.mods) /\ Len(w.mods) = Len(v.mods) + 1
       /\ \A i \in 1 .. Len(v.mods) : w.mods[i] = v.mods[i]
       /\ w.mods[Len(v.mods) + 1] = Len(v.modules) + 1
  <2>1. v.mods = InUse(blocks, Root.mods) /\ Len(v.mods) = k
    BY <1>1, <1>14, ViewIs
  <2>2. IsSeq(w.mods) /\ Len(w.mods) = k + 1
    BY <1>15, <1>18, InUseAre
  <2> QED  BY <1>5, <1>15, <1>18, <1>19, <2>1, <2>2
<1>21. /\ ModulesMore(v.modules, w.modules) /\ Len(w.modules) = Len(v.modules) + 1
       /\ w.modules[Len(v.modules) + 1].source = file
  <2>1. m2 = Append(v.modules, [source |-> file, refs |-> 1]) /\ w.modules = m2
    BY <1>5, <1>18, <1>19
  <2>2. ViewOK(v) /\ file \in Files \cup Sources \cup {"callback"}
    BY <1>19
  <2>3. /\ ModulesMore(v.modules, m2) /\ Len(m2) = Len(v.modules) + 1
        /\ m2[Len(v.modules) + 1].source = file
    BY ONLY <2>1, <2>2, AppendMore
  <2> QED  BY <2>1, <2>3
<1>22. /\ ViewOK(w) /\ Extended(v, w)
       /\ KnownAt(w, known \cup Defines[file], Len(w.classes), Len(w.functions), Len(w.mods))
       /\ Covered(w, m, Len(w.mods))
  <2>1. file \in Files \cup Sources
    OBVIOUS
  <2>2. /\ ViewOK(w) /\ Extended(v, w)
        /\ KnownAt(w, known \cup Defines[file], Len(w.classes), Len(w.functions), Len(w.mods))
        /\ Covered(w, Len(v.modules) + 1, Len(w.mods))
    BY ONLY <1>18, <1>19, <1>20, <1>21, <2>1, ModuleAdded
  <2> QED  BY <1>5, <1>19, <2>2
<1>23. Len(v.classes) \in Nat /\ Len(v.functions) \in Nat /\ Len(v.mods) \in Nat
  BY <1>19, SeqIs DEF ViewOK
<1>24. Point(v, Root.start) /\ Covered(v, Root.module, Len(v.mods))
  BY <1>3, <1>4 DEF Seen
<1>25. Point(v, s)
  BY <1>1, <1>3, <1>11, <1>19, <1>23, <1>24, ViewIs DEF Point
<1>26. Later(Root.start, s)
  BY <1>1, <1>3, <1>11, <1>23, <1>24, ViewIs DEF Point, Later
<1>27. Point(w, s) /\ Point(w, Root.start)
  BY <1>19, <1>22, <1>24, <1>25, ExtendedKeeps
<1>28. Covered(w, Root.module, Len(w.mods))
  <2>1. Covered(w, Root.module, Len(v.mods))
    BY <1>19, <1>22, <1>23, <1>24, ExtendedKeeps
  <2>2. StaticsAt(w, Len(v.mods)) \subseteq StaticsAt(w, Len(w.mods))
    <3>1. \A i \in 1 .. Len(v.mods) : i \in 1 .. Len(w.mods)
      BY <1>20, <1>23
    <3> QED  BY <3>1 DEF StaticsAt, StaticsOf
  <2> QED  BY <2>1, <2>2 DEF Covered
<1>29. Seen(w, 2, o, t2, h2, known \cup Defines[file])
  BY <1>10, <1>12, <1>22, <1>26, <1>27, <1>28 DEF Seen, Nested
<1>30. Tables(h2, t2, o)
  BY <1>10, <1>12, <1>15, <1>16 DEF Tables
<1>31. Sound(2, o, t2, h2, functions, m2, known \cup Defines[file])
  BY <1>10, <1>12, <1>17, <1>29, <1>30 DEF Sound
<1>32. DefInv'
  BY <1>8, <1>9, <1>31 DEF DefInv
<1>33. SeenNow' = w /\ SeenNow = v
  BY <1>1, <1>8, <1>9, <1>17 DEF SeenNow
<1>34. SameVm(Root, o) /\ t2.code = m /\ t2.file = file
  <2>1. o.code = Root.code
    BY <1>3, <1>6 DEF IsVm, Fields
  <2>2. t2.code = m /\ t2.file = file
    BY <1>7, <1>10 DEF IsVm, Fields
  <2> QED  BY <1>4, <1>10, <2>1, <2>2 DEF SameVm
<1>35. Longer(v.mods, w.mods, m) /\ w.modules = Append(v.modules, [source |-> file, refs |-> 1])
  BY <1>5, <1>18, <1>19, <1>20 DEF Longer
<1>36. t2.start.module = Root.module /\ t2.start.mods = Len(v.mods)
  BY <1>1, <1>11, <1>12, ViewIs
<1> QED
  BY <1>2, <1>4, <1>5, <1>9, <1>10, <1>12, <1>18, <1>32, <1>33, <1>34, <1>35, <1>36 DEF Included

-----------------------------------------------------------------------------
(* Rollbacks.                                                              *)

\* Heap h with the slots z in table t, and t with the count n.
WithSlots(h, t, z) == IF t.p = 0 THEN h ELSE [h EXCEPT ![t.p].slots = z]
Counted(t, n) == [t EXCEPT !.n = n]

Fits(t, h, z) == InHeap(h, t) /\ (t.p # 0 => IsSeq(z) /\ Len(z) = Len(h[t.p].slots))

\* The first n slots of table t are those of z, and other tables are as in h.
Written(h, t, z, n, h2, t2) ==
  /\ IsSeq(h2) /\ InHeap(h2, t2) /\ t2.n = n /\ t2.p = t.p
  /\ \A i \in 1 .. n : t.p # 0 /\ InUse(h2, t2)[i] = z[i]
  /\ \A u : InHeap(h, u) /\ Apart(t, u) => InHeap(h2, u) /\ InUse(h2, u) = InUse(h, u)

LEMMA SlotsSet ==
  ASSUME NEW h, IsSeq(h), NEW t, NEW z, Fits(t, h, z), NEW n \in 0 .. t.n
  PROVE  Written(h, t, z, n, WithSlots(h, t, z), Counted(t, n))
<1>0. PICK h2, t2 : h2 = WithSlots(h, t, z) /\ t2 = Counted(t, n)
  OBVIOUS
<1>1. IsTable(t) /\ t.n \in Nat /\ n \in Nat /\ n <= t.n
  BY DEF Fits, InHeap, IsTable
<1>2. /\ t2 \in [p : Nat, n : Nat, c : Nat] /\ t2.p = t.p /\ t2.n = n /\ t2.c = t.c
      /\ IsTable(t2)
  BY <1>0, <1>1 DEF Counted, IsTable
<1>3. CASE t.p = 0
  <2>1. h2 = h /\ t.c = 0 /\ n = 0
    BY <1>0, <1>1, <1>3 DEF Fits, WithSlots, InHeap, IsTable
  <2> QED  BY <1>0, <1>2, <1>3, <2>1 DEF Fits, InHeap, Written
<1>4. CASE t.p # 0
  <2>1. /\ t.p \in 1 .. Len(h) /\ DOMAIN h[t.p] = {"state", "slots"} /\ h[t.p].state = "live"
        /\ IsSeq(h[t.p].slots) /\ Len(h[t.p].slots) = t.c
    BY <1>4 DEF Fits, InHeap
  <2>2. PICK b : b = [h[t.p] EXCEPT !.slots = z]
    OBVIOUS
  <2>3. DOMAIN b = {"state", "slots"} /\ b.state = "live" /\ b.slots = z
    BY <2>1, <2>2
  <2>4. h2 = Replaced(h, t.p, b)
    BY <1>0, <1>4, <2>2 DEF WithSlots, Replaced
  <2>5. IsSeq(h2) /\ Len(h2) = Len(h) /\ h2[t.p] = b
    BY ONLY IsSeq(h), <2>1, <2>4, ReplacedIs
  <2>6. InHeap(h2, t2)
    BY <1>2, <1>4, <2>1, <2>3, <2>5 DEF Fits, InHeap
  <2>7. \A i \in 1 .. n : InUse(h2, t2)[i] = z[i]
    BY <1>2, <2>3, <2>5 DEF InUse
  <2>8. \A u : InHeap(h, u) /\ Apart(t, u) => InHeap(h2, u) /\ InUse(h2, u) = InUse(h, u)
    <3>1. InHeap(h, t)
      BY <1>4 DEF Fits
    <3>2. IsSeq(Replaced(h, t.p, b)) /\ Preserves(h, Replaced(h, t.p, b), t)
      BY ONLY IsSeq(h), <1>4, <3>1, HeapFreed, Zenon
    <3>3. Preserves(h, h2, t)
      BY ONLY <2>4, <3>2, Zenon
    <3> QED  BY ONLY <3>3 DEF Preserves
  <2> QED  BY <1>0, <1>2, <1>4, <2>5, <2>6, <2>7, <2>8 DEF Written
<1> QED  BY <1>3, <1>4

LEMMA CutBack ==
  ASSUME NEW v, ViewOK(v), NEW s, Point(v, s),
         NEW w, DOMAIN w = {"classes", "functions", "modules", "mods"},
         Cut(w.classes, s.classes, v.classes), Cut(w.functions, s.functions, v.functions),
         Cut(w.mods, s.mods, v.mods), ModulesLike(v.modules, w.modules)
  PROVE  /\ ViewOK(w) /\ KnownAt(w, s.known, Len(w.classes), Len(w.functions), Len(w.mods))
         /\ Covered(w, s.module, Len(w.mods))
         /\ \A u : Point(v, u) /\ Later(u, s) => Point(w, u)
<1>1. PICK c, f, k : c = s.classes /\ f = s.functions /\ k = s.mods
  OBVIOUS
<1>2. /\ Len(v.classes) \in Nat /\ Len(v.functions) \in Nat /\ Len(v.mods) \in Nat
      /\ Len(v.modules) \in Nat
  BY SeqIs DEF ViewOK
<1>3. c \in 0 .. Len(v.classes) /\ f \in 0 .. Len(v.functions) /\ k \in 0 .. Len(v.mods)
  BY <1>1 DEF Point
<1>4. /\ IsSeq(w.classes) /\ Len(w.classes) = c /\ \A i \in 1 .. c : w.classes[i] = v.classes[i]
      /\ IsSeq(w.functions) /\ Len(w.functions) = f /\ \A i \in 1 .. f : w.functions[i] = v.functions[i]
      /\ IsSeq(w.mods) /\ Len(w.mods) = k /\ \A i \in 1 .. k : w.mods[i] = v.mods[i]
  BY <1>1 DEF Cut
<1>5. /\ 1 .. c \subseteq 1 .. Len(v.classes) /\ 1 .. f \subseteq 1 .. Len(v.functions)
      /\ 1 .. k \subseteq 1 .. Len(v.mods)
  BY <1>2, <1>3
<1>6. SameSources(v, w)
  BY <1>2 DEF ModulesLike, SameSources
<1>7. ViewOK(w)
  <2>1. /\ \A i \in 1 .. c : IsClass(w.classes[i])
        /\ \A i, j \in 1 .. c : NameOf(w.classes[i]) = NameOf(w.classes[j]) => i = j
    BY <1>4, <1>5 DEF ViewOK
  <2>2. \A i \in 1 .. f : w.functions[i].name \in Functions
    BY <1>4, <1>5 DEF ViewOK
  <2>3. /\ IsSeq(w.modules) /\ Len(w.modules) = Len(v.modules)
        /\ \A m \in 1 .. Len(w.modules) : /\ w.modules[m].source \in Files \cup Sources \cup {"callback"}
                                          /\ DOMAIN w.modules[m] = {"source", "refs"}
    BY DEF ViewOK, ModulesLike
  <2>4. \A i \in 1 .. k : w.mods[i] \in 1 .. Len(v.modules)
    BY <1>4, <1>5 DEF ViewOK
  <2> QED  BY <1>4, <2>1, <2>2, <2>3, <2>4 DEF ViewOK
<1>8. \A a, b, d : a \in 0 .. c /\ b \in 0 .. f /\ d \in 0 .. k => Agree(v, w, a, b, d)
  BY <1>2, <1>3, <1>4, <1>6 DEF Agree
<1>9. Point(w, s)
  <2>1. Agree(v, w, s.classes, s.functions, s.mods)
    BY <1>1, <1>2, <1>3, <1>8
  <2> QED  BY <1>7, <2>1, PointAgree
<1>10. ASSUME NEW u, Point(v, u), Later(u, s) PROVE Point(w, u)
  <2>1. u.classes \in 0 .. c /\ u.functions \in 0 .. f /\ u.mods \in 0 .. k
    BY <1>1, <1>2, <1>3, <1>10 DEF Point, Later
  <2>2. Agree(v, w, u.classes, u.functions, u.mods)
    BY <1>8, <2>1
  <2> QED  BY <1>7, <1>10, <2>2, PointAgree
<1> QED  BY <1>1, <1>4, <1>7, <1>9, <1>10 DEF Point

LEMMA PrefixCut ==
  ASSUME NEW s, IsSeq(s), NEW n \in 0 .. Len(s)
  PROVE  Cut(SubSeq(s, 1, n), n, s)
<1>1. PICK f : f = [i \in 1 .. n |-> s[i]]
  OBVIOUS
<1>2. n \in Nat /\ DOMAIN f = 1 .. n /\ f = [i \in 1 .. n |-> f[i]]
  BY <1>1, SeqIs
<1>3. IsSeq(f) /\ Len(f) = n
  BY <1>2, TupleIs
<1>4. SubSeq(s, 1, n) = f
  BY <1>1, PrefixIs
<1> QED  BY <1>1, <1>3, <1>4 DEF Cut

\* The count of a table is taken back.
LEMMA TableCut ==
  ASSUME NEW h, NEW t, InHeap(h, t), NEW n \in 0 .. t.n, NEW t2, t2 = [t EXCEPT !.n = n]
  PROVE  InHeap(h, t2) /\ t2.p = t.p /\ Cut(InUse(h, t2), n, InUse(h, t))
<1>1. IsTable(t) /\ t.n \in Nat /\ n \in Nat /\ n <= t.n
  BY DEF InHeap, IsTable
<1>2. t2.p = t.p /\ t2.n = n /\ t2.c = t.c /\ IsTable(t2)
  BY <1>1 DEF IsTable
<1>3. InHeap(h, t2)
  BY <1>2 DEF InHeap
<1>4. IsSeq(InUse(h, t2)) /\ Len(InUse(h, t2)) = n
  BY <1>2, <1>3, InUseAre
<1>5. \A i \in 1 .. n : InUse(h, t2)[i] = InUse(h, t)[i]
  BY <1>1, <1>2 DEF InUse
<1> QED  BY <1>2, <1>3, <1>4, <1>5 DEF Cut

LEMMA FinishRollbackSound ==
  ASSUME DefInv, FinishRollback
  PROVE  DefInv' /\ RollbackFinished
<1>1. PICK v : v = View(Running, Root, blocks, functions, modules)
  OBVIOUS
<1>2. /\ Seen(v, Len(vms), Root, Running, blocks, known) /\ Tables(blocks, Running, Root)
      /\ IsVm(Root) /\ IsVm(Running) /\ Running.kind = "rollback"
  BY <1>1, ViewIs DEF FinishRollback
<1>3. PICK s : s = Running.start
  OBVIOUS
<1>4. ViewOK(v) /\ Point(v, s) /\ Root.classes = Running.classes
  BY <1>2, <1>3, TopIs DEF Seen, Nested
<1>5. /\ v.classes = InUse(blocks, Root.classes) /\ v.functions = functions /\ v.modules = modules
      /\ v.mods = InUse(blocks, Root.mods)
      /\ Len(v.classes) = Root.classes.n /\ Len(v.mods) = Root.mods.n
  BY <1>1, <1>4, ViewIs
<1>6. /\ InHeap(blocks, Root.classes) /\ InHeap(blocks, Root.mods) /\ Apart(Root.classes, Root.mods)
      /\ IsSeq(blocks)
  BY <1>2, <1>4 DEF Tables
<1>7. /\ s.classes \in 0 .. Root.classes.n /\ s.functions \in 0 .. Len(functions)
      /\ s.mods \in 0 .. Root.mods.n
  BY <1>4, <1>5 DEF Point
<1>8. PICK old, new : old = blocks[Root.classes.p].slots
                      /\ new = [i \in DOMAIN old |-> IF i \in s.classes + 1 .. s.class_end
                                                     THEN Null ELSE old[i]]
  OBVIOUS
<1>9. PICK a, o, f2, m2, h2 : /\ a = RolledBack(s) /\ o = a.root /\ f2 = a.functions
                              /\ m2 = a.modules /\ h2 = a.blocks
  OBVIOUS
<1>10. /\ o = [Root EXCEPT !.classes.n = s.classes, !.mods.n = s.mods, !.module = s.module]
       /\ f2 = SubSeq(functions, 1, s.functions)
       /\ h2 = (IF Root.classes.p = 0 THEN blocks ELSE [blocks EXCEPT ![Root.classes.p].slots = new])
  BY <1>6, <1>8, <1>9 DEF RolledBack, Rolled
<1>11. ModuleRecords(m2) /\ ModulesLike(modules, m2)
  <2>1. PICK p, q, r : m2 = ReleaseEach(ReleaseEach(ReleaseEach(modules, p), q), r)
    BY <1>9 DEF RolledBack, Rolled
  <2>2. PICK x, y : x = ReleaseEach(modules, p) /\ y = ReleaseEach(x, q)
    OBVIOUS
  <2>3. ModulesLike(modules, x) /\ ModuleRecords(x)
    BY <2>2, RecordsAre, ReleaseEachLike
  <2>4. ModulesLike(x, y) /\ ModuleRecords(y)
    BY <2>2, <2>3, ReleaseEachLike
  <2>5. ModulesLike(y, m2) /\ ModuleRecords(m2)
    BY <2>1, <2>2, <2>4, ReleaseEachLike
  <2> QED  BY <2>3, <2>4, <2>5, LikeLike
<1>12. PICK x, m3 : /\ x = IF Len(vms) = 1 THEN [o EXCEPT !.kind = "idle"] ELSE o
                    /\ m3 = modules'
  OBVIOUS
<1>13. ModulesLike(modules, m3)
  <2>1. m3 = m2 \/ m3 = pmodule_release(m2, Running.module)
    BY <1>3, <1>9, <1>12 DEF FinishRollback
  <2> QED  BY <1>11, <2>1, RetainLike, LikeLike
<1>14. blocks' = h2 /\ known' = s.known /\ functions' = f2
  BY <1>3, <1>9 DEF FinishRollback
<1>15. IsSeq(vms') /\ Len(vms') = 1 /\ Root' = x /\ Running' = x
  <2>1. CASE Len(vms) = 1
    <3>1. vms' = <<x>>
      BY <1>3, <1>9, <1>12, <2>1, TopIs DEF FinishRollback
    <3> QED  BY <3>1, OneVm
  <2>2. CASE Len(vms) # 1
    <3>1. Len(vms) = 2
      BY <2>2, TopIs
    <3>2. vms' = Replaced(SubSeq(vms, 1, Top - 1), 1, x)
      BY <1>3, <1>9, <1>12, <2>2, TopIs DEF FinishRollback, Replaced
    <3> QED  BY <3>1, <3>2, Popped
  <2> QED  BY <2>1, <2>2
<1>16. PICK c, l : c = [Root.classes EXCEPT !.n = s.classes] /\ l = [Root.mods EXCEPT !.n = s.mods]
  OBVIOUS
<1>17. /\ IsVm(x) /\ x.classes = c /\ x.mods = l /\ x.module = s.module /\ x.start = Root.start
       /\ x.kind = IF Len(vms) = 1 THEN "idle" ELSE Root.kind
  BY <1>2, <1>10, <1>12, <1>16 DEF IsVm, Fields
<1>18. /\ IsSeq(h2) /\ InHeap(h2, c) /\ c.p = Root.classes.p
       /\ Cut(InUse(h2, c), s.classes, InUse(blocks, Root.classes))
       /\ InHeap(h2, Root.mods) /\ InUse(h2, Root.mods) = InUse(blocks, Root.mods)
  <2>1. Root.classes.p # 0 => IsSeq(new) /\ Len(new) = Len(old)
    <3>1. Root.classes.p # 0 => IsSeq(old) /\ DOMAIN old = 1 .. Len(old) /\ Len(old) \in Nat
      BY <1>6, <1>8, SeqIs DEF InHeap
    <3>2. DOMAIN new = DOMAIN old /\ new = [i \in DOMAIN old |-> new[i]]
      BY <1>8
    <3> QED  BY <3>1, <3>2, TupleIs
  <2>2. /\ IsSeq(h2) /\ InHeap(h2, c) /\ c.n = s.classes /\ c.p = Root.classes.p
        /\ \A i \in 1 .. s.classes : Root.classes.p # 0 /\ InUse(h2, c)[i] = new[i]
        /\ \A u : InHeap(blocks, u) /\ Apart(Root.classes, u) =>
                  InHeap(h2, u) /\ InUse(h2, u) = InUse(blocks, u)
    <3>1. PICK h, t, z, n : h = blocks /\ t = Root.classes /\ z = new /\ n = s.classes
      OBVIOUS
    <3>2. /\ IsSeq(h) /\ Fits(t, h, z) /\ n \in 0 .. t.n
          /\ h2 = WithSlots(h, t, z) /\ c = Counted(t, n)
      BY <1>6, <1>7, <1>8, <1>10, <1>16, <2>1, <3>1 DEF Fits, WithSlots, Counted
    <3>3. Written(h, t, z, n, WithSlots(h, t, z), Counted(t, n))
      BY ONLY <3>2, SlotsSet
    <3> QED  BY <3>1, <3>2, <3>3 DEF Written
  <2>3. IsSeq(InUse(h2, c)) /\ Len(InUse(h2, c)) = s.classes
    BY <2>2, InUseAre
  <2>4. ASSUME NEW i \in 1 .. s.classes
        PROVE  InUse(h2, c)[i] = InUse(blocks, Root.classes)[i]
    <3>1. Root.classes.p # 0 /\ InUse(h2, c)[i] = new[i]
      BY <2>2
    <3>2. i \in 1 .. Root.classes.n /\ i \in DOMAIN old /\ i \notin s.classes + 1 .. s.class_end
      <4>1. Root.classes.n <= Root.classes.c /\ Root.classes.n \in Nat /\ Root.classes.c \in Nat
        BY <1>6 DEF InHeap, IsTable
      <4>2. DOMAIN old = 1 .. Root.classes.c
        BY <1>6, <1>8, <3>1, SeqIs DEF InHeap
      <4>3. s.classes \in Nat /\ i \in Nat /\ i <= s.classes /\ s.classes <= Root.classes.n /\ 1 <= i
        BY <1>7, <4>1
      <4>4. ~(s.classes + 1 <= i)
        BY <4>3
      <4> QED  BY <4>1, <4>2, <4>3, <4>4
    <3>3. new[i] = old[i]
      BY <1>8, <3>2
    <3> QED  BY <1>8, <3>1, <3>2, <3>3 DEF InUse
  <2> QED  BY <1>6, <2>2, <2>3, <2>4 DEF Cut
<1>19. InHeap(h2, l) /\ l.p = Root.mods.p /\ Cut(InUse(h2, l), s.mods, v.mods)
  BY <1>5, <1>7, <1>16, <1>18, TableCut
<1>20. Cut(f2, s.functions, v.functions)
  BY <1>5, <1>7, <1>10, RecordsAre, PrefixCut
<1>21. PICK w : w = View(x, x, h2, f2, m3)
  OBVIOUS
<1>22. /\ DOMAIN w = {"classes", "functions", "modules", "mods"} /\ w.classes = InUse(h2, c)
       /\ w.functions = f2 /\ w.mods = InUse(h2, l) /\ w.modules = m3
  BY <1>17, <1>21 DEF View
<1>23. /\ ViewOK(w) /\ KnownAt(w, s.known, Len(w.classes), Len(w.functions), Len(w.mods))
       /\ Covered(w, s.module, Len(w.mods))
       /\ \A u : Point(v, u) /\ Later(u, s) => Point(w, u)
  <2>1. /\ Cut(w.classes, s.classes, v.classes) /\ Cut(w.functions, s.functions, v.functions)
        /\ Cut(w.mods, s.mods, v.mods) /\ ModulesLike(v.modules, w.modules)
    BY <1>5, <1>13, <1>18, <1>19, <1>20, <1>22
  <2> QED  BY ONLY <1>4, <1>22, <2>1, CutBack
<1>24. x.kind \in {"chunk", "rollback"} => Point(w, x.start)
  <2>1. CASE Len(vms) = 1
    BY <1>17, <2>1
  <2>2. CASE Len(vms) = 2
    <3>1. Point(v, Root.start) /\ Later(Root.start, s)
      BY <1>2, <1>3, <2>2 DEF Seen, Nested
    <3> QED  BY <1>17, <1>23, <3>1
  <2> QED  BY <2>1, <2>2, TopIs
<1>25. x.kind \in {"idle", "chunk", "rollback", "closed"}
  BY <1>2, <1>17, TopIs DEF Seen, Nested
<1>26. Seen(w, 1, x, x, h2, s.known)
  BY <1>17, <1>23, <1>24, <1>25 DEF Seen
<1>27. Tables(h2, x, x)
  BY <1>6, <1>17, <1>18, <1>19 DEF Tables, Apart
<1>28. Sound(1, x, x, h2, f2, m3, s.known)
  BY <1>17, <1>21, <1>26, <1>27 DEF Sound
<1>29. DefInv'
  BY <1>12, <1>14, <1>15, <1>28 DEF DefInv
<1>30. SeenNow' = w /\ SeenNow = v
  BY <1>1, <1>12, <1>14, <1>15, <1>21 DEF SeenNow
<1>31. BackAt(v, w, s)
  BY <1>5, <1>18, <1>19, <1>20, <1>22 DEF BackAt
<1>32. x.code = Root.code
  BY <1>2, <1>10, <1>12 DEF IsVm, Fields
<1>33. Entries(Root.classes) = v.classes /\ Entries(Root.mods) = v.mods
  BY <1>5, <1>6, EntriesAre
<1>34. m2 = Left(v, s) /\ a.live = live \ ToSet(Dropped(v, s))
  <2>1. m2 = ReleaseEach(ReleaseEach(ReleaseEach(modules,
                 ModulesOfClasses(SubSeq(Entries(Root.classes), s.classes + 1, s.class_end))),
                 ModulesOfFunctions(SubSeq(functions, s.functions + 1, Len(functions)))),
                 SubSeq(Entries(Root.mods), s.mods + 1, Root.mods.n))
    BY <1>9 DEF RolledBack, Rolled
  <2>2. a.live = live \ ToSet(SubSeq(Entries(Root.classes), s.classes + 1, s.class_end))
    BY <1>9 DEF RolledBack, Rolled
  <2> QED  BY <1>5, <1>33, <2>1, <2>2 DEF Left, Dropped, Gone, Unlisted
<1>35. live' = a.live
  BY <1>3, <1>9 DEF FinishRollback
<1>36. m3 = IF Len(vms) = 1 /\ Running.module \notin ToSet(v.mods) THEN pmodule_release(m2, Running.module)
            ELSE m2
  BY <1>3, <1>9, <1>12, <1>33, TopIs DEF FinishRollback
<1> QED
  BY <1>3, <1>15, <1>17, <1>22, <1>29, <1>30, <1>31, <1>32, <1>34, <1>35, <1>36 DEF RollbackFinished

-----------------------------------------------------------------------------
(* Classes nothing reaches are cleared.                                    *)

\* The table in h2 holds, in their order, the classes of t in h that are in S.
Kept(h, t, S, h2, t2) ==
  /\ IsSeq(h2) /\ InHeap(h2, t2) /\ t2.p = t.p
  /\ Compact(InUse(h, t), t.n, S, InUse(h2, t2))
  /\ \A u : InHeap(h, u) /\ Apart(t, u) => InHeap(h2, u) /\ InUse(h2, u) = InUse(h, u)

LEMMA ToSetIs == ASSUME NEW s, IsSeq(s) PROVE ToSet(s) = Items(s)
<1>1. DOMAIN s = 1 .. Len(s)
  BY SeqIs
<1> QED  BY <1>1 DEF ToSet, Items

LEMMA SameSequence ==
  ASSUME NEW s, NEW t, IsSeq(s), IsSeq(t), Len(s) = Len(t), \A i \in 1 .. Len(s) : s[i] = t[i]
  PROVE  s = t
<1>1. PICK S, T : s \in Seq(S) /\ t \in Seq(T)
  BY DEF IsSeq
<1> QED  BY <1>1

LEMMA ClearedIs ==
  ASSUME DefInv, Len(vms) = 1, NEW keep, NEW a, a = ClearUserClasses(Root, keep)
  PROVE  /\ Kept(blocks, Root.classes, keep, a.heap, a.root.classes)
         /\ IsVm(a.root) /\ a.root.mods = Root.mods /\ a.root.module = Root.module
         /\ a.root.once = Root.once /\ a.root.start = Root.start
         /\ ToSet(a.dropped) = Items(InUse(blocks, Root.classes)) \ keep
         /\ Compact(InUse(blocks, Root.classes), Root.classes.n,
                    Items(InUse(blocks, Root.classes)) \ keep, a.dropped)
<1>1. PICK v : v = View(Running, Root, blocks, functions, modules)
  OBVIOUS
<1>2. Tables(blocks, Root, Root) /\ IsVm(Root) /\ Running = Root
  BY <1>1, ViewIs, TopIs
<1>3. PICK s, t, old, k : /\ s = Entries(t) /\ t = Root.classes /\ old = blocks[t.p].slots
                          /\ k = Those(s, keep)
  OBVIOUS
<1>4. s = InUse(blocks, t) /\ IsSeq(s) /\ Len(s) = t.n /\ InHeap(blocks, t) /\ t.n \in Nat
  BY <1>2, <1>3, EntriesAre, InUseAre DEF Tables, InHeap, IsTable
<1>5. Compact(s, t.n, keep, k)
  BY <1>3, <1>4, ThoseAre
<1>6. IsSeq(k) /\ Len(k) \in 0 .. t.n /\ DOMAIN k = 1 .. Len(k)
  BY <1>5, SeqIs DEF Compact
<1>7. PICK z : z = [i \in DOMAIN old |-> IF i \in DOMAIN k THEN k[i] ELSE old[i]]
  OBVIOUS
<1>8. /\ a.root = [Root EXCEPT !.classes.n = Len(k)] /\ a.dropped = Those(s, ToSet(s) \ keep)
      /\ a.heap = WithSlots(blocks, t, z)
  BY <1>3, <1>7 DEF ClearUserClasses, WithSlots
<1>9. /\ IsVm(a.root) /\ a.root.classes = Counted(t, Len(k)) /\ a.root.mods = Root.mods
      /\ a.root.module = Root.module /\ a.root.once = Root.once /\ a.root.start = Root.start
  BY <1>2, <1>3, <1>8 DEF IsVm, Fields, Counted
<1>10. Kept(blocks, t, keep, a.heap, a.root.classes)
  <2>1. t.p # 0 => IsSeq(z) /\ Len(z) = Len(old) /\ DOMAIN old = 1 .. t.c
    <3>1. t.p # 0 => IsSeq(old) /\ DOMAIN old = 1 .. Len(old) /\ Len(old) \in Nat /\ Len(old) = t.c
      BY <1>3, <1>4, SeqIs DEF InHeap
    <3>2. DOMAIN z = DOMAIN old /\ z = [i \in DOMAIN old |-> z[i]]
      BY <1>7
    <3> QED  BY <3>1, <3>2, TupleIs
  <2>2. IsSeq(blocks) /\ Fits(t, blocks, z)
    BY <1>2, <1>3, <1>4, <2>1 DEF Tables, Fits
  <2>3. PICK n, h2, t2 : n = Len(k) /\ h2 = a.heap /\ t2 = a.root.classes
    OBVIOUS
  <2>4. n \in 0 .. t.n /\ h2 = WithSlots(blocks, t, z) /\ t2 = Counted(t, n)
    BY <1>6, <1>8, <1>9, <2>3
  <2>5. Written(blocks, t, z, n, WithSlots(blocks, t, z), Counted(t, n))
    BY ONLY <2>2, <2>4, SlotsSet
  <2>6. Written(blocks, t, z, n, h2, t2)
    BY <2>4, <2>5
  <2>7. InUse(h2, t2) = k
    <3>1. IsSeq(InUse(h2, t2)) /\ Len(InUse(h2, t2)) = n
      BY <2>6, InUseAre DEF Written
    <3>2. ASSUME NEW i \in 1 .. n PROVE InUse(h2, t2)[i] = k[i]
      <4>1. t.p # 0 /\ InUse(h2, t2)[i] = z[i]
        BY <2>6 DEF Written
      <4>2. i \in DOMAIN k
        BY <1>6, <2>3
      <4>3. i \in DOMAIN old
        <5>1. t.n <= t.c /\ t.c \in Nat /\ n <= t.n /\ n \in Nat
          BY <1>4, <2>4 DEF InHeap, IsTable
        <5> QED  BY <1>4, <2>1, <4>1, <5>1
      <4> QED  BY <1>7, <4>1, <4>2, <4>3
    <3> QED  BY <1>6, <2>3, <3>1, <3>2, SameSequence
  <2> QED  BY <1>4, <1>5, <2>3, <2>6, <2>7 DEF Kept, Written
<1>11. ToSet(a.dropped) = Items(s) \ keep /\ Compact(s, t.n, Items(s) \ keep, a.dropped)
  <2>1. PICK S, d : S = ToSet(s) \ keep /\ d = a.dropped
    OBVIOUS
  <2>2. Compact(s, Len(s), S, d)
    BY <1>4, <1>8, <2>1, ThoseAre
  <2>3. IsSeq(d) /\ Items(d) = Items(s) \cap S
    BY <2>2 DEF Compact, Items
  <2>4. ToSet(d) = Items(d) /\ ToSet(s) = Items(s)
    BY <1>4, <2>3, ToSetIs
  <2>5. S = Items(s) \ keep
    BY <2>1, <2>4
  <2>6. ToSet(d) = Items(s) \ keep
    BY <2>3, <2>4, <2>5
  <2> QED  BY <1>4, <2>1, <2>2, <2>5, <2>6
<1> QED  BY <1>3, <1>4, <1>9, <1>10, <1>11

NamesOf(S) == {NameOf(x) : x \in S}

LEMMA ViewCleared ==
  ASSUME NEW v, ViewOK(v), NEW K, KnownAt(v, K, Len(v.classes), Len(v.functions), Len(v.mods)),
         NEW S, NEW w, DOMAIN w = {"classes", "functions", "modules", "mods"},
         Compact(v.classes, Len(v.classes), S, w.classes),
         w.functions = v.functions, w.mods = v.mods, ModulesLike(v.modules, w.modules)
  PROVE  /\ ViewOK(w)
         /\ KnownAt(w, K \ NamesOf(Items(v.classes) \ S), Len(w.classes), Len(w.functions), Len(w.mods))
         /\ \A m : Covered(v, m, Len(v.mods)) => Covered(w, m, Len(w.mods))
<1>1. PICK n, k : n = Len(v.classes) /\ n \in Nat /\ k = w.classes
  BY SeqIs DEF ViewOK
<1>2. Len(v.functions) \in Nat /\ Len(v.mods) \in Nat /\ Len(v.modules) \in Nat
  BY SeqIs DEF ViewOK
<1>3. /\ IsSeq(k) /\ Len(k) \in 0 .. n /\ Items(k) = Items(v.classes) \cap S
      /\ (\A i, j \in 1 .. n : v.classes[i] = v.classes[j] => i = j) =>
           \A i, j \in 1 .. Len(k) : k[i] = k[j] => i = j
  BY <1>1 DEF Compact, Items
<1>4. /\ \A x \in Items(v.classes) : IsClass(x)
      /\ \A x, y \in Items(v.classes) : NameOf(x) = NameOf(y) => x = y
      /\ \A i, j \in 1 .. n : v.classes[i] = v.classes[j] => i = j
  BY <1>1 DEF ViewOK, Items
<1>5. \A i \in 1 .. Len(k) : k[i] \in Items(v.classes) \cap S
  BY <1>3 DEF Items
<1>6. ViewOK(w)
  <2>1. \A i \in 1 .. Len(k) : IsClass(k[i])
    BY <1>4, <1>5
  <2>2. \A i, j \in 1 .. Len(k) : NameOf(k[i]) = NameOf(k[j]) => i = j
    BY <1>3, <1>4, <1>5
  <2>3. IsSeq(w.modules) /\ Len(w.modules) = Len(v.modules)
        /\ \A m \in 1 .. Len(w.modules) : /\ w.modules[m].source \in Files \cup Sources \cup {"callback"}
                                          /\ DOMAIN w.modules[m] = {"source", "refs"}
    BY DEF ViewOK, ModulesLike
  <2> QED  BY <1>1, <1>3, <2>1, <2>2, <2>3 DEF ViewOK
<1>7. SameSources(v, w)
  BY <1>2 DEF ModulesLike, SameSources
<1>8. StaticsAt(w, Len(v.mods)) = StaticsAt(v, Len(v.mods))
  BY <1>2, <1>6, <1>7, StaticsAgree
<1>9. \A m : Covered(v, m, Len(v.mods)) => Covered(w, m, Len(w.mods))
  <2> SUFFICES ASSUME NEW m, Covered(v, m, Len(v.mods)) PROVE Covered(w, m, Len(w.mods))
    OBVIOUS
  <2>1. PICK q : q = Len(v.mods)
    OBVIOUS
  <2>2. /\ q \in 0 .. Len(v.mods) /\ q <= Len(w.mods) /\ Covered(v, m, q)
        /\ \A i \in 1 .. q : w.mods[i] = v.mods[i]
    BY <1>2, <2>1
  <2>3. Covered(w, m, q)
    BY ONLY <1>6, <1>7, <2>2, ViewOK(v), CoveredAgree
  <2> QED  BY <2>1, <2>3
<1>10. PICK D : D = NamesOf(Items(v.classes) \ S)
  OBVIOUS
<1>11. ClassesAt(v, n) = NamesOf(Items(v.classes)) /\ ClassesAt(w, Len(k)) = NamesOf(Items(k))
  BY <1>1 DEF ClassesAt, NamesOf, Items
<1>12. NamesOf(Items(v.classes) \cap S) = NamesOf(Items(v.classes)) \ D
  BY <1>4, <1>10 DEF NamesOf
<1>13. D \subseteq Names
  BY <1>4, <1>10 DEF NamesOf, IsClass, NameOf
<1>14. Names \cap Functions = {}
  BY ConstantsAreDefinitions DEF DefinitionsAssumption
<1>15. FunctionsAt(w, Len(v.functions), Len(v.mods)) = FunctionsAt(v, Len(v.functions), Len(v.mods))
  BY <1>8 DEF FunctionsAt
<1>16. (K \ D) \cap Names = ClassesAt(w, Len(k))
  <2>1. K \cap Names = ClassesAt(v, n)
    BY <1>1 DEF KnownAt
  <2>2. Items(k) = Items(v.classes) \cap S
    BY <1>3
  <2>3. ClassesAt(w, Len(k)) = ClassesAt(v, n) \ D
    BY <1>11, <1>12, <2>2, Zenon
  <2> QED  BY <2>1, <2>3
<1>17. (K \ D) \cap Functions = FunctionsAt(w, Len(v.functions), Len(v.mods))
  BY <1>13, <1>14, <1>15 DEF KnownAt
<1>18. KnownAt(w, K \ D, Len(w.classes), Len(w.functions), Len(w.mods))
  BY <1>1, <1>16, <1>17 DEF KnownAt
<1> QED  BY <1>6, <1>9, <1>10, <1>18

-----------------------------------------------------------------------------
(* Chunks.                                                                 *)

LEMMA FailSourceSound ==
  ASSUME DefInv, FailSource
  PROVE  DefInv' /\ ChunkFailed
<1>1. PICK v : v = View(Running, Root, blocks, functions, modules)
  OBVIOUS
<1>2. /\ Seen(v, Len(vms), Root, Running, blocks, known) /\ Tables(blocks, Running, Root)
      /\ IsVm(Root) /\ Running.kind = "chunk"
  BY <1>1, ViewIs DEF FailSource
<1>3. Len(vms) = 1 /\ Running = Root
  BY <1>2, TopIs DEF Seen, Nested
<1>4. PICK x : x = [Root EXCEPT !.kind = "rollback", !.start.class_end = Root.classes.n]
  OBVIOUS
<1>5. /\ vms' = Replaced(vms, Top, x) /\ blocks' = blocks /\ modules' = modules
      /\ known' = known /\ functions' = functions
  BY <1>3, <1>4, TopIs DEF FailSource, Replaced
<1>6. IsSeq(vms') /\ Len(vms') = 1 /\ Root' = x /\ Running' = x
  BY <1>3, <1>5, Touched
<1>7. /\ IsVm(x) /\ x.kind = "rollback" /\ x.classes = Root.classes /\ x.mods = Root.mods
      /\ x.module = Root.module
      /\ x.start.classes = Root.start.classes /\ x.start.functions = Root.start.functions
      /\ x.start.mods = Root.start.mods /\ x.start.known = Root.start.known
      /\ x.start.module = Root.start.module
  BY <1>2, <1>4 DEF IsVm, Fields, StartFields
<1>8. View(x, x, blocks, functions, modules) = v
  BY <1>1, <1>3, <1>7 DEF View
<1>9. Point(v, x.start)
  <2>1. Point(v, Root.start)
    BY <1>2, <1>3 DEF Seen
  <2> QED  BY <1>7, <2>1 DEF Point
<1>10. Seen(v, 1, x, x, blocks, known)
  BY <1>2, <1>3, <1>7, <1>9 DEF Seen
<1>11. Tables(blocks, x, x)
  BY <1>2, <1>3, <1>7 DEF Tables
<1>12. Sound(1, x, x, blocks, functions, modules, known)
  BY <1>7, <1>8, <1>10, <1>11 DEF Sound
<1>13. DefInv'
  BY <1>5, <1>6, <1>12 DEF DefInv
<1>14. SeenNow' = v /\ SeenNow = v
  BY <1>1, <1>5, <1>6, <1>8 DEF SeenNow
<1>15. x.code = Root.code /\ x.start.class_end = Len(v.classes)
  BY <1>1, <1>2, <1>3, <1>4, ViewIs DEF IsVm, Fields, StartFields
<1> QED  BY <1>2, <1>3, <1>6, <1>7, <1>13, <1>14, <1>15 DEF ChunkFailed

LEMMA FinishSourceSound ==
  ASSUME DefInv, FinishSource
  PROVE  DefInv' /\ ChunkFinished
<1>1. PICK v : v = View(Running, Root, blocks, functions, modules)
  OBVIOUS
<1>2. /\ Seen(v, Len(vms), Root, Running, blocks, known) /\ Tables(blocks, Running, Root)
      /\ IsVm(Root) /\ Running.kind = "chunk"
  BY <1>1, ViewIs DEF FinishSource
<1>3. Len(vms) = 1 /\ Running = Root
  BY <1>2, TopIs DEF Seen, Nested
<1>4. PICK keep :
        LET cleared == ClearUserClasses(Root, keep)
            left == ReleaseEach(modules, ModulesOfClasses(cleared.dropped))
        IN /\ vms' = <<[cleared.root EXCEPT !.kind = "idle",
                          !.module = IF Root.once THEN @ ELSE 0]>>
           /\ blocks' = cleared.heap
           /\ modules' = IF Root.module \in ToSet(Entries(Root.mods)) THEN left
                         ELSE pmodule_release(left, Root.module)
           /\ live' = live \ ToSet(cleared.dropped)
           /\ known' = known \ {NameOf(x) : x \in ToSet(cleared.dropped)}
  BY Zenon DEF FinishSource
<1>5. PICK a, x, h, L, D :
        /\ a = ClearUserClasses(Root, keep)
        /\ x = [a.root EXCEPT !.kind = "idle", !.module = IF Root.once THEN @ ELSE 0]
        /\ h = a.heap /\ L = modules' /\ D = NamesOf(ToSet(a.dropped))
  OBVIOUS
<1>6. vms' = <<x>> /\ blocks' = h /\ known' = known \ D /\ functions' = functions
  BY <1>4, <1>5 DEF NamesOf, FinishSource
<1>7. IsSeq(vms') /\ Len(vms') = 1 /\ Root' = x /\ Running' = x
  BY <1>6, OneVm
<1>8. /\ Kept(blocks, Root.classes, keep, h, a.root.classes)
      /\ IsVm(a.root) /\ a.root.mods = Root.mods /\ a.root.module = Root.module
      /\ ToSet(a.dropped) = Items(InUse(blocks, Root.classes)) \ keep
  BY <1>3, <1>5, ClearedIs
<1>9. /\ IsVm(x) /\ x.kind = "idle" /\ x.classes = a.root.classes /\ x.mods = Root.mods
      /\ x.module \in {0, Root.module}
  BY <1>5, <1>8 DEF IsVm, Fields
<1>10. ModulesLike(modules, L)
  <2>1. PICK left : left = ReleaseEach(modules, ModulesOfClasses(a.dropped))
    OBVIOUS
  <2>2. L = left \/ L = pmodule_release(left, Root.module)
    BY <1>4, <1>5, <2>1
  <2>3. ModulesLike(modules, left) /\ ModuleRecords(left)
    BY <2>1, RecordsAre, ReleaseEachLike
  <2> QED  BY <2>2, <2>3, RetainLike, LikeLike
<1>11. /\ IsSeq(h) /\ InHeap(h, x.classes) /\ x.classes.p = Root.classes.p
       /\ Compact(InUse(blocks, Root.classes), Root.classes.n, keep, InUse(h, x.classes))
       /\ InHeap(h, Root.mods) /\ InUse(h, Root.mods) = InUse(blocks, Root.mods)
  BY <1>2, <1>3, <1>8, <1>9 DEF Kept, Tables
<1>12. PICK w : w = View(x, x, h, functions, L)
  OBVIOUS
<1>13. /\ v.classes = InUse(blocks, Root.classes) /\ Len(v.classes) = Root.classes.n
       /\ v.functions = functions /\ v.mods = InUse(blocks, Root.mods) /\ v.modules = modules
  BY <1>1, <1>3, ViewIs
<1>14. /\ DOMAIN w = {"classes", "functions", "modules", "mods"} /\ w.functions = v.functions
       /\ Compact(v.classes, Len(v.classes), keep, w.classes)
       /\ w.mods = v.mods /\ ModulesLike(v.modules, w.modules)
  BY <1>9, <1>10, <1>11, <1>12, <1>13 DEF View
<1>15. ViewOK(v) /\ KnownAt(v, known, Len(v.classes), Len(v.functions), Len(v.mods))
  BY <1>2 DEF Seen
<1>16. /\ ViewOK(w)
       /\ KnownAt(w, known \ NamesOf(Items(v.classes) \ keep), Len(w.classes), Len(w.functions), Len(w.mods))
       /\ \A m : Covered(v, m, Len(v.mods)) => Covered(w, m, Len(w.mods))
  BY ONLY <1>14, <1>15, ViewCleared
<1>17. KnownAt(w, known \ D, Len(w.classes), Len(w.functions), Len(w.mods))
  BY <1>5, <1>8, <1>13, <1>16
<1>18. Covered(w, x.module, Len(w.mods))
  <2>1. Covered(w, Root.module, Len(w.mods))
    BY <1>2, <1>16 DEF Seen
  <2>2. Covered(w, 0, Len(w.mods))
    <3>1. Len(w.modules) \in Nat
      BY <1>16, SeqIs DEF ViewOK
    <3> QED  BY <3>1 DEF Covered
  <2> QED  BY <1>9, <2>1, <2>2
<1>19. Seen(w, 1, x, x, h, known \ D)
  BY <1>9, <1>16, <1>17, <1>18 DEF Seen
<1>20. Tables(h, x, x)
  BY <1>2, <1>3, <1>9, <1>11 DEF Tables, Apart
<1>21. Sound(1, x, x, h, functions, L, known \ D)
  BY <1>9, <1>12, <1>19, <1>20 DEF Sound
<1>22. DefInv'
  BY <1>5, <1>6, <1>7, <1>21 DEF DefInv
<1>23. SeenNow' = w /\ SeenNow = v
  BY <1>1, <1>5, <1>6, <1>7, <1>12 DEF SeenNow
<1>24. Cleared(v, w, keep, a.dropped)
  <2>1. Compact(InUse(blocks, Root.classes), Root.classes.n,
                Items(InUse(blocks, Root.classes)) \ keep, a.dropped)
    BY <1>3, <1>5, ClearedIs, Zenon
  <2>2. Compact(v.classes, Len(v.classes), Items(v.classes) \ keep, a.dropped)
    BY ONLY <1>13, <2>1
  <2>3. Compact(v.classes, Len(v.classes), keep, w.classes)
    BY <1>14
  <2> QED  BY ONLY <2>2, <2>3 DEF Cleared
<1>25. live' = live \ ToSet(a.dropped)
  BY <1>4, <1>5
<1>26. w.modules = IF Root.module \in ToSet(v.mods) THEN ReleaseEach(v.modules, ModulesOfClasses(a.dropped))
                   ELSE pmodule_release(ReleaseEach(v.modules, ModulesOfClasses(a.dropped)), Root.module)
  <2>1. Entries(Root.mods) = v.mods /\ w.modules = L
    BY <1>1, <1>12, ViewIs DEF View
  <2> QED  BY <1>4, <1>5, <1>13, <2>1
<1> QED
  BY <1>2, <1>3, <1>7, <1>9, <1>14, <1>22, <1>23, <1>24, <1>25, <1>26 DEF ChunkFinished

\* Nothing is declared.
LEMMA NothingSound ==
  ASSUME NEW x, IsVm(x), x.kind \in {"idle", "closed"}, x.classes = NoTable, x.mods = NoTable,
         x.module = 0, NEW h, IsSeq(h), NEW L, IsSeq(L),
         \A m \in 1 .. Len(L) : /\ L[m].source \in Files \cup Sources \cup {"callback"}
                               /\ DOMAIN L[m] = {"source", "refs"}
  PROVE  Sound(1, x, x, h, <<>>, L, {})
<1>3. InHeap(h, NoTable)
  BY DEF InHeap, IsTable, NoTable
<1>4. IsSeq(InUse(h, NoTable)) /\ Len(InUse(h, NoTable)) = 0
  BY <1>3, InUseAre DEF NoTable
<1>5. IsSeq(<<>>) /\ Len(<<>>) = 0
  <2>1. <<>> \in Seq({0}) /\ Len(<<>>) = 0
    OBVIOUS
  <2> QED  BY <2>1 DEF IsSeq
<1>6. PICK w : w = View(x, x, h, <<>>, L)
  OBVIOUS
<1>7. /\ DOMAIN w = {"classes", "functions", "modules", "mods"} /\ w.modules = L
      /\ IsSeq(w.classes) /\ Len(w.classes) = 0 /\ IsSeq(w.functions) /\ Len(w.functions) = 0
      /\ IsSeq(w.mods) /\ Len(w.mods) = 0
  BY <1>4, <1>5, <1>6 DEF View
<1>8. ViewOK(w)
  BY <1>7 DEF ViewOK
<1>9. KnownAt(w, {}, 0, 0, 0)
  BY DEF KnownAt, ClassesAt, FunctionsAt, StaticsAt, StaticsOf
<1>10. Covered(w, 0, 0)
  <2>1. Len(w.modules) \in Nat
    BY <1>8, SeqIs DEF ViewOK
  <2> QED  BY <2>1 DEF Covered
<1>11. Seen(w, 1, x, x, h, {})
  BY <1>7, <1>8, <1>9, <1>10 DEF Seen
<1>12. Tables(h, x, x)
  BY <1>3 DEF Tables, Apart, NoTable
<1> QED  BY <1>6, <1>11, <1>12 DEF Sound

LEMMA CloseSound ==
  ASSUME DefInv, pphp_close
  PROVE  DefInv' /\ Closed
<1>1. PICK v : v = View(Running, Root, blocks, functions, modules)
  OBVIOUS
<1>2. ViewOK(v) /\ v.modules = modules /\ IsSeq(blocks)
  BY <1>1, ViewIs DEF Seen, Tables
<1>3. PICK x : x = [pphp_open EXCEPT !.kind = "closed"]
  OBVIOUS
<1>4. /\ IsVm(x) /\ x.kind = "closed" /\ x.classes = NoTable /\ x.mods = NoTable /\ x.module = 0
  BY <1>3 DEF pphp_open, IsVm, Fields, StartFields, NoCheckpoint
<1>5. vms' = <<x>> /\ functions' = <<>> /\ known' = {}
  BY <1>3 DEF pphp_close
<1>6. IsSeq(blocks')
  <2>1. DOMAIN blocks = 1 .. Len(blocks) /\ Len(blocks) \in Nat
    BY <1>2, SeqIs
  <2>2. DOMAIN blocks' = 1 .. Len(blocks) /\ blocks' = [b \in 1 .. Len(blocks) |-> blocks'[b]]
    BY <2>1 DEF pphp_close
  <2> QED  BY <2>1, <2>2, TupleIs
<1>7. ModulesLike(modules, modules')
  <2>1. PICK p, q, r : modules' = ReleaseEach(ReleaseEach(ReleaseEach(modules, p), q), r)
    BY DEF pphp_close
  <2>2. PICK y, z : y = ReleaseEach(modules, p) /\ z = ReleaseEach(y, q)
    OBVIOUS
  <2>3. ModulesLike(modules, y) /\ ModuleRecords(y)
    BY <2>2, RecordsAre, ReleaseEachLike
  <2>4. ModulesLike(y, z) /\ ModuleRecords(z)
    BY <2>2, <2>3, ReleaseEachLike
  <2>5. ModulesLike(z, modules')
    BY <2>1, <2>2, <2>4, ReleaseEachLike
  <2> QED  BY <2>3, <2>4, <2>5, LikeLike
<1>8. /\ IsSeq(modules')
      /\ \A m \in 1 .. Len(modules') : /\ modules'[m].source \in Files \cup Sources \cup {"callback"}
                                       /\ DOMAIN modules'[m] = {"source", "refs"}
  BY <1>2, <1>7 DEF ModulesLike, ViewOK
<1>9. IsSeq(vms') /\ Len(vms') = 1 /\ Root' = x /\ Running' = x
  BY <1>5, OneVm
<1>10. Sound(1, x, x, blocks', <<>>, modules', {})
  <2>1. PICK h, L : h = blocks' /\ L = modules'
    OBVIOUS
  <2>2. Sound(1, x, x, h, <<>>, L, {})
    BY <1>4, <1>6, <1>8, <2>1, NothingSound
  <2> QED  BY <2>1, <2>2
<1>11. DefInv'
  BY <1>5, <1>9, <1>10 DEF DefInv
<1>12. Len(vms) = 1 /\ Root.kind = "idle" /\ Running = Root
  BY TopIs DEF pphp_close, Idle
<1>13. SeenNow = v /\ Entries(Root.classes) = v.classes /\ Entries(Root.mods) = v.mods
       /\ v.functions = functions
  BY <1>1, <1>12, ViewIs DEF SeenNow
<1>14. live' = live \ ToSet(v.classes)
  BY <1>13 DEF pphp_close
<1>15. modules' = ReleaseEach(ReleaseEach(ReleaseEach(v.modules, ModulesOfClasses(v.classes)),
                     ModulesOfFunctions(v.functions)), v.mods)
  BY <1>2, <1>13 DEF pphp_close
<1>16. PICK w : w = View(x, x, blocks', <<>>, modules')
  OBVIOUS
<1>17. SeenNow' = w
  BY <1>5, <1>9, <1>16 DEF SeenNow
<1>18. w.modules = modules' /\ Len(w.classes) = 0 /\ Len(w.functions) = 0 /\ Len(w.mods) = 0
  <2>1. PICK h : h = blocks'
    OBVIOUS
  <2>2. InHeap(h, NoTable)
    BY DEF InHeap, IsTable, NoTable
  <2>3. Len(InUse(h, NoTable)) = 0
    BY <2>2, InUseAre DEF NoTable
  <2>4. w.classes = InUse(h, NoTable) /\ w.mods = InUse(h, NoTable) /\ w.functions = <<>> /\ w.modules = modules'
    BY <1>4, <1>16, <2>1 DEF View
  <2> QED  BY <2>3, <2>4
<1> QED  BY <1>4, <1>9, <1>11, <1>12, <1>13, <1>14, <1>15, <1>17, <1>18 DEF Closed

-----------------------------------------------------------------------------
(* The embedder starts a chunk.                                            *)

\* The heap g, with block p as it is in the heap h.
Merged(g, h, p) == [b \in DOMAIN g |-> IF b = p THEN h[b] ELSE g[b]]

LEMMA MergedIs ==
  ASSUME NEW g, IsSeq(g), NEW h, NEW c, InHeap(h, c), c.p = 0 \/ c.p \in 1 .. Len(g),
         NEW l, InHeap(g, l), Apart(c, l)
  PROVE  /\ IsSeq(Merged(g, h, c.p))
         /\ InHeap(Merged(g, h, c.p), c) /\ InUse(Merged(g, h, c.p), c) = InUse(h, c)
         /\ InHeap(Merged(g, h, c.p), l) /\ InUse(Merged(g, h, c.p), l) = InUse(g, l)
<1>1. PICK k : k = Merged(g, h, c.p)
  OBVIOUS
<1>2. DOMAIN g = 1 .. Len(g) /\ Len(g) \in Nat
  BY SeqIs
<1>3. DOMAIN k = 1 .. Len(g) /\ k = [b \in 1 .. Len(g) |-> k[b]]
  BY <1>1, <1>2 DEF Merged
<1>4. IsSeq(k) /\ Len(k) = Len(g)
  BY <1>2, <1>3, TupleIs
<1>5. \A b \in 1 .. Len(g) : k[b] = IF b = c.p THEN h[b] ELSE g[b]
  BY <1>1, <1>2 DEF Merged
<1>6. InHeap(k, c) /\ InUse(k, c) = InUse(h, c)
  <2>1. CASE c.p = 0
    <3>1. c.n = 0
      BY <2>1 DEF InHeap, IsTable
    <3> QED  BY <2>1, <3>1 DEF InHeap, InUse
  <2>2. CASE c.p # 0
    <3>1. c.p \in 1 .. Len(k) /\ k[c.p] = h[c.p]
      BY <1>4, <1>5, <2>2
    <3> QED  BY <2>2, <3>1 DEF InHeap, InUse
  <2> QED  BY <2>1, <2>2
<1>7. InHeap(k, l) /\ InUse(k, l) = InUse(g, l)
  <2>1. CASE l.p = 0
    <3>1. l.n = 0
      BY <2>1 DEF InHeap, IsTable
    <3> QED  BY <2>1, <3>1 DEF InHeap, InUse
  <2>2. CASE l.p # 0
    <3>1. l.p \in 1 .. Len(g) /\ l.p \in 1 .. Len(k) /\ l.p # c.p
      BY <1>4, <2>2 DEF InHeap, Apart
    <3>2. k[l.p] = g[l.p]
      BY <1>5, <3>1
    <3> QED  BY <2>2, <3>1, <3>2 DEF InHeap, InUse
  <2> QED  BY <2>1, <2>2
<1> QED  BY <1>1, <1>4, <1>6, <1>7

LEMMA ExecChunkSound ==
  ASSUME DefInv, NEW source \in Sources, NEW repl \in BOOLEAN, ExecChunk(source, repl)
  PROVE  DefInv' /\ ChunkStarted(source)
<1>1. PICK v : v = View(Running, Root, blocks, functions, modules)
  OBVIOUS
<1>2. Len(vms) = 1 /\ Running = Root /\ Root.kind = "idle"
  BY TopIs DEF ExecChunk, Idle
<1>3. /\ Seen(v, 1, Root, Root, blocks, known) /\ Tables(blocks, Root, Root) /\ IsVm(Root)
  BY <1>1, <1>2, ViewIs
<1>4. PICK keep :
        LET cleared == ClearUserClasses(Root, keep)
            m == Len(modules) + 1
            grown == Grow(Root.mods, m, FirstModules)
            root == [cleared.root EXCEPT !.start = [checkpoint_definitions(cleared.root) EXCEPT
                                           !.known = known \ {NameOf(x) : x \in ToSet(cleared.dropped)}]]
        IN /\ vms' = <<[root EXCEPT !.kind = "chunk", !.module = m, !.code = m, !.once = repl,
                          !.mods = IF Retained(source, repl) THEN grown.table ELSE @]>>
           /\ blocks' = IF ~Retained(source, repl) THEN cleared.heap
                        ELSE [b \in DOMAIN grown.heap |->
                                IF b = Root.classes.p THEN cleared.heap[b] ELSE grown.heap[b]]
           /\ modules' = Append(ReleaseEach(modules, ModulesOfClasses(cleared.dropped)),
                                [source |-> source, refs |-> 1])
           /\ live' = live \ ToSet(cleared.dropped)
           /\ known' = root.start.known \cup Defines[source]
  BY Zenon DEF ExecChunk
<1>5. PICK a, D, m, g, hg, s, L : /\ a = ClearUserClasses(Root, keep) /\ D = NamesOf(ToSet(a.dropped))
                                  /\ m = Len(modules) + 1 /\ g = Grow(Root.mods, m, FirstModules).table
                                  /\ hg = Grow(Root.mods, m, FirstModules).heap
                                  /\ s = [checkpoint_definitions(a.root) EXCEPT !.known = known \ D]
                                  /\ L = ReleaseEach(modules, ModulesOfClasses(a.dropped))
  OBVIOUS
<1>6. PICK o, x, h, M : /\ o = [a.root EXCEPT !.start = s]
                        /\ x = [o EXCEPT !.kind = "chunk", !.module = m, !.code = m, !.once = repl,
                                         !.mods = IF Retained(source, repl) THEN g ELSE @]
                        /\ h = (IF Retained(source, repl) THEN Merged(hg, a.heap, Root.classes.p)
                                ELSE a.heap)
                        /\ M = Append(L, [source |-> source, refs |-> 1])
  OBVIOUS
<1>7. /\ s.classes = a.root.classes.n /\ s.functions = Len(functions) /\ s.mods = a.root.mods.n
      /\ s.known = known \ D /\ s.module = a.root.module /\ DOMAIN s = StartFields
  BY <1>5 DEF checkpoint_definitions, StartFields
<1>8. /\ Kept(blocks, Root.classes, keep, a.heap, a.root.classes)
      /\ IsVm(a.root) /\ a.root.mods = Root.mods /\ a.root.module = Root.module
      /\ ToSet(a.dropped) = Items(InUse(blocks, Root.classes)) \ keep
  BY <1>2, <1>5, ClearedIs
<1>9. /\ IsVm(o) /\ o.mods = Root.mods /\ o.classes = a.root.classes /\ o.start = s
  BY <1>6, <1>7, <1>8 DEF IsVm, Fields
<1>10. /\ IsVm(x) /\ x.kind = "chunk" /\ x.classes = a.root.classes /\ x.start = s /\ x.module = m
       /\ x.mods = IF Retained(source, repl) THEN g ELSE Root.mods
  BY <1>6, <1>9 DEF IsVm, Fields
<1>11. vms' = <<x>> /\ blocks' = h /\ modules' = M
       /\ known' = (known \ D) \cup Defines[source] /\ functions' = functions
  <2>1. D = {NameOf(y) : y \in ToSet(a.dropped)}
    BY <1>5 DEF NamesOf
  <2>2. o.start.known = known \ D
    BY <1>7, <1>9
  <2>3. vms' = <<x>>
    BY <1>4, <1>5, <1>6, <2>1
  <2>4. blocks' = h
    BY <1>4, <1>5, <1>6 DEF Merged
  <2>5. modules' = M
    BY <1>4, <1>5, <1>6
  <2>6. known' = (known \ D) \cup Defines[source]
    BY <1>4, <1>5, <1>6, <2>1, <2>2
  <2> QED  BY <2>3, <2>4, <2>5, <2>6 DEF ExecChunk
<1>12. IsSeq(vms') /\ Len(vms') = 1 /\ Root' = x /\ Running' = x
  BY <1>11, OneVm
<1>13. PICK c : c = a.root.classes
  OBVIOUS
<1>14. /\ IsSeq(a.heap) /\ InHeap(a.heap, c) /\ c.p = Root.classes.p
       /\ Compact(InUse(blocks, Root.classes), Root.classes.n, keep, InUse(a.heap, c))
       /\ InHeap(a.heap, Root.mods) /\ InUse(a.heap, Root.mods) = InUse(blocks, Root.mods)
  BY <1>3, <1>8, <1>13 DEF Kept, Tables
<1>15. /\ v.classes = InUse(blocks, Root.classes) /\ Len(v.classes) = Root.classes.n
       /\ v.functions = functions /\ v.mods = InUse(blocks, Root.mods) /\ v.modules = modules
       /\ Len(v.mods) = Root.mods.n
  BY <1>1, <1>2, ViewIs
<1>16. PICK u : u = [classes |-> InUse(a.heap, c), functions |-> functions, modules |-> L, mods |-> v.mods]
  OBVIOUS
<1>17. /\ DOMAIN u = {"classes", "functions", "modules", "mods"} /\ u.functions = v.functions
       /\ Compact(v.classes, Len(v.classes), keep, u.classes)
       /\ u.mods = v.mods /\ u.modules = L /\ u.classes = InUse(a.heap, c)
       /\ ModulesLike(v.modules, u.modules) /\ Len(L) = Len(modules)
  <2>1. ModulesLike(modules, L)
    BY <1>5, RecordsAre, ReleaseEachLike
  <2> QED  BY <1>14, <1>15, <1>16, <2>1 DEF ModulesLike
<1>18. ViewOK(v) /\ KnownAt(v, known, Len(v.classes), Len(v.functions), Len(v.mods))
  BY <1>3 DEF Seen
<1>19. /\ ViewOK(u)
       /\ KnownAt(u, known \ NamesOf(Items(v.classes) \ keep), Len(u.classes), Len(u.functions), Len(u.mods))
       /\ \A i : Covered(v, i, Len(v.mods)) => Covered(u, i, Len(u.mods))
  BY ONLY <1>17, <1>18, ViewCleared
<1>20. KnownAt(u, known \ D, Len(u.classes), Len(u.functions), Len(u.mods))
  BY <1>5, <1>8, <1>15, <1>19
<1>21. Point(u, s)
  <2>1. Covered(u, Root.module, Len(u.mods))
    BY <1>3, <1>19 DEF Seen
  <2>2. Len(u.classes) = s.classes /\ Len(u.functions) = s.functions /\ Len(u.mods) = s.mods
    BY <1>7, <1>8, <1>13, <1>14, <1>15, <1>17, InUseAre
  <2>3. Len(u.classes) \in Nat /\ Len(u.functions) \in Nat /\ Len(u.mods) \in Nat
    BY <1>19, SeqIs DEF ViewOK
  <2> QED  BY <1>7, <1>8, <1>20, <2>1, <2>2, <2>3 DEF Point
<1>22. FirstModules \in Nat \ {0} /\ Defines[source] \subseteq Functions /\ "callback" # source
  BY ConstantsAreDefinitions DEF DefinitionsAssumption
<1>23. PICK k : k = Root.mods.n
  OBVIOUS
<1>24. /\ IsSeq(hg) /\ InHeap(hg, g) /\ g.n = k + 1
       /\ \A i \in 1 .. k : InUse(hg, g)[i] = InUse(blocks, Root.mods)[i]
       /\ InUse(hg, g)[k + 1] = m
       /\ \A t : InHeap(blocks, t) /\ Apart(Root.mods, t) =>
                 InHeap(hg, t) /\ Apart(g, t) /\ InUse(hg, t) = InUse(blocks, t)
  BY <1>3, <1>5, <1>22, <1>23, GrowIs DEF Tables
<1>25. /\ IsSeq(h) /\ InHeap(h, c) /\ InUse(h, c) = u.classes /\ InHeap(h, x.mods) /\ Apart(c, x.mods)
       /\ InUse(h, x.mods) = IF Retained(source, repl) THEN InUse(hg, g) ELSE v.mods
  <2>1. CASE Retained(source, repl)
    <3>1. InHeap(hg, Root.classes) /\ Apart(c, g)
      BY <1>3, <1>14, <1>24 DEF Tables, Apart
    <3>2. c.p = 0 \/ c.p \in 1 .. Len(hg)
      BY <1>14, <3>1 DEF InHeap
    <3>3. h = Merged(hg, a.heap, c.p) /\ x.mods = g
      BY <1>6, <1>10, <1>14, <2>1
    <3>4. PICK hc : hc = a.heap
      OBVIOUS
    <3>5. IsSeq(hg) /\ InHeap(hc, c) /\ InHeap(hg, g)
      BY <1>14, <1>24, <3>4
    <3>6. /\ IsSeq(Merged(hg, hc, c.p))
          /\ InHeap(Merged(hg, hc, c.p), c) /\ InUse(Merged(hg, hc, c.p), c) = InUse(hc, c)
          /\ InHeap(Merged(hg, hc, c.p), g) /\ InUse(Merged(hg, hc, c.p), g) = InUse(hg, g)
      BY ONLY <3>1, <3>2, <3>5, MergedIs
    <3> QED  BY <1>17, <2>1, <3>1, <3>3, <3>4, <3>6
  <2>2. CASE ~Retained(source, repl)
    BY <1>3, <1>6, <1>10, <1>14, <1>15, <1>17, <2>2 DEF Tables, Apart
  <2> QED  BY <2>1, <2>2
<1>26. PICK w : w = View(x, x, h, functions, M)
  OBVIOUS
<1>27. /\ DOMAIN w = {"classes", "functions", "modules", "mods"} /\ w.functions = u.functions
       /\ w.classes = u.classes /\ w.modules = M /\ w.mods = InUse(h, x.mods)
  BY <1>10, <1>13, <1>15, <1>17, <1>25, <1>26 DEF View
<1>28. /\ ModulesMore(u.modules, w.modules) /\ Len(w.modules) = Len(u.modules) + 1
       /\ w.modules[Len(u.modules) + 1].source = source
  <2>1. M = Append(u.modules, [source |-> source, refs |-> 1]) /\ w.modules = M
    BY <1>6, <1>17, <1>27
  <2>2. ViewOK(u) /\ source \in Files \cup Sources \cup {"callback"}
    BY <1>19
  <2>3. /\ ModulesMore(u.modules, M) /\ Len(M) = Len(u.modules) + 1
        /\ M[Len(u.modules) + 1].source = source
    BY ONLY <2>1, <2>2, AppendMore
  <2> QED  BY <2>1, <2>3
<1>29. m = Len(u.modules) + 1 /\ Len(u.modules) \in Nat
  BY <1>5, <1>17, <1>19, SeqIs DEF ViewOK
<1>30. /\ ViewOK(w) /\ Extended(u, w)
       /\ KnownAt(w, (known \ D) \cup Defines[source], Len(w.classes), Len(w.functions), Len(w.mods))
       /\ Covered(w, m, Len(w.mods))
  <2>1. CASE Retained(source, repl)
    <3>1. w.mods = InUse(hg, g) /\ IsSeq(w.mods) /\ Len(w.mods) = k + 1 /\ Len(u.mods) = k
      BY <1>15, <1>17, <1>23, <1>24, <1>25, <1>27, <2>1, InUseAre
    <3>2. /\ IsSeq(w.mods) /\ Len(w.mods) = Len(u.mods) + 1
          /\ \A i \in 1 .. Len(u.mods) : w.mods[i] = u.mods[i]
          /\ w.mods[Len(u.mods) + 1] = Len(u.modules) + 1
      BY <1>15, <1>17, <1>24, <1>29, <3>1
    <3>3. PICK K : K = known \ D
      OBVIOUS
    <3>4. source \in Files \cup Sources /\ KnownAt(u, K, Len(u.classes), Len(u.functions), Len(u.mods))
      BY <1>20, <3>3
    <3>5. /\ ViewOK(w) /\ Extended(u, w)
          /\ KnownAt(w, K \cup Defines[source], Len(w.classes), Len(w.functions), Len(w.mods))
          /\ Covered(w, Len(u.modules) + 1, Len(w.mods))
      BY ONLY <1>19, <1>27, <1>28, <3>2, <3>4, ModuleAdded
    <3> QED  BY <1>29, <3>3, <3>5
  <2>2. CASE ~Retained(source, repl)
    <3>1. w.mods = u.mods /\ Defines[source] = {}
      BY <1>17, <1>25, <1>27, <2>2 DEF Retained
    <3>2. /\ ViewOK(w) /\ Extended(u, w)
          /\ KnownAt(w, known \ D, Len(w.classes), Len(w.functions), Len(w.mods))
      BY <1>19, <1>20, <1>27, <1>28, <3>1, ViewSame
    <3>3. Stat(w.modules, m) = {} /\ m \in 0 .. Len(w.modules)
      BY <1>22, <1>28, <1>29, <3>1 DEF Stat
    <3> QED  BY <3>1, <3>2, <3>3 DEF Covered
  <2> QED  BY <2>1, <2>2
<1>31. Point(w, s)
  BY <1>19, <1>21, <1>30, ExtendedKeeps
<1>32. Seen(w, 1, x, x, h, (known \ D) \cup Defines[source])
  BY <1>10, <1>30, <1>31 DEF Seen
<1>33. Tables(h, x, x)
  BY <1>10, <1>13, <1>25 DEF Tables
<1>34. Sound(1, x, x, h, functions, M, (known \ D) \cup Defines[source])
  BY <1>10, <1>26, <1>32, <1>33 DEF Sound
<1>35. DefInv'
  BY <1>11, <1>12, <1>34 DEF DefInv
<1>36. SeenNow' = w /\ SeenNow = v
  BY <1>1, <1>11, <1>12, <1>26 DEF SeenNow
<1>37. Cleared(v, w, keep, a.dropped)
  <2>1. Compact(InUse(blocks, Root.classes), Root.classes.n,
                Items(InUse(blocks, Root.classes)) \ keep, a.dropped)
    BY <1>2, <1>5, ClearedIs, Zenon
  <2>2. Compact(v.classes, Len(v.classes), Items(v.classes) \ keep, a.dropped)
    BY ONLY <1>15, <2>1
  <2>3. Compact(v.classes, Len(v.classes), keep, w.classes)
    BY <1>17, <1>27
  <2> QED  BY ONLY <2>2, <2>3 DEF Cleared
<1>38. live' = live \ ToSet(a.dropped)
  BY <1>4, <1>5
<1>39. w.modules = Append(ReleaseEach(v.modules, ModulesOfClasses(a.dropped)), [source |-> source, refs |-> 1])
  BY <1>5, <1>6, <1>15, <1>27
<1>40. w.mods = v.mods \/ Longer(v.mods, w.mods, m)
  <2>1. CASE Retained(source, repl)
    <3>1. w.mods = InUse(hg, g) /\ IsSeq(w.mods) /\ Len(w.mods) = k + 1
      BY <1>24, <1>25, <1>27, <2>1, InUseAre
    <3> QED  BY <1>15, <1>23, <1>24, <3>1 DEF Longer
  <2>2. CASE ~Retained(source, repl)
    BY <1>25, <1>27, <2>2
  <2> QED  BY <2>1, <2>2
<1>41. x.code = m
  BY <1>6, <1>9 DEF IsVm, Fields
<1> QED
  BY <1>2, <1>5, <1>10, <1>12, <1>17, <1>27, <1>35, <1>36, <1>37, <1>38, <1>39, <1>40, <1>41
  DEF ChunkStarted

-----------------------------------------------------------------------------
(* Every step.                                                             *)

LEMMA InitSound ==
  ASSUME Init
  PROVE  DefInv
<1>1. vms = <<pphp_open>> /\ blocks = <<>> /\ modules = <<>> /\ functions = <<>> /\ known = {}
  BY DEF Init
<1>2. IsSeq(<<>>) /\ Len(<<>>) = 0
  <2>1. <<>> \in Seq({0}) /\ Len(<<>>) = 0
    OBVIOUS
  <2> QED  BY <2>1 DEF IsSeq
<1>3. IsSeq(vms) /\ Len(vms) = 1 /\ Root = pphp_open /\ Running = pphp_open
  BY <1>1, OneIs DEF Root, Running, Top
<1>4. /\ IsVm(pphp_open) /\ pphp_open.kind = "idle" /\ pphp_open.classes = NoTable
      /\ pphp_open.mods = NoTable /\ pphp_open.module = 0
  BY DEF pphp_open, IsVm, Fields, StartFields, NoCheckpoint
<1>5. Sound(1, pphp_open, pphp_open, <<>>, <<>>, <<>>, {})
  <2>1. PICK x, e : x = pphp_open /\ e = <<>>
    OBVIOUS
  <2>2. IsSeq(e) /\ \A m \in 1 .. Len(e) : FALSE
    BY <1>2, <2>1
  <2>3. Sound(1, x, x, e, <<>>, e, {})
    BY <1>4, <2>1, <2>2, NothingSound
  <2> QED  BY <2>1, <2>3
<1> QED  BY <1>1, <1>3, <1>5 DEF DefInv

LEMMA StepSound ==
  ASSUME DefInv, MaxDepth <= 2, [Next]_vars
  PROVE  DefInv'
<1>1. ASSUME NEW kind, NEW vm, StartInvoke(vm, kind) PROVE Len(vms) = 1 /\ Running = Root
  <2>1. MaxDepth \in Nat /\ Len(vms) < MaxDepth
    BY <1>1, ConstantsAreDefinitions DEF DefinitionsAssumption, StartInvoke
  <2> QED  BY <2>1, TopIs
<1>2. CASE \E name \in Names : DefineClass(name)
  BY <1>2, DefineClassSound
<1>3. CASE \E f \in Functions : DefineFunction(f)
  BY <1>3, DefineFunctionSound
<1>4. CASE Invoke
  <2>1. PICK kind : kind = "invoke"
    OBVIOUS
  <2>2. StartInvoke(Running, kind) /\ Executing
    BY <1>4, <2>1 DEF Invoke
  <2>3. Len(vms) = 1 /\ Running = Root
    BY <1>1, <2>2
  <2>4. Root.kind \in {"chunk", "rollback"}
    <3>1. PICK v : Seen(v, Len(vms), Root, Running, blocks, known)
      BY ViewIs
    <3> QED  BY <2>2, <2>3, <3>1 DEF Seen, Executing
  <2>5. StartInvoke(Root, kind)
    BY <2>2, <2>3
  <2> QED  BY <2>3, <2>4, <2>5, StartInvokeSound
<1>5. CASE RunDestructor
  <2>1. PICK kind : kind = "destructor"
    OBVIOUS
  <2>2. StartInvoke(Root, kind) /\ Root.kind \in {"chunk", "rollback"}
    BY <1>5, <2>1 DEF RunDestructor
  <2>3. Len(vms) = 1
    BY <1>1, <2>2
  <2> QED  BY <2>2, <2>3, StartInvokeSound
<1>6. CASE FinishInvoke
  BY <1>6, FinishInvokeSound
<1>7. CASE \E file \in Files, once \in BOOLEAN : Include(file, once)
  BY <1>7, IncludeSound
<1>8. CASE FinishInclude
  BY <1>8, FinishIncludeSound
<1>9. CASE FailInclude
  BY <1>9, FailIncludeSound
<1>10. CASE FinishRollback
  BY <1>10, FinishRollbackSound
<1>11. CASE \E source \in Sources, repl \in BOOLEAN : ExecSource(source, repl)
  BY <1>11, ExecChunkSound DEF ExecSource
<1>12. CASE \E source \in Sources : ExecPbc(source)
  BY <1>12, ExecChunkSound DEF ExecPbc
<1>13. CASE FinishSource
  BY <1>13, FinishSourceSound
<1>14. CASE FailSource
  BY <1>14, FailSourceSound
<1>15. CASE pphp_close
  BY <1>15, CloseSound
<1>16. CASE UNCHANGED vars
  <2>1. vms' = vms /\ blocks' = blocks /\ functions' = functions /\ modules' = modules /\ known' = known
    BY <1>16 DEF vars
  <2> QED  BY <2>1 DEF DefInv, Root, Running, Top
<1> QED
  BY <1>2, <1>3, <1>4, <1>5, <1>6, <1>7, <1>8, <1>9, <1>10, <1>11, <1>12, <1>13, <1>14, <1>15,
     <1>16 DEF Next

\* While at most one VM is nested in another - an include, a callback or a
\* destructor - what was declared and not rolled back is found by whatever
\* code runs, in tables that are alive, and nothing else is found: for any
\* classes, functions, files and chunks, any capacities, and any number of
\* VMs one after the other (pphp_find_class, pphp_find_function,
\* rollback_definitions).  A VM between two others may be left with a table
\* that has moved (src/vm.c:3450), so deeper stacks are not covered.
THEOREM DeclarationsAreFound == MaxDepth <= 2 => (Spec => []DefinitionsFound)
<1> SUFFICES ASSUME MaxDepth <= 2 PROVE Spec => []DefinitionsFound
  OBVIOUS
<1>1. Init => DefInv
  BY InitSound
<1>2. DefInv /\ [Next]_vars => DefInv'
  BY StepSound
<1>3. DefInv => DefinitionsFound
  <2> SUFFICES ASSUME DefInv PROVE DefinitionsFound
    OBVIOUS
  <2>1. CASE InCode
    BY <2>1, TablesFound, FunctionsFound DEF DefinitionsFound
  <2>2. CASE ~InCode
    BY <2>2 DEF DefinitionsFound, RunningTablesLive, DeclaredClassesFound, DefinedFunctionsFound
  <2> QED  BY <2>1, <2>2
<1> QED  BY <1>1, <1>2, <1>3, PTL DEF Spec

-----------------------------------------------------------------------------
(* Counting the owners of a module.                                        *)

Places(s, m) == {i \in DOMAIN s : s[i] = m}
Times(s, m) == Cardinality(Places(s, m))
One(b) == IF b THEN 1 ELSE 0

ClassesOf(L, m) == {x \in L : ModuleOf(x) = m}

LEMMA DisjointCount ==
  ASSUME NEW A, IsFiniteSet(A), NEW C, IsFiniteSet(C), A \cap C = {}
  PROVE  Cardinality(A \cup C) = Cardinality(A) + Cardinality(C)
<1>1. Cardinality(A \cup C) = Cardinality(A) + Cardinality(C) - Cardinality(A \cap C)
  BY FS_Union
<1>2. Cardinality(A \cap C) = 0
  BY FS_EmptySet
<1>3. Cardinality(A) \in Nat /\ Cardinality(C) \in Nat
  BY FS_CardinalityType
<1>4. PICK a, c, b, d : a = Cardinality(A) /\ c = Cardinality(C) /\ b = Cardinality(A \cap C)
                       /\ d = Cardinality(A \cup C)
  OBVIOUS
<1>5. a \in Nat /\ c \in Nat /\ b = 0 /\ d = a + c - b
  BY <1>1, <1>2, <1>3, <1>4
<1>6. d = a + c
  BY ONLY <1>5
<1> QED  BY <1>4, <1>6

LEMMA TimesType ==
  ASSUME NEW s, IsSeq(s), NEW m
  PROVE  /\ IsFiniteSet(Places(s, m)) /\ Times(s, m) \in Nat
         /\ (m \in Items(s) => Times(s, m) > 0) /\ (m \notin Items(s) => Times(s, m) = 0)
<1>1. DOMAIN s = 1 .. Len(s) /\ Len(s) \in Nat
  BY SeqIs
<1>2. IsFiniteSet(1 .. Len(s)) /\ Places(s, m) \in SUBSET (1 .. Len(s))
  BY <1>1, FS_Interval DEF Places
<1>3. IsFiniteSet(Places(s, m))
  BY <1>2, FS_Subset
<1>4. Times(s, m) \in Nat /\ (Times(s, m) = 0 <=> Places(s, m) = {})
  BY <1>3, FS_CardinalityType, FS_EmptySet DEF Times
<1>5. m \in Items(s) <=> Places(s, m) # {}
  BY <1>1 DEF Items, Places
<1> QED  BY <1>3, <1>4, <1>5

LEMMA TimesMore ==
  ASSUME NEW s, IsSeq(s), NEW t, IsSeq(t), Len(t) = Len(s) + 1, \A i \in 1 .. Len(s) : t[i] = s[i], NEW m
  PROVE  Times(t, m) = Times(s, m) + One(t[Len(s) + 1] = m)
<1>1. PICK n \in Nat : n = Len(s)
  BY SeqIs
<1>2. DOMAIN s = 1 .. n /\ DOMAIN t = 1 .. n + 1
  BY <1>1, SeqIs
<1>3. \A i : i \in 1 .. n + 1 <=> i \in 1 .. n \/ i = n + 1
  OBVIOUS
<1>4. IsFiniteSet(Places(s, m)) /\ Times(s, m) \in Nat
  BY TimesType
<1>5. CASE t[n + 1] = m
  <2>1. Places(t, m) = Places(s, m) \cup {n + 1} /\ n + 1 \notin Places(s, m)
    BY <1>1, <1>2, <1>3, <1>5 DEF Places
  <2>2. Cardinality(Places(t, m)) = Cardinality(Places(s, m)) + 1
    BY ONLY <1>4, <2>1, FS_AddElement
  <2>3. One(t[Len(s) + 1] = m) = 1
    BY <1>1, <1>5 DEF One
  <2> QED  BY ONLY <2>2, <2>3 DEF Times
<1>6. CASE t[n + 1] # m
  <2>1. Places(t, m) = Places(s, m)
    BY <1>1, <1>2, <1>3, <1>6 DEF Places
  <2>2. One(t[Len(s) + 1] = m) = 0
    BY <1>1, <1>6 DEF One
  <2> QED  BY ONLY <1>4, <2>1, <2>2 DEF Times
<1> QED  BY <1>5, <1>6

\* The elements of s from a + 1 to b.
LEMMA MiddleIs ==
  ASSUME NEW s, IsSeq(s), NEW a \in 0 .. Len(s), NEW b \in a .. Len(s)
  PROVE  /\ IsSeq(SubSeq(s, a + 1, b)) /\ Len(SubSeq(s, a + 1, b)) = b - a
         /\ \A i \in 1 .. b - a : SubSeq(s, a + 1, b)[i] = s[a + i]
<1>1. PICK S : s \in Seq(S)
  BY DEF IsSeq
<1>2. Len(s) \in Nat /\ a \in Nat /\ b \in Nat /\ a <= b /\ b <= Len(s)
  BY SeqIs
<1>3. PICK f : f = [i \in 1 .. b - a |-> s[a + i]]
  OBVIOUS
<1>4. SubSeq(s, a + 1, b) = f
  BY <1>1, <1>2, <1>3
<1>5. b - a \in Nat /\ DOMAIN f = 1 .. b - a /\ f = [i \in 1 .. b - a |-> f[i]]
  BY <1>2, <1>3
<1>6. IsSeq(f) /\ Len(f) = b - a
  BY <1>5, TupleIs
<1> QED  BY <1>3, <1>4, <1>6

LEMMA TimesSplit ==
  ASSUME NEW s, IsSeq(s), NEW k \in 0 .. Len(s), NEW t, Cut(t, k, s), NEW m
  PROVE  Times(s, m) = Times(t, m) + Times(SubSeq(s, k + 1, Len(s)), m)
<1>1. PICK n, r : n = Len(s) /\ r = SubSeq(s, k + 1, n)
  OBVIOUS
<1>2. n \in Nat /\ k \in Nat /\ k <= n /\ DOMAIN s = 1 .. n
  BY <1>1, SeqIs
<1>3. IsSeq(r) /\ Len(r) = n - k /\ DOMAIN r = 1 .. n - k /\ \A i \in 1 .. n - k : r[i] = s[k + i]
  <2>1. n \in k .. Len(s)
    BY <1>1, <1>2
  <2> QED  BY <1>1, <2>1, MiddleIs, SeqIs
<1>4. IsSeq(t) /\ DOMAIN t = 1 .. k /\ \A i \in 1 .. k : t[i] = s[i]
  BY SeqIs DEF Cut
<1>5. PICK A, B, C : A = Places(t, m) /\ B = Places(r, m) /\ C = {i \in k + 1 .. n : s[i] = m}
  OBVIOUS
<1>6. IsFiniteSet(A) /\ IsFiniteSet(B)
  BY <1>3, <1>4, <1>5, TimesType
<1>7. ExistsBijection(B, C)
  <2> DEFINE f == [i \in B |-> k + i]
  <2>1. \A i \in B : k + i \in C
    BY <1>2, <1>3, <1>5 DEF Places
  <2>2. \A j \in C : j - k \in B
    BY <1>2, <1>3, <1>5 DEF Places
  <2>3. \A i \in B : i \in Nat
    BY <1>2, <1>3, <1>5 DEF Places
  <2>4. \A j \in C : j \in Nat /\ k + (j - k) = j
    BY <1>2, <1>5
  <2>5. f \in [B -> C]
    BY <2>1
  <2>6. \A x, y \in B : f[x] = f[y] => x = y
    BY <1>2, <2>3
  <2>7. \A j \in C : \E i \in B : f[i] = j
    BY <2>2, <2>4
  <2> QED  BY <2>5, <2>6, <2>7 DEF ExistsBijection, Bijection, Injection, Surjection, IsInjective
<1>8. IsFiniteSet(C) /\ Cardinality(C) = Cardinality(B)
  BY <1>6, <1>7, FS_Bijection
<1>9. Places(s, m) = A \cup C /\ A \cap C = {}
  BY <1>2, <1>4, <1>5 DEF Places
<1>10. Cardinality(A \cup C) = Cardinality(A) + Cardinality(C)
  BY ONLY <1>6, <1>8, <1>9, DisjointCount
<1> QED  BY <1>1, <1>5, <1>8, <1>9, <1>10 DEF Times

LEMMA ClassesType ==
  ASSUME NEW L, IsFiniteSet(L), NEW m
  PROVE  IsFiniteSet(ClassesOf(L, m)) /\ Cardinality(ClassesOf(L, m)) \in Nat
<1>1. ClassesOf(L, m) \in SUBSET L
  BY DEF ClassesOf
<1> QED  BY <1>1, FS_Subset, FS_CardinalityType

LEMMA ClassesMore ==
  ASSUME NEW L, IsFiniteSet(L), NEW x, x \notin L, NEW m
  PROVE  Cardinality(ClassesOf(L \cup {x}, m)) = Cardinality(ClassesOf(L, m)) + One(ModuleOf(x) = m)
<1>1. IsFiniteSet(ClassesOf(L, m)) /\ Cardinality(ClassesOf(L, m)) \in Nat
  BY ClassesType
<1>2. CASE ModuleOf(x) = m
  <2>1. ClassesOf(L \cup {x}, m) = ClassesOf(L, m) \cup {x} /\ x \notin ClassesOf(L, m)
    BY <1>2 DEF ClassesOf
  <2> QED  BY <1>1, <1>2, <2>1, FS_AddElement DEF One
<1>3. CASE ModuleOf(x) # m
  <2>1. ClassesOf(L \cup {x}, m) = ClassesOf(L, m)
    BY <1>3 DEF ClassesOf
  <2> QED  BY <1>1, <1>3, <2>1 DEF One
<1> QED  BY <1>2, <1>3

\* The classes of the sequence d, all different, are released.
LEMMA ClassesLess ==
  ASSUME NEW L, IsFiniteSet(L), NEW d, IsSeq(d), Items(d) \subseteq L,
         \A i, j \in 1 .. Len(d) : d[i] = d[j] => i = j, NEW m
  PROVE  Cardinality(ClassesOf(L, m))
           = Cardinality(ClassesOf(L \ Items(d), m)) + Times(ModulesOfClasses(d), m)
<1>1. PICK n \in Nat : n = Len(d) /\ DOMAIN d = 1 .. n
  BY SeqIs
<1>2. PICK A, B, C : /\ A = ClassesOf(L \ Items(d), m) /\ B = Places(ModulesOfClasses(d), m)
                     /\ C = ClassesOf(Items(d), m)
  OBVIOUS
<1>3. B = {i \in 1 .. n : ModuleOf(d[i]) = m}
  BY <1>1, <1>2 DEF Places, ModulesOfClasses
<1>4. IsFiniteSet(A) /\ Cardinality(A) \in Nat
  <2>1. IsFiniteSet(L \ Items(d))
    BY FS_Subset
  <2> QED  BY <1>2, <2>1, ClassesType
<1>5. IsFiniteSet(B)
  <2>1. IsFiniteSet(1 .. n) /\ B \in SUBSET (1 .. n)
    BY <1>3, FS_Interval
  <2> QED  BY <2>1, FS_Subset
<1>6. ExistsBijection(B, C)
  <2> DEFINE f == [i \in B |-> d[i]]
  <2>1. f \in [B -> C]
    BY <1>1, <1>2, <1>3 DEF ClassesOf, Items
  <2>2. \A x, y \in B : f[x] = f[y] => x = y
    BY <1>1, <1>3
  <2>3. \A z \in C : \E i \in B : f[i] = z
    BY <1>1, <1>2, <1>3 DEF ClassesOf, Items
  <2> QED  BY <2>1, <2>2, <2>3 DEF ExistsBijection, Bijection, Injection, Surjection, IsInjective
<1>7. IsFiniteSet(C) /\ Cardinality(C) = Cardinality(B) /\ Cardinality(C) \in Nat
  BY <1>5, <1>6, FS_Bijection, FS_CardinalityType
<1>8. ClassesOf(L, m) = A \cup C /\ A \cap C = {}
  BY <1>2 DEF ClassesOf
<1>9. Cardinality(A \cup C) = Cardinality(A) + Cardinality(C)
  BY ONLY <1>4, <1>7, <1>8, DisjointCount
<1> QED  BY <1>2, <1>7, <1>8, <1>9 DEF Times

\* Modules are retained and released.
LEMMA RetainedIs ==
  ASSUME NEW L, ModuleRecords(L), NEW m, NEW i \in 1 .. Len(L), L[i].refs \in Int
  PROVE  /\ pmodule_retain(L, m)[i].refs = L[i].refs + One(m = i)
         /\ pmodule_release(L, m)[i].refs = L[i].refs - One(m = i)
<1>1. DOMAIN L = 1 .. Len(L) /\ DOMAIN L[i] = {"source", "refs"}
  BY SeqIs DEF ModuleRecords
<1> QED  BY <1>1 DEF pmodule_retain, pmodule_release, One

LEMMA ReleasedIs ==
  ASSUME NEW L, ModuleRecords(L), NEW s, NEW i \in 1 .. Len(L)
  PROVE  ReleaseEach(L, s)[i].refs = L[i].refs - Times(s, i)
<1>1. DOMAIN L = 1 .. Len(L) /\ DOMAIN L[i] = {"source", "refs"}
  BY SeqIs DEF ModuleRecords
<1> QED  BY <1>1 DEF ReleaseEach, Times, Places

-----------------------------------------------------------------------------
(* Who owns the modules.                                                   *)

\* The classes that exist, and the classes and functions of modules.
Holding(v, L) ==
  /\ IsFiniteSet(L) /\ Items(v.classes) \subseteq L
  /\ \A x \in L : ModuleOf(x) \in 1 .. Len(v.modules)
  /\ \A i \in 1 .. Len(v.functions) : v.functions[i].module \in 1 .. Len(v.modules)

\* The modules whose code declares classes.
Codes(n, r, t) ==
  (IF r.kind \in {"chunk", "rollback"} THEN {r.code} ELSE {}) \cup (IF n = 2 THEN {t.code} ELSE {})

\* A class that is in no table is not one the running code declared.
Fresh(n, r, t, v, L) == \A x \in L : x \in Items(v.classes) \/ ModuleOf(x) \notin Codes(n, r, t)

Placed(n, r, t, v) ==
  /\ Codes(n, r, t) \subseteq 1 .. Len(v.modules)
  /\ r.kind \in {"chunk", "rollback"} => r.module \in 1 .. Len(v.modules)
  /\ r.kind = "rollback" => r.start.class_end \in r.start.classes .. Len(v.classes)
  /\ n = 2 => t.module \in 1 .. Len(v.modules)
  /\ n = 2 /\ t.kind = "invoke" => t.module \notin Items(v.mods) /\ t.module # r.module
  /\ n = 2 /\ t.kind = "include" => t.module \in Items(v.mods)
  /\ n = 2 /\ t.kind \in {"include", "rollback"} =>
       /\ r.kind = "chunk" /\ t.start.module = r.module
       /\ r.module \in Items(v.mods) => \E i \in 1 .. t.start.mods : v.mods[i] = r.module
  /\ n = 2 /\ t.kind = "rollback" => t.start.class_end = Len(v.classes)
  /\ r.kind = "closed" => Len(v.classes) = 0 /\ Len(v.functions) = 0 /\ Len(v.mods) = 0

Owners(v, L, m) ==
  Times(v.mods, m) + Times(ModulesOfFunctions(v.functions), m) + Cardinality(ClassesOf(L, m))

\* The chunk the root runs, or takes back, is in no list.
Runs(r, v, m) == r.kind \in {"chunk", "rollback"} /\ r.module = m /\ m \notin Items(v.mods)
Calls(n, t, m) == n = 2 /\ t.kind = "invoke" /\ t.module = m

Balanced(n, r, t, v, L) ==
  \A m \in 1 .. Len(v.modules) :
    v.modules[m].refs = Owners(v, L, m) + One(Runs(r, v, m)) + One(Calls(n, t, m))

Unleaked(n, r, v, L) ==
  "destructor" \notin Kinds =>
    /\ L \subseteq Items(v.classes) /\ (n = 2 => r.kind = "chunk")
    /\ r.kind = "rollback" => r.start.class_end = Len(v.classes)

Owned(n, r, t, v, L) ==
  /\ Holding(v, L) /\ Fresh(n, r, t, v, L) /\ Placed(n, r, t, v) /\ Balanced(n, r, t, v, L)
  /\ Unleaked(n, r, v, L)

Stacked(n, r, t) ==
  /\ n \in {1, 2} /\ (n = 1 => t = r /\ r.kind \in {"idle", "chunk", "rollback", "closed"})
  /\ n = 2 => r.kind \in {"chunk", "rollback"} /\ t.kind \in {"invoke", "include", "rollback"}

LEMMA LongerIs ==
  ASSUME NEW s, IsSeq(s), NEW t, NEW x, Longer(s, t, x)
  PROVE  Items(t) = Items(s) \cup {x} /\ \A m : Times(t, m) = Times(s, m) + One(x = m)
<1>1. PICK n \in Nat : n = Len(s)
  BY SeqIs
<1>2. IsSeq(t) /\ Len(t) = n + 1 /\ t[n + 1] = x /\ \A i \in 1 .. n : t[i] = s[i]
  BY <1>1 DEF Longer
<1>3. \A i : i \in 1 .. n + 1 <=> i \in 1 .. n \/ i = n + 1
  OBVIOUS
<1>4. Items(t) = Items(s) \cup {x}
  BY <1>1, <1>2, <1>3 DEF Items
<1>5. ASSUME NEW m PROVE Times(t, m) = Times(s, m) + One(x = m)
  <2>1. Times(t, m) = Times(s, m) + One(t[Len(s) + 1] = m)
    BY <1>1, <1>2, TimesMore
  <2> QED  BY <1>1, <1>2, <2>1
<1> QED  BY <1>4, <1>5

LEMMA FunctionsOwn ==
  ASSUME NEW F, IsSeq(F)
  PROVE  /\ IsSeq(ModulesOfFunctions(F)) /\ Len(ModulesOfFunctions(F)) = Len(F)
         /\ \A i \in 1 .. Len(F) : ModulesOfFunctions(F)[i] = F[i].module
<1>1. DOMAIN F = 1 .. Len(F) /\ Len(F) \in Nat
  BY SeqIs
<1>2. PICK f : f = ModulesOfFunctions(F)
  OBVIOUS
<1>3. DOMAIN f = 1 .. Len(F) /\ f = [i \in 1 .. Len(F) |-> f[i]] /\ \A i \in 1 .. Len(F) : f[i] = F[i].module
  BY <1>1, <1>2 DEF ModulesOfFunctions
<1>4. IsSeq(f) /\ Len(f) = Len(F)
  BY <1>1, <1>3, TupleIs
<1> QED  BY <1>2, <1>3, <1>4

LEMMA ClassesOwn ==
  ASSUME NEW d, IsSeq(d)
  PROVE  IsSeq(ModulesOfClasses(d)) /\ Len(ModulesOfClasses(d)) = Len(d)
<1>1. DOMAIN d = 1 .. Len(d) /\ Len(d) \in Nat
  BY SeqIs
<1>2. PICK f : f = ModulesOfClasses(d)
  OBVIOUS
<1>3. DOMAIN f = 1 .. Len(d) /\ f = [i \in 1 .. Len(d) |-> f[i]]
  BY <1>1, <1>2 DEF ModulesOfClasses
<1>4. IsSeq(f) /\ Len(f) = Len(d)
  BY <1>1, <1>3, TupleIs
<1> QED  BY <1>2, <1>4

LEMMA OwnersType ==
  ASSUME NEW v, ViewOK(v), NEW L, Holding(v, L), NEW m
  PROVE  /\ Times(v.mods, m) \in Nat /\ Times(ModulesOfFunctions(v.functions), m) \in Nat
         /\ Cardinality(ClassesOf(L, m)) \in Nat /\ Owners(v, L, m) \in Nat
         /\ (m \notin Items(v.mods) => Times(v.mods, m) = 0) /\ (m \in Items(v.mods) => Times(v.mods, m) > 0)
<1>1. IsSeq(v.mods) /\ IsSeq(ModulesOfFunctions(v.functions))
  BY FunctionsOwn DEF ViewOK
<1>2. Times(v.mods, m) \in Nat /\ Times(ModulesOfFunctions(v.functions), m) \in Nat
      /\ (m \notin Items(v.mods) => Times(v.mods, m) = 0) /\ (m \in Items(v.mods) => Times(v.mods, m) > 0)
  BY <1>1, TimesType
<1>3. Cardinality(ClassesOf(L, m)) \in Nat
  BY ClassesType DEF Holding
<1> QED  BY <1>2, <1>3 DEF Owners

\* A module that is yet to come has no owner.
LEMMA NoOwner ==
  ASSUME NEW v, ViewOK(v), NEW L, Holding(v, L), NEW m, m = Len(v.modules) + 1
  PROVE  /\ m \notin 1 .. Len(v.modules) /\ m \notin Items(v.mods) /\ Owners(v, L, m) = 0
         /\ \A x \in L : ModuleOf(x) # m
<1>1. m \notin 1 .. Len(v.modules)
  BY SeqIs DEF ViewOK
<1>2. m \notin Items(v.mods) /\ Times(v.mods, m) = 0
  BY <1>1, TimesType DEF ViewOK, Items
<1>3. Times(ModulesOfFunctions(v.functions), m) = 0
  <2>1. PICK s : s = ModulesOfFunctions(v.functions)
    OBVIOUS
  <2>2. IsSeq(s) /\ Len(s) = Len(v.functions) /\ \A i \in 1 .. Len(s) : s[i] = v.functions[i].module
    BY <2>1, FunctionsOwn DEF ViewOK
  <2>3. m \notin Items(s)
    BY <1>1, <2>2 DEF Items, Holding
  <2> QED  BY <2>1, <2>2, <2>3, TimesType
<1>4. (\A x \in L : ModuleOf(x) # m) /\ Cardinality(ClassesOf(L, m)) = 0
  <2>1. \A x \in L : ModuleOf(x) # m
    BY <1>1 DEF Holding
  <2>2. ClassesOf(L, m) = {}
    BY <2>1 DEF ClassesOf
  <2> QED  BY <2>1, <2>2, FS_EmptySet
<1> QED  BY <1>1, <1>2, <1>3, <1>4 DEF Owners
LEMMA ViewsAre ==
  ASSUME NEW v, ViewOK(v)
  PROVE  /\ IsSeq(v.classes) /\ IsSeq(v.functions) /\ IsSeq(v.modules) /\ IsSeq(v.mods)
         /\ Len(v.classes) \in Nat /\ Len(v.functions) \in Nat /\ Len(v.modules) \in Nat
         /\ Len(v.mods) \in Nat /\ ModuleRecords(v.modules)
<1>1. IsSeq(v.classes) /\ IsSeq(v.functions) /\ IsSeq(v.modules) /\ IsSeq(v.mods)
      /\ ModuleRecords(v.modules)
  BY DEF ViewOK, ModuleRecords
<1> QED  BY <1>1, SeqIs

LEMMA CountsSame ==
  ASSUME NEW L, ModuleRecords(L), NEW m
  PROVE  /\ Len(pmodule_retain(L, m)) = Len(L) /\ Len(pmodule_release(L, m)) = Len(L)
         /\ ModuleRecords(pmodule_retain(L, m)) /\ ModuleRecords(pmodule_release(L, m))
         /\ Len(ReleaseEach(L, m)) = Len(L) /\ ModuleRecords(ReleaseEach(L, m))
<1>1. ModulesLike(L, pmodule_retain(L, m)) /\ ModulesLike(L, pmodule_release(L, m))
  BY RetainLike
<1>2. ModulesLike(L, ReleaseEach(L, m)) /\ ModuleRecords(ReleaseEach(L, m))
  BY ReleaseEachLike
<1>3. ModuleRecords(pmodule_retain(L, m)) /\ ModuleRecords(pmodule_release(L, m))
  BY <1>1, LikeRecords
<1>4. Len(pmodule_retain(L, m)) = Len(L) /\ Len(pmodule_release(L, m)) = Len(L)
      /\ Len(ReleaseEach(L, m)) = Len(L)
  BY ONLY <1>1, <1>2 DEF ModulesLike
<1> QED  BY <1>2, <1>3, <1>4

LEMMA OneType ==
  ASSUME NEW b
  PROVE  One(b) \in {0, 1} /\ (b => One(b) = 1) /\ (~b => One(b) = 0)
BY DEF One

\* The running code declares a class or a function.
LEMMA ClassOwned ==
  ASSUME NEW n, NEW r, NEW t, NEW v, NEW L, Owned(n, r, t, v, L), Stacked(n, r, t), ViewOK(v),
         t.kind \in {"chunk", "include", "invoke"},
         NEW r2, SameVm(r, r2), NEW t2, SameVm(t, t2), NEW name, name \notin ClassesAt(v, Len(v.classes)),
         NEW x, x = <<name, t.code>>, NEW w, Longer(v.classes, w.classes, x),
         w.functions = v.functions, w.mods = v.mods, w.modules = pmodule_retain(v.modules, t.code)
  PROVE  Owned(n, r2, t2, w, L \cup {x})
<1>0. /\ r2.kind = r.kind /\ r2.module = r.module /\ r2.code = r.code /\ r2.start = r.start
      /\ t2.kind = t.kind /\ t2.module = t.module /\ t2.code = t.code /\ t2.start = t.start
  BY DEF SameVm
<1>1. Holding(v, L) /\ Fresh(n, r, t, v, L) /\ Placed(n, r, t, v) /\ Balanced(n, r, t, v, L)
      /\ Unleaked(n, r, v, L)
  BY DEF Owned
<1>2. t.code \in Codes(n, r, t) /\ Codes(n, r2, t2) = Codes(n, r, t)
  BY <1>0 DEF Stacked, Codes
<1>3. ModuleOf(x) = t.code /\ NameOf(x) = name /\ t.code \in 1 .. Len(v.modules)
  BY <1>1, <1>2 DEF ModuleOf, NameOf, Placed
<1>4. ModuleRecords(v.modules) /\ Len(w.modules) = Len(v.modules) /\ Len(v.modules) \in Nat
  <2>1. ModuleRecords(v.modules) /\ Len(v.modules) \in Nat
    BY ViewsAre
  <2> QED  BY <2>1, CountsSame
<1>5. Items(w.classes) = Items(v.classes) \cup {x} /\ Len(w.classes) = Len(v.classes) + 1
      /\ Len(v.classes) \in Nat
  <2>1. IsSeq(v.classes) /\ Len(v.classes) \in Nat
    BY ViewsAre
  <2>2. Items(w.classes) = Items(v.classes) \cup {x}
    BY <2>1, LongerIs
  <2>3. Len(w.classes) = Len(v.classes) + 1
    BY DEF Longer
  <2> QED  BY <2>1, <2>2, <2>3
<1>6. x \notin L
  <2>1. x \notin Items(v.classes)
    BY <1>3 DEF ClassesAt, Items
  <2> QED  BY <1>1, <1>2, <1>3, <2>1 DEF Fresh
<1>7. Holding(w, L \cup {x})
  <2>1. IsFiniteSet(L \cup {x})
    BY <1>1, FS_AddElement DEF Holding
  <2> QED  BY <1>1, <1>3, <1>4, <1>5, <2>1 DEF Holding
<1>8. Fresh(n, r2, t2, w, L \cup {x})
  BY <1>1, <1>2, <1>5 DEF Fresh
<1>9. Placed(n, r2, t2, w)
  <2>1. r.start.class_end \in r.start.classes .. Len(v.classes) =>
          r.start.class_end \in r.start.classes .. Len(w.classes)
    BY <1>5
  <2>2. r.kind # "closed" /\ ~(n = 2 /\ t.kind = "rollback")
    BY DEF Stacked
  <2> QED  BY <1>0, <1>1, <1>2, <1>4, <2>1, <2>2 DEF Placed
<1>10. Balanced(n, r2, t2, w, L \cup {x})
  <2> SUFFICES ASSUME NEW m \in 1 .. Len(v.modules)
               PROVE  w.modules[m].refs = Owners(w, L \cup {x}, m) + One(Runs(r2, w, m)) + One(Calls(n, t2, m))
    BY <1>4 DEF Balanced
  <2>1. v.modules[m].refs = Owners(v, L, m) + One(Runs(r, v, m)) + One(Calls(n, t, m))
    BY <1>1 DEF Balanced
  <2>2. Runs(r2, w, m) = Runs(r, v, m) /\ Calls(n, t2, m) = Calls(n, t, m)
    BY <1>0 DEF Runs, Calls
  <2>3. Owners(v, L, m) \in Nat /\ Times(v.mods, m) \in Nat /\ Cardinality(ClassesOf(L, m)) \in Nat
        /\ Times(ModulesOfFunctions(v.functions), m) \in Nat
    BY <1>1, OwnersType
  <2>4. One(Runs(r, v, m)) \in {0, 1} /\ One(Calls(n, t, m)) \in {0, 1} /\ One(t.code = m) \in {0, 1}
    BY OneType
  <2>5. Cardinality(ClassesOf(L \cup {x}, m)) = Cardinality(ClassesOf(L, m)) + One(t.code = m)
    BY <1>1, <1>3, <1>6, ClassesMore DEF Holding
  <2>6. Owners(w, L \cup {x}, m) = Owners(v, L, m) + One(t.code = m)
    BY <2>3, <2>4, <2>5 DEF Owners
  <2>7. w.modules[m].refs = v.modules[m].refs + One(t.code = m)
    <3>1. ModuleRecords(v.modules) /\ m \in 1 .. Len(v.modules) /\ v.modules[m].refs \in Int
      BY <1>4, <2>1, <2>3, <2>4
    <3>2. pmodule_retain(v.modules, t.code)[m].refs = v.modules[m].refs + One(t.code = m)
      BY ONLY <3>1, RetainedIs
    <3> QED  BY <1>4, <3>2
  <2> QED  BY ONLY <2>1, <2>2, <2>3, <2>4, <2>6, <2>7
<1>11. Unleaked(n, r2, w, L \cup {x})
  <2>1. "destructor" \notin Kinds => r.kind # "rollback"
    BY <1>1 DEF Unleaked, Stacked
  <2> QED  BY <1>0, <1>1, <1>5, <2>1 DEF Unleaked
<1> QED  BY <1>7, <1>8, <1>9, <1>10, <1>11 DEF Owned

LEMMA FunctionOwned ==
  ASSUME NEW n, NEW r, NEW t, NEW v, NEW L, Owned(n, r, t, v, L), Stacked(n, r, t), ViewOK(v),
         t.kind \in {"chunk", "include", "invoke"}, NEW f,
         NEW w, w.functions = Append(v.functions, [name |-> f, module |-> t.code]),
         w.classes = v.classes, w.mods = v.mods, w.modules = pmodule_retain(v.modules, t.code)
  PROVE  Owned(n, r, t, w, L)
<1>1. Holding(v, L) /\ Fresh(n, r, t, v, L) /\ Placed(n, r, t, v) /\ Balanced(n, r, t, v, L)
      /\ Unleaked(n, r, v, L)
  BY DEF Owned
<1>2. t.code \in Codes(n, r, t)
  BY DEF Stacked, Codes
<1>3. t.code \in 1 .. Len(v.modules)
  BY <1>1, <1>2 DEF Placed
<1>4. ModuleRecords(v.modules) /\ Len(w.modules) = Len(v.modules) /\ Len(v.modules) \in Nat
  <2>1. ModuleRecords(v.modules) /\ Len(v.modules) \in Nat
    BY ViewsAre
  <2> QED  BY <2>1, CountsSame
<1>5. PICK k, x : k = Len(v.functions) /\ x = [name |-> f, module |-> t.code] /\ k \in Nat
  BY ViewsAre
<1>6. /\ IsSeq(w.functions) /\ Len(w.functions) = k + 1 /\ w.functions[k + 1] = x
      /\ \A i \in 1 .. k : w.functions[i] = v.functions[i]
  BY <1>5, AppendIs DEF ViewOK
<1>7. \A i : i \in 1 .. k + 1 <=> i \in 1 .. k \/ i = k + 1
  BY <1>5
<1>8. x.module = t.code
  BY <1>5
<1>9. Holding(w, L)
  <2>1. \A i \in 1 .. k + 1 : w.functions[i].module \in 1 .. Len(v.modules)
    BY <1>1, <1>3, <1>5, <1>6, <1>7, <1>8 DEF Holding
  <2> QED  BY <1>1, <1>4, <1>6, <2>1 DEF Holding
<1>10. Fresh(n, r, t, w, L)
  BY <1>1 DEF Fresh
<1>11. Placed(n, r, t, w)
  <2>1. r.kind # "closed"
    BY DEF Stacked
  <2> QED  BY <1>1, <1>4, <2>1 DEF Placed
<1>12. Longer(ModulesOfFunctions(v.functions), ModulesOfFunctions(w.functions), t.code)
       /\ IsSeq(ModulesOfFunctions(v.functions))
  <2>1. PICK a, b : a = ModulesOfFunctions(v.functions) /\ b = ModulesOfFunctions(w.functions)
    OBVIOUS
  <2>2. /\ IsSeq(a) /\ Len(a) = k /\ \A i \in 1 .. k : a[i] = v.functions[i].module
        /\ IsSeq(b) /\ Len(b) = k + 1 /\ \A i \in 1 .. k + 1 : b[i] = w.functions[i].module
    <3>1. IsSeq(v.functions) /\ Len(v.functions) = k
      BY <1>5, ViewsAre
    <3>2. IsSeq(a) /\ Len(a) = k /\ \A i \in 1 .. k : a[i] = v.functions[i].module
      BY <2>1, <3>1, FunctionsOwn
    <3>3. IsSeq(b) /\ Len(b) = k + 1 /\ \A i \in 1 .. k + 1 : b[i] = w.functions[i].module
      BY <1>6, <2>1, FunctionsOwn
    <3> QED  BY <3>2, <3>3
  <2>3. b[k + 1] = t.code /\ \A i \in 1 .. k : b[i] = a[i]
    BY <1>6, <1>7, <1>8, <2>2
  <2>4. Longer(a, b, t.code)
    BY <2>2, <2>3 DEF Longer
  <2> QED  BY <2>1, <2>2, <2>4
<1>13. Balanced(n, r, t, w, L)
  <2> SUFFICES ASSUME NEW m \in 1 .. Len(v.modules)
               PROVE  w.modules[m].refs = Owners(w, L, m) + One(Runs(r, w, m)) + One(Calls(n, t, m))
    BY <1>4 DEF Balanced
  <2>1. v.modules[m].refs = Owners(v, L, m) + One(Runs(r, v, m)) + One(Calls(n, t, m))
    BY <1>1 DEF Balanced
  <2>2. Runs(r, w, m) = Runs(r, v, m)
    BY DEF Runs
  <2>3. Owners(v, L, m) \in Nat /\ Times(v.mods, m) \in Nat /\ Cardinality(ClassesOf(L, m)) \in Nat
        /\ Times(ModulesOfFunctions(v.functions), m) \in Nat
    BY <1>1, OwnersType
  <2>4. One(Runs(r, v, m)) \in {0, 1} /\ One(Calls(n, t, m)) \in {0, 1} /\ One(t.code = m) \in {0, 1}
    BY OneType
  <2>5. Times(ModulesOfFunctions(w.functions), m)
          = Times(ModulesOfFunctions(v.functions), m) + One(t.code = m)
    BY <1>12, LongerIs
  <2>6. Owners(w, L, m) = Owners(v, L, m) + One(t.code = m)
    BY <2>3, <2>4, <2>5 DEF Owners
  <2>7. w.modules[m].refs = v.modules[m].refs + One(t.code = m)
    <3>1. ModuleRecords(v.modules) /\ m \in 1 .. Len(v.modules) /\ v.modules[m].refs \in Int
      BY <1>4, <2>1, <2>3, <2>4
    <3>2. pmodule_retain(v.modules, t.code)[m].refs = v.modules[m].refs + One(t.code = m)
      BY ONLY <3>1, RetainedIs
    <3> QED  BY <1>4, <3>2
  <2> QED  BY ONLY <2>1, <2>2, <2>3, <2>4, <2>6, <2>7
<1>14. Unleaked(n, r, w, L)
  BY <1>1 DEF Unleaked
<1> QED  BY <1>9, <1>10, <1>11, <1>13, <1>14 DEF Owned

\* A callback or a destructor starts, and ends.
LEMMA InvokeOwned ==
  ASSUME NEW r, NEW t, NEW v, NEW L, Owned(1, r, t, v, L), ViewOK(v),
         r.kind \in {"chunk", "rollback"}, "destructor" \in Kinds \/ r.kind = "chunk",
         NEW t2, t2.kind = "invoke", t2.module = Len(v.modules) + 1, t2.code = r.code,
         NEW w, SameDefinitions(v, w), NEW x, x.refs = 1, w.modules = Append(v.modules, x)
  PROVE  Owned(2, r, t2, w, L)
<1>1. Holding(v, L) /\ Fresh(1, r, t, v, L) /\ Placed(1, r, t, v) /\ Balanced(1, r, t, v, L)
      /\ Unleaked(1, r, v, L)
  BY DEF Owned
<1>2. PICK k \in Nat : k = Len(v.modules)
  BY SeqIs DEF ViewOK
<1>3. Len(w.modules) = k + 1 /\ w.modules[k + 1] = x /\ \A m \in 1 .. k : w.modules[m] = v.modules[m]
  BY <1>2, AppendIs DEF ViewOK
<1>4. \A m : m \in 1 .. k + 1 <=> m \in 1 .. k \/ m = k + 1
  OBVIOUS
<1>5. w.classes = v.classes /\ w.functions = v.functions /\ w.mods = v.mods
  BY DEF SameDefinitions
<1>6. Codes(1, r, t) = {r.code} /\ Codes(2, r, t2) = {r.code}
  BY DEF Codes
<1>7. k + 1 \notin 1 .. k /\ k + 1 \notin Items(v.mods) /\ Owners(v, L, k + 1) = 0
  BY <1>1, <1>2, NoOwner
<1>8. Holding(w, L)
  BY <1>1, <1>2, <1>3, <1>4, <1>5 DEF Holding
<1>9. Fresh(2, r, t2, w, L)
  BY <1>1, <1>5, <1>6 DEF Fresh
<1>10. Placed(2, r, t2, w)
  <2>1. r.code \in 1 .. k /\ r.module \in 1 .. k
    BY <1>1, <1>2, <1>6 DEF Placed
  <2> QED  BY <1>1, <1>2, <1>3, <1>4, <1>5, <1>6, <1>7, <2>1 DEF Placed
<1>11. Balanced(2, r, t2, w, L)
  <2> SUFFICES ASSUME NEW m \in 1 .. k + 1
               PROVE  w.modules[m].refs = Owners(w, L, m) + One(Runs(r, w, m)) + One(Calls(2, t2, m))
    BY <1>3 DEF Balanced
  <2>1. Owners(w, L, m) = Owners(v, L, m)
    BY <1>5 DEF Owners
  <2>2. Owners(v, L, m) \in Nat
    BY <1>1, OwnersType
  <2>3. CASE m \in 1 .. k
    <3>1. v.modules[m].refs = Owners(v, L, m) + One(Runs(r, v, m)) + One(Calls(1, t, m))
      BY <1>1, <1>2, <2>3 DEF Balanced
    <3>2. Runs(r, w, m) = Runs(r, v, m) /\ ~Calls(1, t, m) /\ ~Calls(2, t2, m)
      BY <1>2, <1>5, <1>7, <2>3 DEF Runs, Calls
    <3>3. One(Calls(1, t, m)) = 0 /\ One(Calls(2, t2, m)) = 0
      BY <3>2, OneType
    <3> QED  BY <1>3, <2>1, <2>3, <3>1, <3>2, <3>3
  <2>4. CASE m = k + 1
    <3>1. ~Runs(r, w, m) /\ Calls(2, t2, m)
      BY <1>1, <1>2, <1>7, <2>4 DEF Runs, Calls, Placed
    <3>2. One(Runs(r, w, m)) = 0 /\ One(Calls(2, t2, m)) = 1
      BY <3>1, OneType
    <3> QED  BY <1>3, <1>7, <2>1, <2>4, <3>2
  <2> QED  BY <1>4, <2>3, <2>4
<1>12. Unleaked(2, r, w, L)
  BY <1>1, <1>5 DEF Unleaked
<1> QED  BY <1>8, <1>9, <1>10, <1>11, <1>12 DEF Owned

LEMMA InvokedOwned ==
  ASSUME NEW r, NEW t, NEW v, NEW L, Owned(2, r, t, v, L), Stacked(2, r, t), ViewOK(v), t.kind = "invoke",
         NEW r2, SameVm(r, r2), NEW w, SameDefinitions(v, w),
         w.modules = pmodule_release(v.modules, t.module)
  PROVE  Owned(1, r2, r2, w, L)
<1>0. r2.kind = r.kind /\ r2.module = r.module /\ r2.code = r.code /\ r2.start = r.start
  BY DEF SameVm
<1>1. Holding(v, L) /\ Fresh(2, r, t, v, L) /\ Placed(2, r, t, v) /\ Balanced(2, r, t, v, L)
      /\ Unleaked(2, r, v, L)
  BY DEF Owned
<1>2. ModuleRecords(v.modules) /\ Len(w.modules) = Len(v.modules) /\ Len(v.modules) \in Nat
  <2>1. ModuleRecords(v.modules) /\ Len(v.modules) \in Nat
    BY ViewsAre
  <2> QED  BY <2>1, CountsSame
<1>3. w.classes = v.classes /\ w.functions = v.functions /\ w.mods = v.mods
  BY DEF SameDefinitions
<1>4. Codes(1, r2, r2) \subseteq Codes(2, r, t)
  BY <1>0 DEF Codes
<1>5. Holding(w, L)
  BY <1>1, <1>2, <1>3 DEF Holding
<1>6. Fresh(1, r2, r2, w, L)
  BY <1>1, <1>3, <1>4 DEF Fresh
<1>7. Placed(1, r2, r2, w)
  BY <1>0, <1>1, <1>2, <1>3, <1>4 DEF Placed
<1>8. Balanced(1, r2, r2, w, L)
  <2> SUFFICES ASSUME NEW m \in 1 .. Len(v.modules)
               PROVE  w.modules[m].refs = Owners(w, L, m) + One(Runs(r2, w, m)) + One(Calls(1, r2, m))
    BY <1>2 DEF Balanced
  <2>1. v.modules[m].refs = Owners(v, L, m) + One(Runs(r, v, m)) + One(Calls(2, t, m))
    BY <1>1 DEF Balanced
  <2>2. Runs(r2, w, m) = Runs(r, v, m) /\ Calls(2, t, m) = (t.module = m) /\ ~Calls(1, r2, m)
    BY <1>0, <1>3 DEF Runs, Calls
  <2>3. Owners(w, L, m) = Owners(v, L, m) /\ Owners(v, L, m) \in Nat
    BY <1>1, <1>3, OwnersType DEF Owners
  <2>4. One(Runs(r, v, m)) \in {0, 1} /\ One(t.module = m) \in {0, 1} /\ One(Calls(1, r2, m)) = 0
    BY <2>2, OneType
  <2>5. w.modules[m].refs = v.modules[m].refs - One(t.module = m)
    <3>1. ModuleRecords(v.modules) /\ m \in 1 .. Len(v.modules) /\ v.modules[m].refs \in Int
      BY <1>2, <2>1, <2>2, <2>3, <2>4
    <3>2. pmodule_release(v.modules, t.module)[m].refs = v.modules[m].refs - One(t.module = m)
      BY ONLY <3>1, RetainedIs
    <3> QED  BY <3>2, Zenon
  <2> QED  BY ONLY <2>1, <2>2, <2>3, <2>4, <2>5
<1>9. Unleaked(1, r2, w, L)
  BY <1>0, <1>1, <1>3 DEF Unleaked
<1> QED  BY <1>5, <1>6, <1>7, <1>8, <1>9 DEF Owned

\* A file starts, ends, and fails.
LEMMA IncludeOwned ==
  ASSUME NEW r, NEW t, NEW v, NEW L, Owned(1, r, t, v, L), ViewOK(v), r.kind = "chunk",
         NEW r2, SameVm(r, r2), NEW m, m = Len(v.modules) + 1,
         NEW t2, t2.kind = "include", t2.module = m, t2.code = m,
         t2.start.module = r.module, t2.start.mods = Len(v.mods),
         NEW w, w.classes = v.classes, w.functions = v.functions, Longer(v.mods, w.mods, m),
         NEW x, x.refs = 1, w.modules = Append(v.modules, x)
  PROVE  Owned(2, r2, t2, w, L)
<1>0. r2.kind = r.kind /\ r2.module = r.module /\ r2.code = r.code /\ r2.start = r.start
  BY DEF SameVm
<1>1. Holding(v, L) /\ Fresh(1, r, t, v, L) /\ Placed(1, r, t, v) /\ Balanced(1, r, t, v, L)
      /\ Unleaked(1, r, v, L)
  BY DEF Owned
<1>2. PICK k : k = Len(v.modules) /\ k \in Nat /\ m = k + 1
  BY ViewsAre
<1>3. Len(w.modules) = k + 1 /\ w.modules[k + 1] = x /\ \A i \in 1 .. k : w.modules[i] = v.modules[i]
  <2>1. IsSeq(v.modules)
    BY ViewsAre
  <2> QED  BY <1>2, <2>1, AppendIs
<1>4. \A i : i \in 1 .. k + 1 <=> i \in 1 .. k \/ i = k + 1
  BY <1>2
<1>5. m \notin 1 .. k /\ m \notin Items(v.mods) /\ Owners(v, L, m) = 0 /\ \A c \in L : ModuleOf(c) # m
  BY <1>1, <1>2, NoOwner
<1>6. Items(w.mods) = Items(v.mods) \cup {m} /\ \A i : Times(w.mods, i) = Times(v.mods, i) + One(m = i)
  <2>1. IsSeq(v.mods)
    BY ViewsAre
  <2> QED  BY <2>1, LongerIs
<1>7. Codes(1, r, t) = {r.code} /\ Codes(2, r2, t2) = {r.code, m}
  BY <1>0 DEF Codes
<1>8. r.code \in 1 .. k /\ r.module \in 1 .. k
  BY <1>1, <1>2, <1>7 DEF Placed
<1>9. Holding(w, L)
  BY <1>1, <1>2, <1>3, <1>4 DEF Holding
<1>10. Fresh(2, r2, t2, w, L)
  BY <1>1, <1>5, <1>7 DEF Fresh
<1>11. Placed(2, r2, t2, w)
  <2>1. r.module \in Items(w.mods) => \E i \in 1 .. t2.start.mods : w.mods[i] = r.module
    <3>1. r.module \in Items(w.mods) => r.module \in Items(v.mods)
      BY <1>5, <1>6, <1>8
    <3>2. \A i \in 1 .. Len(v.mods) : w.mods[i] = v.mods[i]
      BY DEF Longer
    <3> QED  BY <3>1, <3>2 DEF Items
  <2>2. Codes(2, r2, t2) \subseteq 1 .. Len(w.modules) /\ r2.module \in 1 .. Len(w.modules)
    BY <1>0, <1>2, <1>3, <1>4, <1>7, <1>8
  <2> QED  BY <1>0, <1>2, <1>3, <1>4, <1>6, <2>1, <2>2 DEF Placed
<1>12. Balanced(2, r2, t2, w, L)
  <2> SUFFICES ASSUME NEW i \in 1 .. k + 1
               PROVE  w.modules[i].refs = Owners(w, L, i) + One(Runs(r2, w, i)) + One(Calls(2, t2, i))
    BY <1>3 DEF Balanced
  <2>1. /\ Times(v.mods, i) \in Nat /\ Cardinality(ClassesOf(L, i)) \in Nat
        /\ Times(ModulesOfFunctions(v.functions), i) \in Nat /\ Owners(v, L, i) \in Nat
    BY <1>1, OwnersType
  <2>2. Owners(w, L, i) = Owners(v, L, i) + One(m = i)
    <3>1. One(m = i) \in {0, 1}
      BY OneType
    <3> QED  BY <1>6, <2>1, <3>1 DEF Owners
  <2>3. ~Calls(2, t2, i) /\ One(Calls(2, t2, i)) = 0
    <3>1. ~Calls(2, t2, i)
      BY DEF Calls
    <3> QED  BY <3>1, OneType
  <2>4. CASE i \in 1 .. k
    <3>1. v.modules[i].refs = Owners(v, L, i) + One(Runs(r, v, i)) + One(Calls(1, t, i))
      BY <1>1, <1>2, <2>4 DEF Balanced
    <3>2. i # m /\ Runs(r2, w, i) = Runs(r, v, i) /\ ~Calls(1, t, i)
      BY <1>0, <1>5, <1>6, <2>4 DEF Runs, Calls
    <3>3. One(Calls(1, t, i)) = 0 /\ One(m = i) = 0 /\ One(Runs(r, v, i)) \in {0, 1}
      BY <3>2, OneType
    <3>4. w.modules[i] = v.modules[i]
      BY <1>3, <2>4
    <3> QED  BY ONLY <2>1, <2>2, <2>3, <3>1, <3>2, <3>3, <3>4
  <2>5. CASE i = k + 1
    <3>1. ~Runs(r2, w, i) /\ i = m
      BY <1>2, <1>6, <2>5 DEF Runs
    <3>2. One(Runs(r2, w, i)) = 0 /\ One(m = i) = 1
      BY <3>1, OneType
    <3>3. Owners(v, L, i) = 0 /\ w.modules[i].refs = 1
      BY <1>3, <1>5, <2>5, <3>1
    <3> QED  BY ONLY <2>2, <2>3, <3>2, <3>3
  <2> QED  BY <1>4, <2>4, <2>5
<1>13. Unleaked(2, r2, w, L)
  BY <1>0, <1>1 DEF Unleaked
<1> QED  BY <1>9, <1>10, <1>11, <1>12, <1>13 DEF Owned

LEMMA IncludedOwned ==
  ASSUME NEW r, NEW t, NEW v, NEW L, Owned(2, r, t, v, L), Stacked(2, r, t), t.kind = "include",
         NEW r2, SameVm(r, r2)
  PROVE  Owned(1, r2, r2, v, L)
<1>0. r2.kind = r.kind /\ r2.module = r.module /\ r2.code = r.code /\ r2.start = r.start
  BY DEF SameVm
<1>1. Holding(v, L) /\ Fresh(2, r, t, v, L) /\ Placed(2, r, t, v) /\ Balanced(2, r, t, v, L)
      /\ Unleaked(2, r, v, L)
  BY DEF Owned
<1>2. Codes(1, r2, r2) \subseteq Codes(2, r, t)
  BY <1>0 DEF Codes
<1>3. Fresh(1, r2, r2, v, L)
  BY <1>1, <1>2 DEF Fresh
<1>4. Placed(1, r2, r2, v)
  BY <1>0, <1>1, <1>2 DEF Placed
<1>5. Balanced(1, r2, r2, v, L)
  <2> SUFFICES ASSUME NEW m \in 1 .. Len(v.modules)
               PROVE  v.modules[m].refs = Owners(v, L, m) + One(Runs(r2, v, m)) + One(Calls(1, r2, m))
    BY DEF Balanced
  <2>1. v.modules[m].refs = Owners(v, L, m) + One(Runs(r, v, m)) + One(Calls(2, t, m))
    BY <1>1 DEF Balanced
  <2>2. Runs(r2, v, m) = Runs(r, v, m) /\ Calls(2, t, m) = FALSE /\ Calls(1, r2, m) = FALSE
    BY <1>0 DEF Runs, Calls
  <2> QED  BY ONLY <2>1, <2>2
<1>6. Unleaked(1, r2, v, L)
  BY <1>0, <1>1 DEF Unleaked
<1> QED  BY <1>1, <1>3, <1>4, <1>5, <1>6 DEF Owned

LEMMA IncludeFailedOwned ==
  ASSUME NEW r, NEW t, NEW v, NEW L, Owned(2, r, t, v, L), Stacked(2, r, t), t.kind = "include",
         NEW r2, SameVm(r, r2), NEW t2, t2.kind = "rollback", t2.module = t.module, t2.code = t.code,
         t2.start.module = t.start.module, t2.start.mods = t.start.mods,
         t2.start.class_end = Len(v.classes)
  PROVE  Owned(2, r2, t2, v, L)
<1>0. r2.kind = r.kind /\ r2.module = r.module /\ r2.code = r.code /\ r2.start = r.start
  BY DEF SameVm
<1>1. Holding(v, L) /\ Fresh(2, r, t, v, L) /\ Placed(2, r, t, v) /\ Balanced(2, r, t, v, L)
      /\ Unleaked(2, r, v, L)
  BY DEF Owned
<1>2. Codes(2, r2, t2) = Codes(2, r, t)
  BY <1>0 DEF Codes
<1>3. Fresh(2, r2, t2, v, L)
  BY <1>1, <1>2 DEF Fresh
<1>4. Placed(2, r2, t2, v)
  BY <1>0, <1>1, <1>2 DEF Placed
<1>5. Balanced(2, r2, t2, v, L)
  <2> SUFFICES ASSUME NEW m \in 1 .. Len(v.modules)
               PROVE  v.modules[m].refs = Owners(v, L, m) + One(Runs(r2, v, m)) + One(Calls(2, t2, m))
    BY DEF Balanced
  <2>1. v.modules[m].refs = Owners(v, L, m) + One(Runs(r, v, m)) + One(Calls(2, t, m))
    BY <1>1 DEF Balanced
  <2>2. Runs(r2, v, m) = Runs(r, v, m) /\ Calls(2, t, m) = FALSE /\ Calls(2, t2, m) = FALSE
    BY <1>0 DEF Runs, Calls
  <2> QED  BY ONLY <2>1, <2>2
<1>6. Unleaked(2, r2, v, L)
  BY <1>0, <1>1 DEF Unleaked
<1> QED  BY <1>1, <1>3, <1>4, <1>5, <1>6 DEF Owned

\* The chunk failed.
LEMMA ChunkFailedOwned ==
  ASSUME NEW r, NEW v, NEW L, Owned(1, r, r, v, L), r.kind = "chunk", ViewOK(v),
         NEW r2, r2.kind = "rollback", r2.module = r.module, r2.code = r.code,
         r2.start.classes = r.start.classes, r2.start.class_end = Len(v.classes),
         r.start.classes \in 0 .. Len(v.classes)
  PROVE  Owned(1, r2, r2, v, L)
<1>1. Holding(v, L) /\ Fresh(1, r, r, v, L) /\ Placed(1, r, r, v) /\ Balanced(1, r, r, v, L)
      /\ Unleaked(1, r, v, L)
  BY DEF Owned
<1>2. Codes(1, r2, r2) = Codes(1, r, r)
  BY DEF Codes
<1>3. Fresh(1, r2, r2, v, L)
  BY <1>1, <1>2 DEF Fresh
<1>4. Placed(1, r2, r2, v)
  <2>1. Len(v.classes) \in Nat
    BY ViewsAre
  <2>2. r2.start.class_end \in r2.start.classes .. Len(v.classes)
    BY <2>1
  <2> QED  BY <1>1, <1>2, <2>2 DEF Placed
<1>5. Balanced(1, r2, r2, v, L)
  <2> SUFFICES ASSUME NEW m \in 1 .. Len(v.modules)
               PROVE  v.modules[m].refs = Owners(v, L, m) + One(Runs(r2, v, m)) + One(Calls(1, r2, m))
    BY DEF Balanced
  <2>1. v.modules[m].refs = Owners(v, L, m) + One(Runs(r, v, m)) + One(Calls(1, r, m))
    BY <1>1 DEF Balanced
  <2>2. Runs(r2, v, m) = Runs(r, v, m) /\ Calls(1, r, m) = FALSE /\ Calls(1, r2, m) = FALSE
    BY DEF Runs, Calls
  <2> QED  BY ONLY <2>1, <2>2
<1>6. Unleaked(1, r2, v, L)
  BY <1>1 DEF Unleaked
<1> QED  BY <1>1, <1>3, <1>4, <1>5, <1>6 DEF Owned

LEMMA TimesSame ==
  ASSUME NEW a, IsSeq(a), NEW b, IsSeq(b), Len(a) = Len(b), \A i \in 1 .. Len(a) : a[i] = b[i], NEW m
  PROVE  Times(a, m) = Times(b, m)
<1>1. DOMAIN a = 1 .. Len(a) /\ DOMAIN b = 1 .. Len(a)
  BY SeqIs
<1>2. Places(a, m) = Places(b, m)
  BY <1>1 DEF Places
<1> QED  BY <1>2 DEF Times

LEMMA FunctionsSplit ==
  ASSUME NEW F, IsSeq(F), NEW k \in 0 .. Len(F), NEW G, Cut(G, k, F), NEW m
  PROVE  Times(ModulesOfFunctions(F), m)
           = Times(ModulesOfFunctions(G), m) + Times(ModulesOfFunctions(SubSeq(F, k + 1, Len(F))), m)
<1>1. PICK n, H : n = Len(F) /\ H = SubSeq(F, k + 1, n)
  OBVIOUS
<1>2. n \in Nat /\ k \in Nat /\ k <= n /\ n \in k .. Len(F)
  BY <1>1, SeqIs
<1>3. IsSeq(H) /\ Len(H) = n - k /\ \A i \in 1 .. n - k : H[i] = F[k + i]
  BY <1>1, <1>2, MiddleIs
<1>4. IsSeq(G) /\ Len(G) = k /\ \A i \in 1 .. k : G[i] = F[i]
  BY DEF Cut
<1>5. PICK a, b, c : a = ModulesOfFunctions(F) /\ b = ModulesOfFunctions(G) /\ c = ModulesOfFunctions(H)
  OBVIOUS
<1>6. IsSeq(a) /\ Len(a) = n /\ \A i \in 1 .. n : a[i] = F[i].module
  BY <1>1, <1>5, FunctionsOwn
<1>7. IsSeq(b) /\ Len(b) = k /\ \A i \in 1 .. k : b[i] = G[i].module
  BY <1>4, <1>5, FunctionsOwn
<1>8. IsSeq(c) /\ Len(c) = n - k /\ \A i \in 1 .. n - k : c[i] = H[i].module
  BY <1>3, <1>5, FunctionsOwn
<1>9. Cut(b, k, a)
  <2>1. \A i \in 1 .. k : b[i] = a[i]
    BY <1>2, <1>4, <1>6, <1>7
  <2> QED  BY <1>7, <2>1 DEF Cut
<1>10. Times(a, m) = Times(b, m) + Times(SubSeq(a, k + 1, n), m)
  <2>1. k \in 0 .. Len(a) /\ Len(a) = n
    BY <1>2, <1>6
  <2> QED  BY <1>6, <1>9, <2>1, TimesSplit
<1>11. Times(SubSeq(a, k + 1, n), m) = Times(c, m)
  <2>1. PICK d : d = SubSeq(a, k + 1, n)
    OBVIOUS
  <2>2. k \in 0 .. Len(a) /\ n \in k .. Len(a)
    BY <1>2, <1>6
  <2>3. IsSeq(d) /\ Len(d) = n - k /\ \A i \in 1 .. n - k : d[i] = a[k + i]
    BY <1>6, <2>1, <2>2, MiddleIs
  <2>4. \A i \in 1 .. n - k : k + i \in 1 .. n
    BY <1>2
  <2>5. \A i \in 1 .. n - k : d[i] = c[i]
    BY <1>3, <1>6, <1>8, <2>3, <2>4
  <2>6. Times(d, m) = Times(c, m)
    BY <1>8, <2>3, <2>5, TimesSame
  <2> QED  BY <2>1, <2>6
<1> QED  BY <1>1, <1>5, <1>10, <1>11

LEMMA ReleasedThrice ==
  ASSUME NEW M, ModuleRecords(M), NEW a, NEW b, NEW c,
         NEW N, N = ReleaseEach(ReleaseEach(ReleaseEach(M, a), b), c)
  PROVE  /\ Len(N) = Len(M) /\ ModuleRecords(N)
         /\ \A m \in 1 .. Len(M) : N[m].refs = ((M[m].refs - Times(a, m)) - Times(b, m)) - Times(c, m)
<1>1. PICK A, B : A = ReleaseEach(M, a) /\ B = ReleaseEach(A, b)
  OBVIOUS
<1>2. Len(A) = Len(M) /\ ModuleRecords(A)
  BY <1>1, CountsSame
<1>3. Len(B) = Len(M) /\ ModuleRecords(B)
  BY <1>1, <1>2, CountsSame
<1>4. Len(N) = Len(M) /\ ModuleRecords(N) /\ N = ReleaseEach(B, c)
  <2>1. N = ReleaseEach(B, c)
    BY <1>1
  <2> QED  BY <1>3, <2>1, CountsSame
<1>5. ASSUME NEW m \in 1 .. Len(M)
      PROVE  N[m].refs = ((M[m].refs - Times(a, m)) - Times(b, m)) - Times(c, m)
  <2>1. A[m].refs = M[m].refs - Times(a, m)
    BY <1>1, ReleasedIs
  <2>2. B[m].refs = A[m].refs - Times(b, m)
    BY <1>1, <1>2, ReleasedIs
  <2>3. N[m].refs = B[m].refs - Times(c, m)
    BY <1>3, <1>4, ReleasedIs
  <2> QED  BY <2>1, <2>2, <2>3
<1> QED  BY <1>4, <1>5

\* The classes a rollback drops, and those it leaves.
LEMMA DroppedAre ==
  ASSUME NEW v, ViewOK(v), NEW s, s.classes \in 0 .. Len(v.classes),
         s.class_end \in s.classes .. Len(v.classes), NEW c, Cut(c, s.classes, v.classes)
  PROVE  /\ IsSeq(Dropped(v, s))
         /\ \A i, j \in 1 .. Len(Dropped(v, s)) : Dropped(v, s)[i] = Dropped(v, s)[j] => i = j
         /\ Items(Dropped(v, s)) \subseteq Items(v.classes) /\ Items(c) \subseteq Items(v.classes)
         /\ Items(c) \cap Items(Dropped(v, s)) = {}
         /\ s.class_end = Len(v.classes) => Items(v.classes) \subseteq Items(c) \cup Items(Dropped(v, s))
<1>1. PICK n, k, e, D : n = Len(v.classes) /\ k = s.classes /\ e = s.class_end /\ D = Dropped(v, s)
  OBVIOUS
<1>2. n \in Nat /\ k \in Nat /\ e \in Nat /\ k <= e /\ e <= n
  BY <1>1, ViewsAre
<1>3. IsSeq(D) /\ Len(D) = e - k /\ \A i \in 1 .. e - k : D[i] = v.classes[k + i]
  <2>1. IsSeq(v.classes)
    BY ViewsAre
  <2> QED  BY <1>1, <2>1, MiddleIs DEF Dropped
<1>4. \A i, j \in 1 .. n : v.classes[i] = v.classes[j] => i = j
  BY <1>1 DEF ViewOK
<1>5. \A i \in 1 .. e - k : k + i \in 1 .. n /\ k + i \notin 1 .. k
  BY <1>2
<1>6. Len(c) = k /\ \A i \in 1 .. k : c[i] = v.classes[i] /\ i \in 1 .. n
  BY <1>1, <1>2 DEF Cut
<1>7. \A i, j \in 1 .. e - k : D[i] = D[j] => i = j
  <2> SUFFICES ASSUME NEW i \in 1 .. e - k, NEW j \in 1 .. e - k, D[i] = D[j] PROVE i = j
    OBVIOUS
  <2>1. k + i = k + j
    BY <1>3, <1>4, <1>5
  <2> QED  BY <1>2, <2>1
<1>8. Items(D) \subseteq Items(v.classes) /\ Items(c) \subseteq Items(v.classes)
  <2>1. \A i \in 1 .. e - k : D[i] \in {v.classes[j] : j \in 1 .. n}
    BY <1>3, <1>5
  <2>2. \A i \in 1 .. k : c[i] \in {v.classes[j] : j \in 1 .. n}
    BY <1>6
  <2>3. Items(v.classes) = {v.classes[j] : j \in 1 .. n}
    BY <1>1 DEF Items
  <2> QED  BY <1>3, <1>6, <2>1, <2>2, <2>3 DEF Items
<1>9. Items(c) \cap Items(D) = {}
  <2> SUFFICES ASSUME NEW i \in 1 .. k, NEW j \in 1 .. e - k, c[i] = D[j] PROVE FALSE
    BY <1>3, <1>6 DEF Items
  <2>1. i = k + j
    BY <1>3, <1>4, <1>5, <1>6
  <2> QED  BY <1>5, <2>1
<1>10. ASSUME e = n PROVE Items(v.classes) \subseteq Items(c) \cup Items(D)
  <2> SUFFICES ASSUME NEW i \in 1 .. n PROVE v.classes[i] \in Items(c) \cup Items(D)
    BY <1>1 DEF Items
  <2>1. CASE i \in 1 .. k
    BY <1>6, <2>1 DEF Items
  <2>2. CASE i \notin 1 .. k
    <3>1. i - k \in 1 .. e - k /\ k + (i - k) = i
      BY <1>2, <1>10, <2>2
    <3>2. D[i - k] = v.classes[i]
      BY <1>3, <3>1
    <3> QED  BY <1>3, <3>1, <3>2 DEF Items
  <2> QED  BY <2>1, <2>2
<1> QED  BY <1>1, <1>3, <1>7, <1>8, <1>9, <1>10

\* A rollback ends.
LEMMA RollbackOwned ==
  ASSUME NEW n, NEW r, NEW t, NEW v, NEW L, Owned(n, r, t, v, L), Stacked(n, r, t), ViewOK(v),
         t.kind = "rollback", NEW s, s = t.start, Point(v, s),
         NEW r2, r2.kind = (IF n = 1 THEN "idle" ELSE r.kind), r2.code = r.code, r2.module = s.module,
         NEW w, BackAt(v, w, s), NEW K, K = L \ ToSet(Dropped(v, s)),
         w.modules = IF n = 1 /\ t.module \notin ToSet(v.mods) THEN pmodule_release(Left(v, s), t.module)
                     ELSE Left(v, s)
  PROVE  Owned(1, r2, r2, w, K)
<1>1. Holding(v, L) /\ Fresh(n, r, t, v, L) /\ Placed(n, r, t, v) /\ Balanced(n, r, t, v, L)
      /\ Unleaked(n, r, v, L)
  BY DEF Owned
<1>2. (n = 1 /\ t = r /\ r.kind = "rollback") \/ (n = 2 /\ r.kind = "chunk" /\ s.class_end = Len(v.classes))
  BY <1>1 DEF Stacked, Placed
<1>3. s.classes \in 0 .. Len(v.classes) /\ s.functions \in 0 .. Len(v.functions) /\ s.mods \in 0 .. Len(v.mods)
  BY DEF Point
<1>4. s.class_end \in s.classes .. Len(v.classes)
  <2>1. Len(v.classes) \in Nat
    BY ViewsAre
  <2>2. CASE n = 1
    BY <1>1, <1>2, <2>2 DEF Placed
  <2>3. CASE n = 2
    BY <1>2, <1>3, <2>1, <2>3
  <2> QED  BY <1>2, <2>2, <2>3
<1>5. Cut(w.classes, s.classes, v.classes) /\ Cut(w.functions, s.functions, v.functions)
      /\ Cut(w.mods, s.mods, v.mods)
  BY DEF BackAt
<1>6. PICK D : D = Dropped(v, s)
  OBVIOUS
<1>7. /\ IsSeq(D) /\ \A i, j \in 1 .. Len(D) : D[i] = D[j] => i = j
      /\ Items(D) \subseteq Items(v.classes) /\ Items(w.classes) \subseteq Items(v.classes)
      /\ Items(w.classes) \cap Items(D) = {}
      /\ s.class_end = Len(v.classes) => Items(v.classes) \subseteq Items(w.classes) \cup Items(D)
  <2>1. /\ IsSeq(Dropped(v, s))
        /\ \A i, j \in 1 .. Len(Dropped(v, s)) : Dropped(v, s)[i] = Dropped(v, s)[j] => i = j
        /\ Items(Dropped(v, s)) \subseteq Items(v.classes) /\ Items(w.classes) \subseteq Items(v.classes)
        /\ Items(w.classes) \cap Items(Dropped(v, s)) = {}
        /\ s.class_end = Len(v.classes) =>
             Items(v.classes) \subseteq Items(w.classes) \cup Items(Dropped(v, s))
    BY <1>3, <1>4, <1>5, DroppedAre, Zenon
  <2> QED  BY ONLY <1>6, <2>1
<1>8. K = L \ Items(D)
  BY <1>6, <1>7, ToSetIs
<1>9. PICK M : M = Left(v, s)
  OBVIOUS
<1>10. /\ Len(M) = Len(v.modules) /\ ModuleRecords(M)
       /\ \A m \in 1 .. Len(v.modules) :
            M[m].refs = ((v.modules[m].refs - Times(ModulesOfClasses(D), m))
                          - Times(ModulesOfFunctions(Gone(v, s)), m)) - Times(Unlisted(v, s), m)
  <2>1. M = ReleaseEach(ReleaseEach(ReleaseEach(v.modules, ModulesOfClasses(D)),
                                    ModulesOfFunctions(Gone(v, s))), Unlisted(v, s))
    BY <1>6, <1>9 DEF Left
  <2>2. ModuleRecords(v.modules)
    BY ViewsAre
  <2> QED  BY ONLY <2>1, <2>2, ReleasedThrice
<1>11. Len(w.modules) = Len(v.modules)
  <2>1. w.modules = pmodule_release(M, t.module) \/ w.modules = M
    BY <1>9
  <2> QED  BY <1>10, <2>1, CountsSame
<1>12. Holding(w, K)
  <2>1. IsFiniteSet(K) /\ K \subseteq L
    BY <1>1, <1>8, FS_Subset DEF Holding
  <2>2. Items(w.classes) \subseteq K
    BY <1>1, <1>7, <1>8 DEF Holding
  <2>3. \A i \in 1 .. Len(w.functions) : w.functions[i].module \in 1 .. Len(v.modules)
    <3>1. Len(v.functions) \in Nat
      BY ViewsAre
    <3>2. \A i \in 1 .. Len(w.functions) : w.functions[i] = v.functions[i] /\ i \in 1 .. Len(v.functions)
      BY <1>3, <1>5, <3>1 DEF Cut
    <3> QED  BY <1>1, <3>2 DEF Holding
  <2> QED  BY <1>1, <1>11, <2>1, <2>2, <2>3 DEF Holding
<1>13. Fresh(1, r2, r2, w, K)
  <2>1. CASE n = 1
    <3>1. Codes(1, r2, r2) = {}
      BY <2>1 DEF Codes
    <3> QED  BY <3>1 DEF Fresh
  <2>2. CASE n = 2
    <3>1. Codes(1, r2, r2) \subseteq Codes(n, r, t)
      BY <2>2 DEF Codes
    <3>2. \A x \in K : x \in Items(v.classes) => x \in Items(w.classes)
      BY <1>2, <1>7, <1>8, <2>2
    <3> QED  BY <1>1, <1>8, <3>1, <3>2 DEF Fresh
  <2> QED  BY <1>2, <2>1, <2>2
<1>14. Placed(1, r2, r2, w)
  <2>1. CASE n = 1
    <3>1. Codes(1, r2, r2) = {}
      BY <2>1 DEF Codes
    <3> QED  BY <2>1, <3>1 DEF Placed
  <2>2. CASE n = 2
    <3>1. Codes(1, r2, r2) \subseteq Codes(n, r, t) /\ r2.kind = "chunk"
      BY <1>2, <2>2 DEF Codes
    <3>2. r2.module = r.module /\ r.module \in 1 .. Len(v.modules)
      BY <1>1, <1>2, <2>2 DEF Placed
    <3> QED  BY <1>1, <1>11, <3>1, <3>2 DEF Placed
  <2> QED  BY <1>2, <2>1, <2>2
<1>15. Balanced(1, r2, r2, w, K)
  <2> SUFFICES ASSUME NEW m \in 1 .. Len(v.modules)
               PROVE  w.modules[m].refs = Owners(w, K, m) + One(Runs(r2, w, m)) + One(Calls(1, r2, m))
    BY <1>11 DEF Balanced
  <2>1. v.modules[m].refs = Owners(v, L, m) + One(Runs(r, v, m)) + One(Calls(n, t, m))
    BY <1>1 DEF Balanced
  <2>2. Calls(n, t, m) = FALSE /\ Calls(1, r2, m) = FALSE
    BY DEF Calls
  <2>3. One(Calls(n, t, m)) = 0 /\ One(Calls(1, r2, m)) = 0
    BY <2>2 DEF One
  <2>4. Times(v.mods, m) = Times(w.mods, m) + Times(Unlisted(v, s), m)
    <3>1. IsSeq(v.mods)
      BY ViewsAre
    <3> QED  BY <1>3, <1>5, <3>1, TimesSplit DEF Unlisted
  <2>5. Times(ModulesOfFunctions(v.functions), m)
          = Times(ModulesOfFunctions(w.functions), m) + Times(ModulesOfFunctions(Gone(v, s)), m)
    <3>1. IsSeq(v.functions)
      BY ViewsAre
    <3> QED  BY <1>3, <1>5, <3>1, FunctionsSplit DEF Gone
  <2>6. Cardinality(ClassesOf(L, m)) = Cardinality(ClassesOf(K, m)) + Times(ModulesOfClasses(D), m)
    <3>1. Items(D) \subseteq L /\ IsFiniteSet(L)
      BY <1>1, <1>7 DEF Holding
    <3> QED  BY <1>7, <1>8, <3>1, ClassesLess
  <2>7. /\ Times(w.mods, m) \in Nat /\ Times(ModulesOfFunctions(w.functions), m) \in Nat
        /\ Cardinality(ClassesOf(K, m)) \in Nat
    <3>1. IsSeq(w.mods) /\ IsSeq(ModulesOfFunctions(w.functions))
      BY <1>5, FunctionsOwn DEF Cut
    <3> QED  BY <1>12, <3>1, TimesType, ClassesType DEF Holding
  <2>8. /\ Times(v.mods, m) \in Nat /\ Times(ModulesOfFunctions(v.functions), m) \in Nat
        /\ Cardinality(ClassesOf(L, m)) \in Nat
    BY <1>1, OwnersType
  <2>9. PICK a1, a2, b1, b2, c1, c2, x, y, z :
          /\ a1 = Times(v.mods, m) /\ a2 = Times(w.mods, m) /\ x = Times(Unlisted(v, s), m)
          /\ b1 = Times(ModulesOfFunctions(v.functions), m) /\ b2 = Times(ModulesOfFunctions(w.functions), m)
          /\ y = Times(ModulesOfFunctions(Gone(v, s)), m)
          /\ c1 = Cardinality(ClassesOf(L, m)) /\ c2 = Cardinality(ClassesOf(K, m))
          /\ z = Times(ModulesOfClasses(D), m)
    OBVIOUS
  <2>10. x \in Nat /\ y \in Nat /\ z \in Nat
    <3>1. IsSeq(Unlisted(v, s))
      <4>1. IsSeq(v.mods) /\ Len(v.mods) \in Nat
        BY ViewsAre
      <4>2. Len(v.mods) \in s.mods .. Len(v.mods)
        BY <1>3, <4>1
      <4> QED  BY <1>3, <4>1, <4>2, MiddleIs DEF Unlisted
    <3>2. IsSeq(ModulesOfFunctions(Gone(v, s)))
      <4>1. IsSeq(v.functions) /\ Len(v.functions) \in Nat
        BY ViewsAre
      <4>2. Len(v.functions) \in s.functions .. Len(v.functions)
        BY <1>3, <4>1
      <4>3. IsSeq(Gone(v, s))
        BY <1>3, <4>1, <4>2, MiddleIs DEF Gone
      <4> QED  BY <4>3, FunctionsOwn
    <3>3. IsSeq(ModulesOfClasses(D))
      BY <1>7, ClassesOwn
    <3> QED  BY <2>9, <3>1, <3>2, <3>3, TimesType
  <2>11. Owners(v, L, m) = a1 + b1 + c1 /\ Owners(w, K, m) = a2 + b2 + c2
    BY <2>9 DEF Owners
  <2>12. /\ a1 \in Nat /\ a2 \in Nat /\ b1 \in Nat /\ b2 \in Nat /\ c1 \in Nat /\ c2 \in Nat
         /\ a1 = a2 + x /\ b1 = b2 + y /\ c1 = c2 + z
    BY <2>4, <2>5, <2>6, <2>7, <2>8, <2>9
  <2>13. M[m].refs = ((v.modules[m].refs - z) - y) - x
    BY <1>10, <2>9
  <2>14. One(Runs(r, v, m)) \in {0, 1}
    BY OneType
  <2>15. M[m].refs = Owners(w, K, m) + One(Runs(r, v, m)) /\ M[m].refs \in Int
    BY ONLY <2>1, <2>3, <2>10, <2>11, <2>12, <2>13, <2>14
  <2>16. ToSet(v.mods) = Items(v.mods)
    BY ViewsAre, ToSetIs
  <2>17. CASE n = 1 /\ t.module \notin ToSet(v.mods)
    <3>1. w.modules = pmodule_release(M, t.module)
      BY <1>9, <2>17
    <3>2. w.modules[m].refs = M[m].refs - One(t.module = m)
      <4>1. m \in 1 .. Len(M) /\ ModuleRecords(M) /\ M[m].refs \in Int
        BY <1>10, <2>15
      <4>2. pmodule_release(M, t.module)[m].refs = M[m].refs - One(t.module = m)
        BY ONLY <4>1, RetainedIs
      <4> QED  BY <3>1, <4>2
    <3>3. Runs(r, v, m) = (t.module = m) /\ Runs(r2, w, m) = FALSE
      BY <1>2, <2>16, <2>17 DEF Runs
    <3>4. One(Runs(r2, w, m)) = 0
      BY <3>3 DEF One
    <3>5. Owners(w, K, m) \in Nat
      BY <2>11, <2>12
    <3> QED  BY ONLY <2>3, <2>14, <2>15, <3>2, <3>3, <3>4, <3>5
  <2>18. CASE ~(n = 1 /\ t.module \notin ToSet(v.mods))
    <3>1. w.modules = M
      BY <1>9, <2>18
    <3>2. Runs(r, v, m) = Runs(r2, w, m)
      <4>1. CASE n = 1
        BY <1>2, <2>16, <2>18, <4>1 DEF Runs
      <4>2. CASE n = 2
        <5>1. r2.kind = r.kind /\ r2.module = r.module
          BY <1>1, <1>2, <4>2 DEF Placed
        <5>2. \A i \in 1 .. s.mods : w.mods[i] = v.mods[i] /\ i \in 1 .. Len(v.mods) /\ i \in 1 .. Len(w.mods)
          <6>1. Len(v.mods) \in Nat
            BY ViewsAre
          <6> QED  BY <1>3, <1>5, <6>1 DEF Cut
        <5>3. Len(w.mods) = s.mods
          BY <1>5 DEF Cut
        <5>4. Items(w.mods) \subseteq Items(v.mods)
          BY <5>2, <5>3 DEF Items
        <5>5. r.module \in Items(v.mods) => r.module \in Items(w.mods)
          <6>1. r.module \in Items(v.mods) => \E i \in 1 .. s.mods : v.mods[i] = r.module
            BY <1>1, <4>2 DEF Placed
          <6> QED  BY <5>2, <5>3, <6>1 DEF Items
        <5> QED  BY <5>1, <5>4, <5>5 DEF Runs
      <4> QED  BY <1>2, <4>1, <4>2
    <3>3. Owners(w, K, m) \in Nat
      BY <2>11, <2>12
    <3> QED  BY ONLY <2>3, <2>14, <2>15, <3>1, <3>2, <3>3
  <2> QED  BY <2>17, <2>18
<1>16. Unleaked(1, r2, w, K)
  <2> SUFFICES ASSUME "destructor" \notin Kinds PROVE K \subseteq Items(w.classes) /\ r2.kind # "rollback"
    BY DEF Unleaked
  <2>1. L \subseteq Items(v.classes) /\ s.class_end = Len(v.classes)
    BY <1>1, <1>2 DEF Unleaked
  <2> QED  BY <1>2, <1>7, <1>8, <2>1
<1> QED  BY <1>12, <1>13, <1>14, <1>15, <1>16 DEF Owned

\* The classes that go when a table is compacted.
LEMMA ClearedAre ==
  ASSUME NEW v, ViewOK(v), NEW w, NEW S, NEW d, Cleared(v, w, S, d)
  PROVE  /\ IsSeq(d) /\ \A i, j \in 1 .. Len(d) : d[i] = d[j] => i = j
         /\ IsSeq(w.classes) /\ Items(w.classes) = Items(v.classes) \ Items(d)
         /\ Items(d) \subseteq Items(v.classes)
<1>1. /\ Compact(v.classes, Len(v.classes), S, w.classes)
      /\ Compact(v.classes, Len(v.classes), Items(v.classes) \ S, d)
  BY DEF Cleared
<1>2. \A i, j \in 1 .. Len(v.classes) : v.classes[i] = v.classes[j] => i = j
  BY DEF ViewOK
<1>3. IsSeq(d) /\ \A i, j \in 1 .. Len(d) : d[i] = d[j] => i = j
  BY <1>1, <1>2 DEF Compact
<1>4. Items(d) = Items(v.classes) \cap (Items(v.classes) \ S)
  BY <1>1 DEF Compact, Items
<1>5. Items(w.classes) = Items(v.classes) \cap S /\ IsSeq(w.classes)
  BY <1>1 DEF Compact, Items
<1>6. Items(w.classes) = Items(v.classes) \ Items(d) /\ Items(d) \subseteq Items(v.classes)
  BY <1>4, <1>5
<1> QED  BY <1>3, <1>5, <1>6

\* Module m lost the classes that are not in K, and no other owner.
Less(v, L, K, M, m) ==
  /\ Cardinality(ClassesOf(K, m)) \in Nat
  /\ \A k \in {0, 1} :
       v.modules[m].refs = Owners(v, L, m) + k =>
         M[m].refs = Times(v.mods, m) + Times(ModulesOfFunctions(v.functions), m)
                       + Cardinality(ClassesOf(K, m)) + k

\* Without the classes of d, w has the other classes, K is left of L and the
\* modules are M.
Without(v, L, w, d, K, M) ==
  /\ IsFiniteSet(K) /\ K \subseteq L /\ K = L \ Items(d) /\ Items(w.classes) \subseteq K
  /\ Items(w.classes) = Items(v.classes) \ Items(d)
  /\ Len(M) = Len(v.modules) /\ ModuleRecords(M)
  /\ \A m \in 1 .. Len(v.modules) : Less(v, L, K, M, m)

\* Every owner but a class stays; the classes of d go.
LEMMA ClearedCounts ==
  ASSUME NEW v, ViewOK(v), NEW L, Holding(v, L), NEW w, NEW S, NEW d, Cleared(v, w, S, d),
         NEW K, K = L \ ToSet(d), NEW M, M = ReleaseEach(v.modules, ModulesOfClasses(d))
  PROVE  Without(v, L, w, d, K, M)
<1>1. /\ IsSeq(d) /\ \A i, j \in 1 .. Len(d) : d[i] = d[j] => i = j
      /\ IsSeq(w.classes) /\ Items(w.classes) = Items(v.classes) \ Items(d)
      /\ Items(d) \subseteq Items(v.classes)
  BY ClearedAre
<1>2. K = L \ Items(d) /\ K \subseteq L
  BY <1>1, ToSetIs
<1>3. IsFiniteSet(L) /\ Items(v.classes) \subseteq L
  BY DEF Holding
<1>4. IsFiniteSet(K)
  BY <1>2, <1>3, FS_Subset
<1>5. Items(w.classes) \subseteq K
  BY <1>1, <1>2, <1>3
<1>6. ModuleRecords(v.modules)
  BY ViewsAre
<1>7. Len(M) = Len(v.modules) /\ ModuleRecords(M)
  BY <1>6, CountsSame
<1>8. ASSUME NEW m \in 1 .. Len(v.modules) PROVE Less(v, L, K, M, m)
  <2>1. PICK a, b, c, c2, z : /\ a = Times(v.mods, m) /\ b = Times(ModulesOfFunctions(v.functions), m)
                              /\ c = Cardinality(ClassesOf(L, m)) /\ c2 = Cardinality(ClassesOf(K, m))
                              /\ z = Times(ModulesOfClasses(d), m)
    OBVIOUS
  <2>2. a \in Nat /\ b \in Nat /\ c \in Nat
    BY <2>1, OwnersType
  <2>3. c2 \in Nat
    BY <1>4, <2>1, ClassesType
  <2>4. c = c2 + z
    <3>1. Items(d) \subseteq L
      BY <1>1, <1>3
    <3>2. Cardinality(ClassesOf(L, m)) = Cardinality(ClassesOf(L \ Items(d), m)) + Times(ModulesOfClasses(d), m)
      BY ONLY <1>1, <1>3, <3>1, ClassesLess
    <3> QED  BY <1>2, <2>1, <3>2
  <2>5. z \in Nat
    <3>1. IsSeq(ModulesOfClasses(d))
      BY <1>1, ClassesOwn
    <3> QED  BY <2>1, <3>1, TimesType
  <2>6. M[m].refs = v.modules[m].refs - z
    BY <1>6, <2>1, ReleasedIs
  <2>7. Owners(v, L, m) = a + b + c
    BY <2>1 DEF Owners
  <2>8. ASSUME NEW k \in {0, 1}, v.modules[m].refs = Owners(v, L, m) + k
        PROVE  M[m].refs = a + b + c2 + k
    BY ONLY <2>2, <2>3, <2>4, <2>5, <2>6, <2>7, <2>8
  <2> QED  BY <2>1, <2>3, <2>8 DEF Less
<1> QED  BY <1>1, <1>2, <1>4, <1>5, <1>7, <1>8 DEF Without

\* A chunk ends.
LEMMA ChunkFinishedOwned ==
  ASSUME NEW r, NEW v, NEW L, Owned(1, r, r, v, L), ViewOK(v), r.kind = "chunk",
         NEW r2, r2.kind = "idle",
         NEW w, w.functions = v.functions, w.mods = v.mods, NEW S, NEW d, Cleared(v, w, S, d),
         NEW K, K = L \ ToSet(d),
         w.modules = IF r.module \in ToSet(v.mods) THEN ReleaseEach(v.modules, ModulesOfClasses(d))
                     ELSE pmodule_release(ReleaseEach(v.modules, ModulesOfClasses(d)), r.module)
  PROVE  Owned(1, r2, r2, w, K)
<1>1. Holding(v, L) /\ Fresh(1, r, r, v, L) /\ Placed(1, r, r, v) /\ Balanced(1, r, r, v, L)
      /\ Unleaked(1, r, v, L)
  BY DEF Owned
<1>2. PICK M : M = ReleaseEach(v.modules, ModulesOfClasses(d))
  OBVIOUS
<1>3. /\ IsFiniteSet(K) /\ K \subseteq L /\ K = L \ Items(d) /\ Items(w.classes) \subseteq K
      /\ Items(w.classes) = Items(v.classes) \ Items(d)
      /\ Len(M) = Len(v.modules) /\ ModuleRecords(M)
      /\ \A m \in 1 .. Len(v.modules) : Less(v, L, K, M, m)
  <2>1. Without(v, L, w, d, L \ ToSet(d), ReleaseEach(v.modules, ModulesOfClasses(d)))
    BY <1>1, ClearedCounts
  <2>2. Without(v, L, w, d, K, M)
    BY ONLY <1>2, <2>1, K = L \ ToSet(d)
  <2> QED  BY ONLY <2>2 DEF Without
<1>4. w.modules = (IF r.module \in ToSet(v.mods) THEN M ELSE pmodule_release(M, r.module))
  BY <1>2
<1>5. Len(w.modules) = Len(v.modules)
  BY <1>3, <1>4, CountsSame
<1>6. Holding(w, K)
  BY <1>1, <1>3, <1>5 DEF Holding
<1>7. Codes(1, r2, r2) = {}
  BY DEF Codes
<1>8. Fresh(1, r2, r2, w, K)
  BY <1>7 DEF Fresh
<1>9. Placed(1, r2, r2, w)
  BY <1>7 DEF Placed
<1>10. Balanced(1, r2, r2, w, K)
  <2> SUFFICES ASSUME NEW m \in 1 .. Len(v.modules)
               PROVE  w.modules[m].refs = Owners(w, K, m) + One(Runs(r2, w, m)) + One(Calls(1, r2, m))
    BY <1>5 DEF Balanced
  <2>1. v.modules[m].refs = Owners(v, L, m) + One(Runs(r, v, m)) + One(Calls(1, r, m))
    BY <1>1 DEF Balanced
  <2>2. Calls(1, r, m) = FALSE /\ Calls(1, r2, m) = FALSE /\ Runs(r2, w, m) = FALSE
    BY DEF Calls, Runs
  <2>3. One(Calls(1, r, m)) = 0 /\ One(Calls(1, r2, m)) = 0 /\ One(Runs(r2, w, m)) = 0
    BY <2>2 DEF One
  <2>4. Owners(v, L, m) \in Nat
    BY <1>1, OwnersType
  <2>5. Less(v, L, K, M, m)
    BY <1>3
  <2>6. Owners(w, K, m) = Times(v.mods, m) + Times(ModulesOfFunctions(v.functions), m)
                            + Cardinality(ClassesOf(K, m))
    BY DEF Owners
  <2>7. Owners(w, K, m) \in Nat
    <3>1. Times(v.mods, m) \in Nat /\ Times(ModulesOfFunctions(v.functions), m) \in Nat
      BY <1>1, OwnersType
    <3>2. Cardinality(ClassesOf(K, m)) \in Nat
      BY <2>5 DEF Less
    <3> QED  BY <2>6, <3>1, <3>2
  <2>8. One(Runs(r, v, m)) \in {0, 1}
    BY OneType
  <2>9. M[m].refs = Owners(w, K, m) + One(Runs(r, v, m))
    <3>1. v.modules[m].refs = Owners(v, L, m) + One(Runs(r, v, m))
      BY ONLY <2>1, <2>3, <2>4, <2>8
    <3> QED  BY ONLY <2>5, <2>6, <2>8, <3>1 DEF Less
  <2>10. ToSet(v.mods) = Items(v.mods)
    BY ViewsAre, ToSetIs
  <2>11. CASE r.module \in ToSet(v.mods)
    <3>1. Runs(r, v, m) = FALSE
      BY <2>10, <2>11 DEF Runs
    <3>2. One(Runs(r, v, m)) = 0 /\ w.modules = M
      BY <1>4, <2>11, <3>1 DEF One
    <3> QED  BY ONLY <2>3, <2>7, <2>9, <3>2
  <2>12. CASE r.module \notin ToSet(v.mods)
    <3>1. Runs(r, v, m) = (r.module = m) /\ w.modules = pmodule_release(M, r.module)
      BY <1>4, <2>10, <2>12 DEF Runs
    <3>2. pmodule_release(M, r.module)[m].refs = M[m].refs - One(r.module = m)
      <4>1. m \in 1 .. Len(M) /\ ModuleRecords(M) /\ M[m].refs \in Int
        <5>1. M[m].refs \in Int
          BY ONLY <2>7, <2>8, <2>9
        <5> QED  BY <1>3, <5>1
      <4> QED  BY ONLY <4>1, RetainedIs
    <3> QED  BY ONLY <2>3, <2>7, <2>8, <2>9, <3>1, <3>2
  <2> QED  BY <2>11, <2>12
<1>11. Unleaked(1, r2, w, K)
  BY <1>1, <1>3 DEF Unleaked
<1> QED  BY <1>6, <1>8, <1>9, <1>10, <1>11 DEF Owned

\* A chunk starts.
LEMMA ChunkStartedOwned ==
  ASSUME NEW r, NEW v, NEW L, Owned(1, r, r, v, L), ViewOK(v), r.kind = "idle",
         NEW m, m = Len(v.modules) + 1,
         NEW r2, r2.kind = "chunk", r2.module = m, r2.code = m,
         NEW w, w.functions = v.functions, w.mods = v.mods \/ Longer(v.mods, w.mods, m),
         NEW S, NEW d, Cleared(v, w, S, d), NEW K, K = L \ ToSet(d),
         NEW x, x.refs = 1,
         w.modules = Append(ReleaseEach(v.modules, ModulesOfClasses(d)), x)
  PROVE  Owned(1, r2, r2, w, K)
<1>1. Holding(v, L) /\ Fresh(1, r, r, v, L) /\ Placed(1, r, r, v) /\ Balanced(1, r, r, v, L)
      /\ Unleaked(1, r, v, L)
  BY DEF Owned
<1>2. PICK M : M = ReleaseEach(v.modules, ModulesOfClasses(d))
  OBVIOUS
<1>3. /\ IsFiniteSet(K) /\ K \subseteq L /\ K = L \ Items(d) /\ Items(w.classes) \subseteq K
      /\ Items(w.classes) = Items(v.classes) \ Items(d)
      /\ Len(M) = Len(v.modules) /\ ModuleRecords(M)
      /\ \A i \in 1 .. Len(v.modules) : Less(v, L, K, M, i)
  <2>1. Without(v, L, w, d, L \ ToSet(d), ReleaseEach(v.modules, ModulesOfClasses(d)))
    BY <1>1, ClearedCounts
  <2>2. Without(v, L, w, d, K, M)
    BY ONLY <1>2, <2>1, K = L \ ToSet(d)
  <2> QED  BY ONLY <2>2 DEF Without
<1>4. PICK k : k = Len(v.modules) /\ k \in Nat /\ m = k + 1
  BY ViewsAre
<1>5. Len(w.modules) = k + 1 /\ w.modules[k + 1] = x /\ \A i \in 1 .. k : w.modules[i] = M[i]
  <2>1. IsSeq(M) /\ Len(M) = k
    BY <1>3, <1>4 DEF ModuleRecords
  <2>2. w.modules = Append(M, x)
    BY <1>2
  <2> QED  BY <2>1, <2>2, AppendIs
<1>6. \A i : i \in 1 .. k + 1 <=> i \in 1 .. k \/ i = k + 1
  BY <1>4
<1>7. m \notin 1 .. k /\ m \notin Items(v.mods) /\ Owners(v, L, m) = 0 /\ \A c \in L : ModuleOf(c) # m
  BY <1>1, <1>4, NoOwner
<1>8. IsSeq(v.mods)
  BY ViewsAre
<1>9. Holding(w, K)
  BY <1>1, <1>3, <1>4, <1>5, <1>6 DEF Holding
<1>10. Codes(1, r2, r2) = {m}
  BY DEF Codes
<1>11. Fresh(1, r2, r2, w, K)
  BY <1>3, <1>7, <1>10 DEF Fresh
<1>12. Placed(1, r2, r2, w)
  BY <1>4, <1>5, <1>6, <1>10 DEF Placed
<1>13. Balanced(1, r2, r2, w, K)
  <2> SUFFICES ASSUME NEW i \in 1 .. k + 1
               PROVE  w.modules[i].refs = Owners(w, K, i) + One(Runs(r2, w, i)) + One(Calls(1, r2, i))
    BY <1>5 DEF Balanced
  <2>1. Calls(1, r, i) = FALSE /\ Calls(1, r2, i) = FALSE /\ Runs(r, v, i) = FALSE
    BY DEF Calls, Runs
  <2>2. One(Calls(1, r, i)) = 0 /\ One(Calls(1, r2, i)) = 0 /\ One(Runs(r, v, i)) = 0
    BY <2>1 DEF One
  <2>3. /\ Times(v.mods, i) \in Nat /\ Times(ModulesOfFunctions(v.functions), i) \in Nat
        /\ Cardinality(ClassesOf(L, i)) \in Nat /\ Owners(v, L, i) \in Nat
    BY <1>1, OwnersType
  <2>4. Cardinality(ClassesOf(K, i)) \in Nat
    BY <1>3, ClassesType
  <2>5. Times(w.mods, i) = Times(v.mods, i) + One(m \in Items(w.mods) /\ m = i)
    <3>1. CASE w.mods = v.mods
      <4>1. (m \in Items(w.mods) /\ m = i) = FALSE
        BY <1>7, <3>1
      <4>2. One(m \in Items(w.mods) /\ m = i) = 0
        BY <4>1 DEF One
      <4> QED  BY ONLY <2>3, <3>1, <4>2
    <3>2. CASE Longer(v.mods, w.mods, m)
      <4>1. Items(w.mods) = Items(v.mods) \cup {m} /\ Times(w.mods, i) = Times(v.mods, i) + One(m = i)
        BY <1>8, <3>2, LongerIs
      <4>2. (m \in Items(w.mods) /\ m = i) = (m = i)
        BY <4>1
      <4> QED  BY ONLY <4>1, <4>2
    <3> QED  BY <3>1, <3>2
  <2>6. CASE i \in 1 .. k
    <3>1. v.modules[i].refs = Owners(v, L, i) + One(Runs(r, v, i)) + One(Calls(1, r, i))
      BY <1>1, <1>4, <2>6 DEF Balanced
    <3>2. v.modules[i].refs = Owners(v, L, i) + 0
      BY ONLY <2>2, <2>3, <3>1
    <3>3. Less(v, L, K, M, i)
      BY <1>3, <1>4, <2>6
    <3>4. M[i].refs = Times(v.mods, i) + Times(ModulesOfFunctions(v.functions), i)
                        + Cardinality(ClassesOf(K, i)) + 0
      <4>1. PICK z : z = 0 /\ z \in {0, 1}
        OBVIOUS
      <4> QED  BY ONLY <3>2, <3>3, <4>1 DEF Less
    <3>5. i # m /\ (m \in Items(w.mods) /\ m = i) = FALSE /\ Runs(r2, w, i) = FALSE
      BY <1>7, <2>6 DEF Runs
    <3>6. One(m \in Items(w.mods) /\ m = i) = 0 /\ One(Runs(r2, w, i)) = 0
      BY <3>5 DEF One
    <3>7. Owners(w, K, i) = Times(v.mods, i) + Times(ModulesOfFunctions(v.functions), i)
                              + Cardinality(ClassesOf(K, i))
      BY <2>3, <2>5, <3>6 DEF Owners
    <3>8. w.modules[i] = M[i]
      BY <1>5, <2>6
    <3> QED  BY ONLY <2>2, <2>3, <2>4, <3>4, <3>6, <3>7, <3>8
  <2>7. CASE i = k + 1
    <3>1. i = m
      BY <1>4, <2>7
    <3>2. ClassesOf(K, i) = {} /\ ClassesOf(L, i) = {}
      BY <1>3, <1>7, <3>1 DEF ClassesOf
    <3>3. Cardinality(ClassesOf(K, i)) = 0 /\ Cardinality(ClassesOf(L, i)) = 0
      BY <3>2, FS_EmptySet
    <3>4. Times(v.mods, i) = 0 /\ Times(ModulesOfFunctions(v.functions), i) = 0
      <4>1. Times(v.mods, i) + Times(ModulesOfFunctions(v.functions), i) + Cardinality(ClassesOf(L, i)) = 0
        BY <1>7, <3>1 DEF Owners
      <4> QED  BY ONLY <2>3, <4>1
    <3>5. Owners(w, K, i) = One(m \in Items(w.mods) /\ m = i)
      <4>1. Owners(w, K, i) = Times(w.mods, i) + Times(ModulesOfFunctions(v.functions), i)
                                + Cardinality(ClassesOf(K, i))
        BY DEF Owners
      <4>2. One(m \in Items(w.mods) /\ m = i) \in {0, 1}
        BY OneType
      <4> QED  BY ONLY <2>5, <3>3, <3>4, <4>1, <4>2
    <3>6. Runs(r2, w, i) = (i \notin Items(w.mods))
      BY <3>1 DEF Runs
    <3>7. One(m \in Items(w.mods) /\ m = i) + One(Runs(r2, w, i)) = 1
      <4>1. CASE i \in Items(w.mods)
        <5>1. (m \in Items(w.mods) /\ m = i) /\ ~Runs(r2, w, i)
          BY <3>1, <3>6, <4>1
        <5>2. One(m \in Items(w.mods) /\ m = i) = 1 /\ One(Runs(r2, w, i)) = 0
          BY <5>1, OneType
        <5> QED  BY ONLY <5>2
      <4>2. CASE i \notin Items(w.mods)
        <5>1. ~(m \in Items(w.mods) /\ m = i) /\ Runs(r2, w, i)
          BY <3>1, <3>6, <4>2
        <5>2. One(m \in Items(w.mods) /\ m = i) = 0 /\ One(Runs(r2, w, i)) = 1
          BY <5>1, OneType
        <5> QED  BY ONLY <5>2
      <4> QED  BY <4>1, <4>2
    <3>8. w.modules[i].refs = 1
      BY <1>5, <2>7
    <3>9. One(Runs(r2, w, i)) \in {0, 1} /\ One(m \in Items(w.mods) /\ m = i) \in {0, 1}
      BY OneType
    <3> QED  BY ONLY <2>2, <3>5, <3>7, <3>8, <3>9
  <2> QED  BY <1>6, <2>6, <2>7
<1>14. Unleaked(1, r2, w, K)
  BY <1>1, <1>3 DEF Unleaked
<1> QED  BY <1>9, <1>11, <1>12, <1>13, <1>14 DEF Owned

\* The state is closed.
LEMMA ClosedOwned ==
  ASSUME NEW r, NEW v, NEW L, Owned(1, r, r, v, L), ViewOK(v), r.kind = "idle",
         NEW r2, r2.kind = "closed",
         NEW w, ViewOK(w), Len(w.classes) = 0, Len(w.functions) = 0, Len(w.mods) = 0,
         NEW K, K = L \ ToSet(v.classes),
         w.modules = ReleaseEach(ReleaseEach(ReleaseEach(v.modules, ModulesOfClasses(v.classes)),
                                             ModulesOfFunctions(v.functions)), v.mods)
  PROVE  Owned(1, r2, r2, w, K)
<1>1. Holding(v, L) /\ Fresh(1, r, r, v, L) /\ Placed(1, r, r, v) /\ Balanced(1, r, r, v, L)
      /\ Unleaked(1, r, v, L)
  BY DEF Owned
<1>2. /\ Len(w.modules) = Len(v.modules)
      /\ \A m \in 1 .. Len(v.modules) :
           w.modules[m].refs = ((v.modules[m].refs - Times(ModulesOfClasses(v.classes), m))
                          - Times(ModulesOfFunctions(v.functions), m)) - Times(v.mods, m)
  <2>1. ModuleRecords(v.modules)
    BY ViewsAre
  <2>2. PICK N : N = w.modules
    OBVIOUS
  <2> QED  BY <2>1, <2>2, ReleasedThrice
<1>3. K = L \ Items(v.classes) /\ K \subseteq L
  BY ViewsAre, ToSetIs
<1>4. IsFiniteSet(K)
  BY <1>1, <1>3, FS_Subset DEF Holding
<1>5. Items(w.classes) = {} /\ Items(w.mods) = {}
  BY DEF Items
<1>6. Holding(w, K)
  BY <1>1, <1>2, <1>3, <1>4, <1>5 DEF Holding
<1>7. Codes(1, r2, r2) = {}
  BY DEF Codes
<1>8. Fresh(1, r2, r2, w, K)
  BY <1>7 DEF Fresh
<1>9. Placed(1, r2, r2, w)
  BY <1>7 DEF Placed
<1>10. Balanced(1, r2, r2, w, K)
  <2> SUFFICES ASSUME NEW m \in 1 .. Len(v.modules)
               PROVE  w.modules[m].refs = Owners(w, K, m) + One(Runs(r2, w, m)) + One(Calls(1, r2, m))
    BY <1>2 DEF Balanced
  <2>1. v.modules[m].refs = Owners(v, L, m) + One(Runs(r, v, m)) + One(Calls(1, r, m))
    BY <1>1 DEF Balanced
  <2>2. /\ Calls(1, r, m) = FALSE /\ Calls(1, r2, m) = FALSE /\ Runs(r, v, m) = FALSE
        /\ Runs(r2, w, m) = FALSE
    BY DEF Calls, Runs
  <2>3. One(Calls(1, r, m)) = 0 /\ One(Calls(1, r2, m)) = 0 /\ One(Runs(r, v, m)) = 0 /\ One(Runs(r2, w, m)) = 0
    BY <2>2 DEF One
  <2>4. PICK a, b, c, c2, z : /\ a = Times(v.mods, m) /\ b = Times(ModulesOfFunctions(v.functions), m)
                              /\ c = Cardinality(ClassesOf(L, m)) /\ c2 = Cardinality(ClassesOf(K, m))
                              /\ z = Times(ModulesOfClasses(v.classes), m)
    OBVIOUS
  <2>5. a \in Nat /\ b \in Nat /\ c \in Nat /\ Owners(v, L, m) = a + b + c
    BY <1>1, <2>4, OwnersType DEF Owners
  <2>6. c2 \in Nat
    BY <1>4, <2>4, ClassesType
  <2>7. c = c2 + z
    <3>1. IsSeq(v.classes) /\ Items(v.classes) \subseteq L /\ IsFiniteSet(L)
      BY <1>1, ViewsAre DEF Holding
    <3>2. \A i, j \in 1 .. Len(v.classes) : v.classes[i] = v.classes[j] => i = j
      BY DEF ViewOK
    <3>3. Cardinality(ClassesOf(L, m))
            = Cardinality(ClassesOf(L \ Items(v.classes), m)) + Times(ModulesOfClasses(v.classes), m)
      BY ONLY <3>1, <3>2, ClassesLess
    <3> QED  BY <1>3, <2>4, <3>3
  <2>8. z \in Nat
    <3>1. IsSeq(ModulesOfClasses(v.classes))
      BY ViewsAre, ClassesOwn
    <3> QED  BY <2>4, <3>1, TimesType
  <2>9. w.modules[m].refs = ((v.modules[m].refs - z) - b) - a
    BY <1>2, <2>4
  <2>10. Owners(w, K, m) = c2
    <3>1. IsSeq(w.mods) /\ IsSeq(w.functions)
      BY ViewsAre
    <3>2. Times(w.mods, m) = 0
      BY <1>5, <3>1, TimesType
    <3>3. IsSeq(ModulesOfFunctions(w.functions)) /\ Len(ModulesOfFunctions(w.functions)) = 0
      BY <3>1, FunctionsOwn
    <3>4. Items(ModulesOfFunctions(w.functions)) = {}
      BY <3>3 DEF Items
    <3>5. Times(ModulesOfFunctions(w.functions), m) = 0
      BY <3>3, <3>4, TimesType
    <3> QED  BY <2>4, <2>6, <3>2, <3>5 DEF Owners
  <2> QED  BY ONLY <2>1, <2>3, <2>5, <2>6, <2>7, <2>8, <2>9, <2>10
<1>11. Unleaked(1, r2, w, K)
  BY <1>1, <1>3 DEF Unleaked
<1> QED  BY <1>6, <1>8, <1>9, <1>10, <1>11 DEF Owned

-----------------------------------------------------------------------------
(* The invariant, and that each step keeps it.                             *)

\* The tables of the state under the running one are as they were.
Shaped(n, r, t, h) ==
  n = 2 => IsTable(r.classes) /\ r.classes.p \in 0 .. Len(h) /\ (t.kind = "rollback" => t.mods = r.mods)

FilesOnly(I, D, t) == I \subseteq Files /\ D \subseteq Files /\ (t.kind = "include" => t.file \in Files)

OwnInv ==
  /\ DefInv /\ Owned(Len(vms), Root, Running, SeenNow, live)
  /\ Shaped(Len(vms), Root, Running, blocks) /\ FilesOnly(included, done, Running)

LEMMA ShapeIs ==
  ASSUME DefInv
  PROVE  /\ ViewOK(SeenNow) /\ Stacked(Len(vms), Root, Running) /\ SeenNow.modules = modules
         /\ Seen(SeenNow, Len(vms), Root, Running, blocks, known) /\ Tables(blocks, Running, Root)
         /\ Len(vms) \in {1, 2} /\ (Len(vms) = 1 => Running = Root)
<1>1. PICK v : v = View(Running, Root, blocks, functions, modules)
  OBVIOUS
<1>2. /\ v.modules = modules /\ Seen(v, Len(vms), Root, Running, blocks, known)
      /\ Tables(blocks, Running, Root)
  BY <1>1, ViewIs
<1>3. SeenNow = v
  BY <1>1 DEF SeenNow
<1>4. ViewOK(v) /\ Stacked(Len(vms), Root, Running)
  BY <1>2, TopIs DEF Seen, Nested, Stacked
<1> QED  BY <1>2, <1>3, <1>4, TopIs

LEMMA ShapeNext ==
  ASSUME DefInv'
  PROVE  /\ ViewOK(SeenNow') /\ InHeap(blocks', Running'.classes) /\ IsSeq(blocks')
         /\ (Len(vms') = 1 => Running' = Root')
<1>1. Sound(Len(vms'), Root', Running', blocks', functions', modules', known')
  BY DEF DefInv
<1>2. PICK n, r, t, h, F, L, K :
        /\ n = Len(vms') /\ r = Root' /\ t = Running' /\ h = blocks' /\ F = functions' /\ L = modules'
        /\ K = known'
  OBVIOUS
<1>3. Sound(n, r, t, h, F, L, K)
  BY ONLY <1>1, <1>2
<1>4. ViewOK(View(t, r, h, F, L)) /\ InHeap(h, t.classes) /\ IsSeq(h) /\ (n = 1 => t = r)
  BY ONLY <1>3 DEF Sound, Seen, Tables
<1>5. SeenNow' = View(t, r, h, F, L)
  BY <1>2 DEF SeenNow
<1> QED  BY ONLY <1>2, <1>4, <1>5

LEMMA HeapShape ==
  ASSUME NEW h, IsSeq(h), NEW r, NEW t, InHeap(h, r.classes), t.kind = "rollback" => t.mods = r.mods, NEW n
  PROVE  Shaped(n, r, t, h)
<1>1. r.classes.p \in Nat /\ (r.classes.p # 0 => r.classes.p \in 1 .. Len(h))
  BY DEF InHeap, IsTable
<1>2. IsTable(r.classes) /\ r.classes.p \in 0 .. Len(h)
  BY <1>1, SeqIs DEF InHeap
<1> QED  BY <1>2 DEF Shaped

LEMMA ClassDefinedOwned ==
  ASSUME OwnInv, NEW name, DefineClass(name), DefInv', ClassDefined(name)
  PROVE  OwnInv'
<1>1. PICK n, r, t, v, L, r2, t2, w :
        /\ n = Len(vms) /\ r = Root /\ t = Running /\ v = SeenNow /\ L = live
        /\ r2 = Root' /\ t2 = Running' /\ w = SeenNow'
  OBVIOUS
<1>2. Owned(n, r, t, v, L) /\ Stacked(n, r, t) /\ ViewOK(v) /\ v.modules = modules
  BY <1>1, ShapeIs DEF OwnInv
<1>3. PICK x : x = <<name, t.code>>
  OBVIOUS
<1>4. /\ t.kind \in {"chunk", "include", "invoke"} /\ live' = L \cup {x}
      /\ included' = included /\ done' = done
  BY <1>1, <1>3 DEF DefineClass, Executing
<1>5. /\ Len(vms') = n /\ Len(blocks) <= Len(blocks') /\ SameVm(t, t2) /\ SameVm(r, r2)
      /\ t2.file = t.file /\ (n = 2 => r2 = r) /\ name \notin ClassesAt(v, Len(v.classes))
      /\ Longer(v.classes, w.classes, x) /\ w.functions = v.functions /\ w.mods = v.mods
      /\ w.modules = pmodule_retain(v.modules, t.code)
  BY <1>1, <1>3 DEF ClassDefined
<1>6. Owned(n, r2, t2, w, L \cup {x})
  BY <1>2, <1>3, <1>4, <1>5, ClassOwned
<1>7. Shaped(n, r2, t2, blocks')
  <2>1. Shaped(n, r, t, blocks)
    BY <1>1 DEF OwnInv
  <2>2. t2.kind # "rollback"
    BY <1>4, <1>5 DEF SameVm
  <2>3. Len(blocks) \in Nat /\ Len(blocks') \in Nat
    <3>1. IsSeq(blocks) /\ IsSeq(blocks')
      BY ShapeIs DEF OwnInv, Tables, DefInv, Sound
    <3> QED  BY <3>1, SeqIs
  <2> QED  BY <1>5, <2>1, <2>2, <2>3 DEF Shaped
<1>8. FilesOnly(included', done', t2)
  BY <1>1, <1>4, <1>5 DEF OwnInv, FilesOnly, SameVm
<1> QED  BY <1>1, <1>4, <1>5, <1>6, <1>7, <1>8 DEF OwnInv

LEMMA FunctionDefinedOwned ==
  ASSUME OwnInv, NEW f, DefineFunction(f), DefInv', FunctionDefined(f)
  PROVE  OwnInv'
<1>1. PICK n, r, t, v, L, w :
        /\ n = Len(vms) /\ r = Root /\ t = Running /\ v = SeenNow /\ L = live /\ w = SeenNow'
  OBVIOUS
<1>2. Owned(n, r, t, v, L) /\ Stacked(n, r, t) /\ ViewOK(v) /\ v.modules = modules
  BY <1>1, ShapeIs DEF OwnInv
<1>3. /\ t.kind \in {"chunk", "include", "invoke"} /\ live' = L
      /\ included' = included /\ done' = done
  BY <1>1 DEF DefineFunction, Executing
<1>4. /\ Len(vms') = n /\ Root' = r /\ Running' = t /\ blocks' = blocks
      /\ w.functions = Append(v.functions, [name |-> f, module |-> t.code])
      /\ w.classes = v.classes /\ w.mods = v.mods /\ w.modules = pmodule_retain(v.modules, t.code)
  BY <1>1 DEF FunctionDefined
<1>5. Owned(n, r, t, w, L)
  BY <1>2, <1>3, <1>4, FunctionOwned
<1>6. Shaped(n, r, t, blocks') /\ FilesOnly(included', done', t)
  BY <1>1, <1>3, <1>4 DEF OwnInv
<1> QED  BY <1>1, <1>3, <1>4, <1>5, <1>6 DEF OwnInv

LEMMA StartedOwned ==
  ASSUME OwnInv, NEW vm, NEW kind, StartInvoke(vm, kind), Len(vms) = 1, DefInv', Invoked,
         Root.kind \in {"chunk", "rollback"}, "destructor" \in Kinds \/ Root.kind = "chunk"
  PROVE  OwnInv'
<1>1. PICK r, v, L, r2, t2, w :
        r = Root /\ v = SeenNow /\ L = live /\ r2 = Root' /\ t2 = Running' /\ w = SeenNow'
  OBVIOUS
<1>2. Owned(1, r, r, v, L) /\ ViewOK(v) /\ v.modules = modules
  BY <1>1, ShapeIs DEF OwnInv
<1>3. live' = L /\ included' = included /\ done' = done
  BY <1>1 DEF StartInvoke
<1>4. PICK x : x = [source |-> "callback", refs |-> 1]
  OBVIOUS
<1>5. /\ Len(vms') = 2 /\ r2 = r /\ t2.classes = r.classes /\ t2.kind = "invoke"
      /\ t2.module = Len(v.modules) + 1 /\ t2.code = r.code
      /\ SameDefinitions(v, w) /\ w.modules = Append(v.modules, x) /\ x.refs = 1
  BY <1>1, <1>2, <1>4 DEF Invoked
<1>6. Owned(2, r, t2, w, L)
  BY <1>1, <1>2, <1>5, InvokeOwned
<1>7. Shaped(2, r2, t2, blocks')
  <2>1. InHeap(blocks', t2.classes) /\ IsSeq(blocks')
    BY <1>1, ShapeNext
  <2>2. t2.kind # "rollback" /\ r2.classes = t2.classes
    BY <1>5
  <2> QED  BY <2>1, <2>2, HeapShape
<1>8. FilesOnly(included', done', t2)
  BY <1>3, <1>5 DEF OwnInv, FilesOnly
<1> QED  BY <1>1, <1>3, <1>5, <1>6, <1>7, <1>8 DEF OwnInv

LEMMA InvokeFinishedOwned ==
  ASSUME OwnInv, FinishInvoke, DefInv', InvokeFinished
  PROVE  OwnInv'
<1>1. PICK r, t, v, L, r2, w :
        /\ r = Root /\ t = Running /\ v = SeenNow /\ L = live /\ r2 = Root' /\ w = SeenNow'
  OBVIOUS
<1>2. /\ Len(vms) = 2 /\ Len(vms') = 1 /\ SameVm(r, r2) /\ SameDefinitions(v, w)
      /\ w.modules = pmodule_release(v.modules, t.module)
  BY <1>1 DEF InvokeFinished
<1>3. Owned(2, r, t, v, L) /\ Stacked(2, r, t) /\ ViewOK(v)
  BY <1>1, <1>2, ShapeIs DEF OwnInv
<1>4. t.kind = "invoke" /\ live' = L /\ included' = included /\ done' = done
  BY <1>1 DEF FinishInvoke
<1>5. Owned(1, r2, r2, w, L)
  BY <1>2, <1>3, <1>4, InvokedOwned
<1>6. Running' = r2
  BY <1>1, <1>2, ShapeNext
<1>7. Shaped(1, r2, r2, blocks') /\ FilesOnly(included', done', r2)
  BY <1>2, <1>3, <1>4 DEF OwnInv, FilesOnly, Shaped, SameVm, Stacked
<1> QED  BY <1>1, <1>2, <1>4, <1>5, <1>6, <1>7 DEF OwnInv

LEMMA IncludeStartedOwned ==
  ASSUME OwnInv, NEW file \in Files, NEW once, Include(file, once), DefInv', Included(file)
  PROVE  OwnInv'
<1>1. PICK r, v, L, r2, t2, w :
        r = Root /\ v = SeenNow /\ L = live /\ r2 = Root' /\ t2 = Running' /\ w = SeenNow'
  OBVIOUS
<1>2. PICK x, m : x = [source |-> file, refs |-> 1] /\ m = Len(modules) + 1
  OBVIOUS
<1>3. /\ Len(vms) = 1 /\ Len(vms') = 2 /\ SameVm(r, r2) /\ r2.classes = t2.classes
      /\ r.kind = "chunk" /\ t2.kind = "include" /\ t2.file = file /\ t2.module = m /\ t2.code = m
      /\ t2.start.module = r.module /\ t2.start.mods = Len(v.mods)
      /\ w.classes = v.classes /\ w.functions = v.functions /\ Longer(v.mods, w.mods, m)
  BY <1>1, <1>2 DEF Included
<1>4. Owned(1, r, r, v, L) /\ ViewOK(v) /\ v.modules = modules
  BY <1>1, <1>3, ShapeIs DEF OwnInv
<1>5. w.modules = Append(v.modules, x) /\ x.refs = 1 /\ m = Len(v.modules) + 1
  BY <1>1, <1>2, <1>4 DEF Included
<1>6. /\ live' = L /\ done' = done /\ included' \subseteq included \cup {file}
  BY <1>1 DEF Include
<1>7. Owned(2, r2, t2, w, L)
  BY ONLY <1>3, <1>4, <1>5, IncludeOwned
<1>8. Shaped(2, r2, t2, blocks')
  <2>1. InHeap(blocks', t2.classes) /\ IsSeq(blocks')
    BY <1>1, ShapeNext
  <2>2. t2.kind # "rollback" /\ r2.classes = t2.classes
    BY <1>3
  <2> QED  BY <2>1, <2>2, HeapShape
<1>9. FilesOnly(included', done', t2)
  BY <1>3, <1>6 DEF OwnInv, FilesOnly
<1> QED  BY <1>1, <1>3, <1>6, <1>7, <1>8, <1>9 DEF OwnInv

LEMMA IncludeFinishedOwned ==
  ASSUME OwnInv, FinishInclude, DefInv', IncludeFinished
  PROVE  OwnInv'
<1>1. PICK r, t, v, L, r2 : r = Root /\ t = Running /\ v = SeenNow /\ L = live /\ r2 = Root'
  OBVIOUS
<1>2. Len(vms) = 2 /\ Len(vms') = 1 /\ SameVm(r, r2) /\ SeenNow' = v
  BY <1>1 DEF IncludeFinished
<1>3. Owned(2, r, t, v, L) /\ Stacked(2, r, t)
  BY <1>1, <1>2, ShapeIs DEF OwnInv
<1>4. t.kind = "include" /\ live' = L /\ included' = included /\ done' \subseteq done \cup {t.file}
  BY <1>1 DEF FinishInclude
<1>5. Owned(1, r2, r2, v, L)
  BY <1>2, <1>3, <1>4, IncludedOwned
<1>6. Running' = r2
  BY <1>1, <1>2, ShapeNext
<1>7. Shaped(1, r2, r2, blocks')
  BY DEF Shaped
<1>8. FilesOnly(included', done', r2)
  <2>1. FilesOnly(included, done, t)
    BY <1>1 DEF OwnInv
  <2>2. r2.kind # "include"
    BY <1>2, <1>3 DEF SameVm, Stacked
  <2> QED  BY <1>4, <2>1, <2>2 DEF FilesOnly
<1> QED  BY <1>1, <1>2, <1>4, <1>5, <1>6, <1>7, <1>8 DEF OwnInv

LEMMA IncludeFailsOwned ==
  ASSUME OwnInv, FailInclude, DefInv', IncludeFailed
  PROVE  OwnInv'
<1>1. PICK r, t, v, L, r2, t2 :
        r = Root /\ t = Running /\ v = SeenNow /\ L = live /\ r2 = Root' /\ t2 = Running'
  OBVIOUS
<1>2. /\ Len(vms) = 2 /\ Len(vms') = 2 /\ SameVm(r, r2) /\ r2.classes = t2.classes
      /\ t2.kind = "rollback" /\ t2.module = t.module /\ t2.code = t.code
      /\ t2.start.module = t.start.module /\ t2.start.mods = t.start.mods
      /\ t2.start.class_end = Len(v.classes) /\ t2.mods = r2.mods /\ SeenNow' = v
  BY <1>1 DEF IncludeFailed
<1>3. Owned(2, r, t, v, L) /\ Stacked(2, r, t)
  BY <1>1, <1>2, ShapeIs DEF OwnInv
<1>4. t.kind = "include" /\ live' = L /\ included' \subseteq included /\ done' = done
  BY <1>1 DEF FailInclude
<1>5. Owned(2, r2, t2, v, L)
  BY ONLY <1>2, <1>3, <1>4, IncludeFailedOwned
<1>6. Shaped(2, r2, t2, blocks')
  <2>1. InHeap(blocks', t2.classes) /\ IsSeq(blocks')
    BY <1>1, ShapeNext
  <2> QED  BY <1>2, <2>1, HeapShape
<1>7. FilesOnly(included', done', t2)
  BY <1>2, <1>4 DEF OwnInv, FilesOnly
<1> QED  BY <1>1, <1>2, <1>4, <1>5, <1>6, <1>7 DEF OwnInv

LEMMA RollbackFinishedOwned ==
  ASSUME OwnInv, FinishRollback, DefInv', RollbackFinished
  PROVE  OwnInv'
<1>1. PICK n, r, t, v, L, r2, w, s :
        /\ n = Len(vms) /\ r = Root /\ t = Running /\ v = SeenNow /\ L = live
        /\ r2 = Root' /\ w = SeenNow' /\ s = t.start
  OBVIOUS
<1>2. Owned(n, r, t, v, L) /\ Stacked(n, r, t) /\ ViewOK(v)
  BY <1>1, ShapeIs DEF OwnInv
<1>3. t.kind = "rollback" /\ included' = included /\ done' = done
  BY <1>1 DEF FinishRollback
<1>4. Point(v, s)
  <2>1. Seen(v, n, r, t, blocks, known)
    BY <1>1, ShapeIs DEF OwnInv
  <2> QED  BY <1>1, <1>2, <1>3, <2>1 DEF Seen, Nested, Stacked
<1>5. /\ Len(vms') = 1 /\ r2.kind = (IF n = 1 THEN "idle" ELSE r.kind) /\ r2.code = r.code
      /\ r2.module = s.module /\ BackAt(v, w, s)
      /\ live' = L \ ToSet(Dropped(v, s))
      /\ w.modules = IF n = 1 /\ t.module \notin ToSet(v.mods) THEN pmodule_release(Left(v, s), t.module)
                     ELSE Left(v, s)
  BY <1>1 DEF RollbackFinished
<1>6. PICK K : K = L \ ToSet(Dropped(v, s))
  OBVIOUS
<1>7. Owned(1, r2, r2, w, K)
  BY ONLY <1>1, <1>2, <1>3, <1>4, <1>5, <1>6, RollbackOwned
<1>8. Running' = r2
  BY <1>1, <1>5, ShapeNext
<1>9. Shaped(1, r2, r2, blocks')
  BY DEF Shaped
<1>10. FilesOnly(included', done', r2)
  <2>1. FilesOnly(included, done, t)
    BY <1>1 DEF OwnInv
  <2>2. r2.kind # "include"
    BY <1>2, <1>5 DEF Stacked
  <2> QED  BY <1>3, <2>1, <2>2 DEF FilesOnly
<1> QED  BY <1>1, <1>5, <1>6, <1>7, <1>8, <1>9, <1>10 DEF OwnInv

LEMMA ChunkStartsOwned ==
  ASSUME OwnInv, NEW source, NEW repl, ExecChunk(source, repl), DefInv', ChunkStarted(source)
  PROVE  OwnInv'
<1>1. PICK r, v, L, r2, w : r = Root /\ v = SeenNow /\ L = live /\ r2 = Root' /\ w = SeenNow'
  OBVIOUS
<1>2. PICK x, m : x = [source |-> source, refs |-> 1] /\ m = Len(modules) + 1
  OBVIOUS
<1>3. /\ Len(vms) = 1 /\ Len(vms') = 1 /\ r.kind = "idle" /\ r2.kind = "chunk"
      /\ r2.module = m /\ r2.code = m /\ w.functions = v.functions
      /\ (w.mods = v.mods \/ Longer(v.mods, w.mods, m))
  BY <1>1, <1>2 DEF ChunkStarted
<1>4. Owned(1, r, r, v, L) /\ ViewOK(v) /\ v.modules = modules
  BY <1>1, <1>3, ShapeIs DEF OwnInv
<1>5. \E S, d : /\ Cleared(v, w, S, d) /\ live' = L \ ToSet(d)
                /\ w.modules = Append(ReleaseEach(v.modules, ModulesOfClasses(d)), x)
  BY <1>1, <1>2 DEF ChunkStarted
<1>6. PICK S, d : /\ Cleared(v, w, S, d) /\ live' = L \ ToSet(d)
                  /\ w.modules = Append(ReleaseEach(v.modules, ModulesOfClasses(d)), x)
  BY <1>5
<1>7. PICK K : K = L \ ToSet(d)
  OBVIOUS
<1>8. Owned(1, r2, r2, w, K)
  <2>1. x.refs = 1 /\ m = Len(v.modules) + 1
    BY <1>2, <1>4
  <2> QED  BY ONLY <1>3, <1>4, <1>6, <1>7, <2>1, ChunkStartedOwned
<1>9. included' = included /\ done' = done
  BY DEF ExecChunk
<1>10. Running' = r2
  BY <1>1, <1>3, ShapeNext
<1>11. Shaped(1, r2, r2, blocks') /\ FilesOnly(included', done', r2)
  BY <1>3, <1>9 DEF Shaped, OwnInv, FilesOnly
<1> QED  BY <1>1, <1>3, <1>6, <1>7, <1>8, <1>10, <1>11 DEF OwnInv

LEMMA ChunkEndsOwned ==
  ASSUME OwnInv, FinishSource, DefInv', ChunkFinished
  PROVE  OwnInv'
<1>1. PICK r, v, L, r2, w : r = Root /\ v = SeenNow /\ L = live /\ r2 = Root' /\ w = SeenNow'
  OBVIOUS
<1>2. /\ Len(vms) = 1 /\ Len(vms') = 1 /\ r.kind = "chunk" /\ r2.kind = "idle"
      /\ w.functions = v.functions /\ w.mods = v.mods
  BY <1>1 DEF ChunkFinished
<1>3. Owned(1, r, r, v, L) /\ ViewOK(v)
  BY <1>1, <1>2, ShapeIs DEF OwnInv
<1>4. \E S, d : /\ Cleared(v, w, S, d) /\ live' = L \ ToSet(d)
                /\ w.modules = IF r.module \in ToSet(v.mods) THEN ReleaseEach(v.modules, ModulesOfClasses(d))
                     ELSE pmodule_release(ReleaseEach(v.modules, ModulesOfClasses(d)), r.module)
  BY <1>1 DEF ChunkFinished
<1>5. PICK S, d : /\ Cleared(v, w, S, d) /\ live' = L \ ToSet(d)
                  /\ w.modules = IF r.module \in ToSet(v.mods) THEN ReleaseEach(v.modules, ModulesOfClasses(d))
                       ELSE pmodule_release(ReleaseEach(v.modules, ModulesOfClasses(d)), r.module)
  BY <1>4
<1>6. PICK K : K = L \ ToSet(d)
  OBVIOUS
<1>7. Owned(1, r2, r2, w, K)
  BY ONLY <1>2, <1>3, <1>5, <1>6, ChunkFinishedOwned
<1>8. included' = included /\ done' = done
  BY DEF FinishSource
<1>9. Running' = r2
  BY <1>1, <1>2, ShapeNext
<1>10. Shaped(1, r2, r2, blocks') /\ FilesOnly(included', done', r2)
  BY <1>2, <1>8 DEF Shaped, OwnInv, FilesOnly
<1> QED  BY <1>1, <1>2, <1>5, <1>6, <1>7, <1>9, <1>10 DEF OwnInv

LEMMA ChunkFailsOwned ==
  ASSUME OwnInv, FailSource, DefInv', ChunkFailed
  PROVE  OwnInv'
<1>1. PICK r, v, L, r2 : r = Root /\ v = SeenNow /\ L = live /\ r2 = Root'
  OBVIOUS
<1>2. /\ Len(vms) = 1 /\ Len(vms') = 1 /\ r.kind = "chunk" /\ r2.kind = "rollback"
      /\ r2.module = r.module /\ r2.code = r.code /\ r2.start.classes = r.start.classes
      /\ r2.start.class_end = Len(v.classes) /\ SeenNow' = v
  BY <1>1 DEF ChunkFailed
<1>3. Owned(1, r, r, v, L) /\ ViewOK(v)
  BY <1>1, <1>2, ShapeIs DEF OwnInv
<1>4. r.start.classes \in 0 .. Len(v.classes)
  <2>1. Seen(v, Len(vms), Root, Running, blocks, known)
    BY <1>1, ShapeIs DEF OwnInv
  <2> QED  BY <1>1, <1>2, <2>1 DEF Seen, Point
<1>5. Owned(1, r2, r2, v, L)
  BY ONLY <1>2, <1>3, <1>4, ChunkFailedOwned
<1>6. live' = L /\ included' = included /\ done' = done
  BY <1>1 DEF FailSource
<1>7. Running' = r2
  BY <1>1, <1>2, ShapeNext
<1>8. Shaped(1, r2, r2, blocks') /\ FilesOnly(included', done', r2)
  BY <1>2, <1>6 DEF Shaped, OwnInv, FilesOnly
<1> QED  BY <1>1, <1>2, <1>5, <1>6, <1>7, <1>8 DEF OwnInv

LEMMA CloseOwned ==
  ASSUME OwnInv, pphp_close, DefInv', Closed
  PROVE  OwnInv'
<1>1. PICK r, v, L, r2, w : r = Root /\ v = SeenNow /\ L = live /\ r2 = Root' /\ w = SeenNow'
  OBVIOUS
<1>2. /\ Len(vms) = 1 /\ Len(vms') = 1 /\ r.kind = "idle" /\ r2.kind = "closed"
      /\ Len(w.classes) = 0 /\ Len(w.functions) = 0 /\ Len(w.mods) = 0
      /\ live' = L \ ToSet(v.classes)
      /\ w.modules = ReleaseEach(ReleaseEach(ReleaseEach(v.modules, ModulesOfClasses(v.classes)),
                                             ModulesOfFunctions(v.functions)), v.mods)
  BY <1>1 DEF Closed
<1>3. Owned(1, r, r, v, L) /\ ViewOK(v) /\ ViewOK(w)
  BY <1>1, <1>2, ShapeIs, ShapeNext DEF OwnInv
<1>4. PICK K : K = L \ ToSet(v.classes)
  OBVIOUS
<1>5. Owned(1, r2, r2, w, K)
  BY ONLY <1>2, <1>3, <1>4, ClosedOwned
<1>6. included' = {} /\ done' = done
  BY DEF pphp_close
<1>7. Running' = r2
  BY <1>1, <1>2, ShapeNext
<1>8. Shaped(1, r2, r2, blocks') /\ FilesOnly(included', done', r2)
  BY <1>2, <1>6 DEF Shaped, OwnInv, FilesOnly
<1> QED  BY <1>1, <1>2, <1>4, <1>5, <1>7, <1>8 DEF OwnInv

LEMMA InitOwned ==
  ASSUME Init
  PROVE  OwnInv
<1>1. DefInv /\ live = {} /\ modules = <<>> /\ vms = <<pphp_open>> /\ functions = <<>>
      /\ included = {} /\ done = {}
  BY InitSound DEF Init
<1>2. Len(vms) = 1 /\ Root = pphp_open /\ Running = pphp_open
  BY <1>1, OneIs DEF Root, Running, Top
<1>3. PICK x, v : x = pphp_open /\ v = SeenNow
  OBVIOUS
<1>4. x.kind = "idle" /\ x.classes.n = 0 /\ x.mods.n = 0
  BY <1>3 DEF pphp_open, NoTable
<1>5. /\ v.functions = <<>> /\ v.modules = <<>> /\ Len(v.classes) = 0
  <2>1. v = View(Running, Root, blocks, functions, modules)
    BY <1>3 DEF SeenNow
  <2> QED  BY <1>1, <1>2, <1>3, <1>4, <2>1, ViewIs
<1>6. Len(v.modules) = 0 /\ Len(v.functions) = 0
  BY <1>5
<1>7. Codes(1, x, x) = {}
  BY <1>4 DEF Codes
<1>8. Holding(v, {})
  <2>1. Items(v.classes) = {}
    BY <1>5 DEF Items
  <2> QED  BY <1>6, <2>1, FS_EmptySet DEF Holding
<1>9. Fresh(1, x, x, v, {}) /\ Unleaked(1, x, v, {})
  BY <1>4 DEF Fresh, Unleaked
<1>10. Placed(1, x, x, v)
  BY <1>4, <1>7 DEF Placed
<1>11. Balanced(1, x, x, v, {})
  BY <1>6 DEF Balanced
<1>12. Owned(1, x, x, v, {})
  BY <1>8, <1>9, <1>10, <1>11 DEF Owned
<1>13. Shaped(1, x, x, blocks) /\ FilesOnly(included, done, x)
  BY <1>1, <1>4 DEF Shaped, FilesOnly
<1> QED  BY <1>1, <1>2, <1>3, <1>12, <1>13 DEF OwnInv

LEMMA StepOwned ==
  ASSUME OwnInv, MaxDepth <= 2, [Next]_vars
  PROVE  OwnInv'
<1>0. DefInv /\ DefInv'
  BY StepSound DEF OwnInv
<1>1. ASSUME NEW kind, NEW vm, StartInvoke(vm, kind) PROVE Len(vms) = 1 /\ Running = Root
  <2>1. MaxDepth \in Nat /\ Len(vms) < MaxDepth
    BY <1>1, ConstantsAreDefinitions DEF DefinitionsAssumption, StartInvoke
  <2> QED  BY <1>0, <2>1, TopIs
<1>2. CASE \E name \in Names : DefineClass(name)
  BY <1>0, <1>2, DefineClassSound, ClassDefinedOwned
<1>3. CASE \E f \in Functions : DefineFunction(f)
  BY <1>0, <1>3, DefineFunctionSound, FunctionDefinedOwned
<1>4. CASE Invoke
  <2>1. PICK kind : kind = "invoke"
    OBVIOUS
  <2>2. StartInvoke(Running, kind) /\ Running.kind \in {"chunk", "include", "invoke"}
    BY <1>4, <2>1 DEF Invoke, Executing
  <2>3. Len(vms) = 1 /\ Running = Root
    BY <1>1, <2>2
  <2>4. Root.kind = "chunk"
    BY <1>0, <2>2, <2>3, ShapeIs DEF Stacked
  <2>5. StartInvoke(Root, kind)
    BY <2>2, <2>3
  <2>6. DefInv' /\ Invoked
    BY <1>0, <2>3, <2>4, <2>5, StartInvokeSound
  <2> QED  BY <2>3, <2>4, <2>5, <2>6, StartedOwned
<1>5. CASE RunDestructor
  <2>1. PICK kind : kind = "destructor"
    OBVIOUS
  <2>2. StartInvoke(Root, kind) /\ Root.kind \in {"chunk", "rollback"} /\ "destructor" \in Kinds
    BY <1>5, <2>1 DEF RunDestructor, StartInvoke
  <2>3. Len(vms) = 1
    BY <1>1, <2>2
  <2>4. DefInv' /\ Invoked
    BY <1>0, <2>2, <2>3, StartInvokeSound
  <2> QED  BY <2>2, <2>3, <2>4, StartedOwned
<1>6. CASE FinishInvoke
  BY <1>0, <1>6, FinishInvokeSound, InvokeFinishedOwned
<1>7. CASE \E file \in Files, once \in BOOLEAN : Include(file, once)
  BY <1>0, <1>7, IncludeSound, IncludeStartedOwned
<1>8. CASE FinishInclude
  BY <1>0, <1>8, FinishIncludeSound, IncludeFinishedOwned
<1>9. CASE FailInclude
  BY <1>0, <1>9, FailIncludeSound, IncludeFailsOwned
<1>10. CASE FinishRollback
  BY <1>0, <1>10, FinishRollbackSound, RollbackFinishedOwned
<1>11. CASE \E source \in Sources, repl \in BOOLEAN : ExecSource(source, repl)
  BY <1>0, <1>11, ExecChunkSound, ChunkStartsOwned DEF ExecSource
<1>12. CASE \E source \in Sources : ExecPbc(source)
  BY <1>0, <1>12, ExecChunkSound, ChunkStartsOwned DEF ExecPbc
<1>13. CASE FinishSource
  BY <1>0, <1>13, FinishSourceSound, ChunkEndsOwned
<1>14. CASE FailSource
  BY <1>0, <1>14, FailSourceSound, ChunkFailsOwned
<1>15. CASE pphp_close
  BY <1>0, <1>15, CloseSound, CloseOwned
<1>16. CASE UNCHANGED vars
  <2>1. /\ vms' = vms /\ blocks' = blocks /\ functions' = functions /\ modules' = modules
        /\ live' = live /\ included' = included /\ done' = done
    BY <1>16 DEF vars
  <2>2. Root' = Root /\ Running' = Running
    BY <2>1 DEF Root, Running, Top
  <2>3. SeenNow' = SeenNow
    BY <2>1, <2>2 DEF SeenNow
  <2> QED  BY <1>0, <2>1, <2>2, <2>3 DEF OwnInv
<1> QED
  BY <1>2, <1>3, <1>4, <1>5, <1>6, <1>7, <1>8, <1>9, <1>10, <1>11, <1>12, <1>13, <1>14, <1>15,
     <1>16 DEF Next

-----------------------------------------------------------------------------
(* What the invariant says of counts.                                      *)

\* The VMs that own module m: the chunk, and the callback or destructor.
Executors(m) ==
  {i \in DOMAIN vms :
     /\ vms[i].kind \in {"invoke", "chunk"} \/ (i = 1 /\ vms[i].kind = "rollback")
     /\ vms[i].module = m
     /\ m \notin ToSet(Entries(Root.mods))}

LEMMA OwnFacts ==
  ASSUME OwnInv, NEW n, NEW r, NEW t, NEW v, n = Len(vms), r = Root, t = Running, v = SeenNow
  PROVE  /\ Owned(n, r, t, v, live) /\ Stacked(n, r, t) /\ ViewOK(v) /\ v.modules = modules
         /\ v.functions = functions /\ Entries(Root.mods) = v.mods /\ Entries(Running.classes) = v.classes
         /\ ToSet(Entries(Root.mods)) = Items(v.mods) /\ Root.mods.n = Len(v.mods)
         /\ DOMAIN vms = 1 .. n /\ vms[1] = r /\ vms[n] = t /\ n \in {1, 2}
         /\ DOMAIN modules = 1 .. Len(modules) /\ Len(modules) \in Nat
<1>1. DefInv /\ v = View(Running, Root, blocks, functions, modules)
  BY DEF OwnInv, SeenNow
<1>2. /\ v.modules = modules /\ v.functions = functions /\ Entries(Root.mods) = v.mods
      /\ Entries(Running.classes) = v.classes /\ Root.mods.n = Len(v.mods)
  BY <1>1, ViewIs
<1>3. Stacked(n, r, t) /\ ViewOK(v)
  BY <1>1, ShapeIs
<1>4. ToSet(v.mods) = Items(v.mods) /\ IsSeq(modules)
  BY <1>2, <1>3, ViewsAre, ToSetIs
<1>5. IsSeq(vms) /\ n \in {1, 2} /\ vms[1] = r /\ vms[n] = t
  BY <1>1, TopIs DEF DefInv
<1>6. DOMAIN vms = 1 .. n /\ DOMAIN modules = 1 .. Len(modules) /\ Len(modules) \in Nat
  BY <1>4, <1>5, SeqIs
<1> QED  BY <1>2, <1>3, <1>4, <1>5, <1>6 DEF OwnInv

LEMMA ExecutorsAre ==
  ASSUME OwnInv, NEW m
  PROVE  Cardinality(Executors(m)) = One(Runs(Root, SeenNow, m)) + One(Calls(Len(vms), Running, m))
<1>1. PICK n, r, t, v : n = Len(vms) /\ r = Root /\ t = Running /\ v = SeenNow
  OBVIOUS
<1>2. /\ Owned(n, r, t, v, live) /\ Stacked(n, r, t) /\ ToSet(Entries(Root.mods)) = Items(v.mods)
      /\ DOMAIN vms = 1 .. n /\ vms[1] = r /\ vms[n] = t /\ n \in {1, 2}
  BY <1>1, OwnFacts
<1>3. Placed(n, r, t, v)
  BY <1>2 DEF Owned
<1>4. 1 \in Executors(m) <=> Runs(r, v, m)
  <2>1. r.kind # "invoke" /\ 1 \in 1 .. n
    BY <1>2 DEF Stacked
  <2> QED  BY <1>2, <2>1 DEF Executors, Runs
<1>5. Executors(m) \subseteq {1, 2} /\ (n = 1 => 2 \notin Executors(m))
  BY <1>2 DEF Executors
<1>6. 2 \in Executors(m) <=> Calls(n, t, m)
  <2>1. CASE n = 1
    BY <1>5, <2>1 DEF Calls
  <2>2. CASE n = 2
    <3>1. t.kind # "chunk" /\ (t.kind = "invoke" => t.module \notin Items(v.mods))
      BY <1>2, <1>3, <2>2 DEF Stacked, Placed
    <3>2. vms[2] = t /\ 2 \in DOMAIN vms
      BY <1>2, <2>2
    <3> QED  BY <1>2, <2>2, <3>1, <3>2 DEF Executors, Calls
  <2> QED  BY <1>2, <2>1, <2>2
<1>7. ~(Runs(r, v, m) /\ Calls(n, t, m))
  BY <1>3 DEF Runs, Calls, Placed
<1>8. CASE Runs(r, v, m)
  <2>1. Executors(m) = {1} /\ ~Calls(n, t, m)
    BY <1>4, <1>5, <1>6, <1>7, <1>8
  <2>2. One(Runs(r, v, m)) = 1
    BY ONLY <1>8, OneType
  <2>3. One(Calls(n, t, m)) = 0
    BY ONLY <2>1, OneType
  <2>4. Cardinality(Executors(m)) = 1
    BY <2>1, FS_Singleton
  <2> QED  BY ONLY <1>1, <2>2, <2>3, <2>4
<1>9. CASE Calls(n, t, m)
  <2>1. Executors(m) = {2} /\ ~Runs(r, v, m)
    BY <1>4, <1>5, <1>6, <1>7, <1>9
  <2>2. One(Runs(r, v, m)) = 0
    BY ONLY <2>1, OneType
  <2>3. One(Calls(n, t, m)) = 1
    BY ONLY <1>9, OneType
  <2>4. Cardinality(Executors(m)) = 1
    BY <2>1, FS_Singleton
  <2> QED  BY ONLY <1>1, <2>2, <2>3, <2>4
<1>10. CASE ~Runs(r, v, m) /\ ~Calls(n, t, m)
  <2>1. Executors(m) = {}
    BY <1>4, <1>5, <1>6, <1>10
  <2>2. One(Runs(r, v, m)) = 0 /\ One(Calls(n, t, m)) = 0
    BY <1>10, OneType
  <2> QED  BY <1>1, <2>1, <2>2, FS_EmptySet
<1> QED  BY <1>8, <1>9, <1>10

LEMMA CountsExact ==
  ASSUME OwnInv
  PROVE  ModuleCountsExact /\ \A m \in DOMAIN modules : modules[m].refs \in Nat
<1>1. PICK n, r, t, v : n = Len(vms) /\ r = Root /\ t = Running /\ v = SeenNow
  OBVIOUS
<1>2. /\ Owned(n, r, t, v, live) /\ ViewOK(v) /\ v.modules = modules
      /\ v.functions = functions /\ Entries(Root.mods) = v.mods /\ Root.mods.n = Len(v.mods)
      /\ DOMAIN modules = 1 .. Len(modules)
  BY <1>1, OwnFacts
<1>3. Holding(v, live) /\ Balanced(n, r, t, v, live)
  BY <1>2 DEF Owned
<1>4. ASSUME NEW m \in DOMAIN modules
      PROVE  /\ modules[m].refs \in Nat
             /\ modules[m].refs =
                  Cardinality({i \in 1 .. Root.mods.n : Entries(Root.mods)[i] = m})
                + Cardinality({i \in DOMAIN functions : functions[i].module = m})
                + Cardinality({k \in live : ModuleOf(k) = m})
                + Cardinality(Executors(m))
  <2>1. {i \in 1 .. Root.mods.n : Entries(Root.mods)[i] = m} = Places(v.mods, m)
    <3>1. DOMAIN v.mods = 1 .. Len(v.mods)
      BY <1>2, ViewsAre, SeqIs
    <3> QED  BY <1>2, <3>1 DEF Places
  <2>2. {i \in DOMAIN functions : functions[i].module = m} = Places(ModulesOfFunctions(v.functions), m)
    <3>1. PICK f : f = ModulesOfFunctions(v.functions)
      OBVIOUS
    <3>2. DOMAIN f = DOMAIN functions /\ \A i \in DOMAIN functions : f[i] = functions[i].module
      BY <1>2, <3>1 DEF ModulesOfFunctions
    <3>3. Places(f, m) = {i \in DOMAIN functions : functions[i].module = m}
      BY <3>2 DEF Places
    <3> QED  BY <3>1, <3>3
  <2>3. {k \in live : ModuleOf(k) = m} = ClassesOf(live, m)
    BY DEF ClassesOf
  <2>4. PICK a, b, c, e : /\ a = Times(v.mods, m) /\ b = Times(ModulesOfFunctions(v.functions), m)
                          /\ c = Cardinality(ClassesOf(live, m)) /\ e = Cardinality(Executors(m))
    OBVIOUS
  <2>5. a \in Nat /\ b \in Nat /\ c \in Nat /\ Owners(v, live, m) = a + b + c
    BY <1>2, <1>3, <2>4, OwnersType DEF Owners
  <2>6. modules[m].refs = Owners(v, live, m) + One(Runs(r, v, m)) + One(Calls(n, t, m))
    BY <1>2, <1>3 DEF Balanced
  <2>7. e = One(Runs(r, v, m)) + One(Calls(n, t, m))
    BY <1>1, <2>4, ExecutorsAre
  <2>8. One(Runs(r, v, m)) \in {0, 1} /\ One(Calls(n, t, m)) \in {0, 1}
    BY OneType
  <2>9. modules[m].refs = a + b + c + e /\ modules[m].refs \in Nat
    BY ONLY <2>5, <2>6, <2>7, <2>8
  <2> QED  BY <2>1, <2>2, <2>3, <2>4, <2>9 DEF Times
<1> QED  BY <1>4 DEF ModuleCountsExact, Executors

LEMMA CodeAlive ==
  ASSUME OwnInv
  PROVE  CodeStaysAlive
<1>1. PICK n, r, t, v : n = Len(vms) /\ r = Root /\ t = Running /\ v = SeenNow
  OBVIOUS
<1>2. /\ Owned(n, r, t, v, live) /\ Stacked(n, r, t) /\ ViewOK(v) /\ v.modules = modules
      /\ DOMAIN vms = 1 .. n /\ vms[1] = r /\ vms[n] = t /\ n \in {1, 2}
      /\ DOMAIN modules = 1 .. Len(modules) /\ Len(modules) \in Nat
  BY <1>1, OwnFacts
<1>3. Holding(v, live) /\ Balanced(n, r, t, v, live) /\ Placed(n, r, t, v)
  BY <1>2 DEF Owned
<1>4. ASSUME NEW m \in 1 .. Len(modules), m \in Items(v.mods) \/ Runs(r, v, m) \/ Calls(n, t, m)
      PROVE  modules[m].refs > 0
  <2>1. modules[m].refs = Owners(v, live, m) + One(Runs(r, v, m)) + One(Calls(n, t, m))
    BY <1>2, <1>3 DEF Balanced
  <2>2. /\ Times(v.mods, m) \in Nat /\ Times(ModulesOfFunctions(v.functions), m) \in Nat
        /\ Cardinality(ClassesOf(live, m)) \in Nat /\ Owners(v, live, m) \in Nat
        /\ (m \in Items(v.mods) => Times(v.mods, m) > 0)
    BY <1>2, <1>3, OwnersType
  <2>3. m \in Items(v.mods) => Owners(v, live, m) > 0
    BY <2>2 DEF Owners
  <2>4. /\ One(Runs(r, v, m)) \in {0, 1} /\ One(Calls(n, t, m)) \in {0, 1}
        /\ (Runs(r, v, m) => One(Runs(r, v, m)) = 1) /\ (Calls(n, t, m) => One(Calls(n, t, m)) = 1)
    BY OneType
  <2> QED  BY <1>4, <2>1, <2>2, <2>3, <2>4
<1>5. ASSUME r.kind = "chunk" PROVE modules[r.module].refs > 0
  <2>1. r.module \in 1 .. Len(modules)
    BY <1>2, <1>3, <1>5 DEF Placed
  <2>2. r.module \in Items(v.mods) \/ Runs(r, v, r.module)
    BY <1>5 DEF Runs
  <2> QED  BY <1>4, <2>1, <2>2
<1>6. ASSUME n = 2, t.kind \in {"include", "invoke"} PROVE modules[t.module].refs > 0
  <2>1. t.module \in 1 .. Len(modules)
    BY <1>2, <1>3, <1>6 DEF Placed
  <2>2. t.module \in Items(v.mods) \/ Calls(n, t, t.module)
    BY <1>3, <1>6 DEF Placed, Calls
  <2> QED  BY <1>4, <2>1, <2>2
<1>7. ASSUME NEW i \in 1 .. n, vms[i].kind \in {"chunk", "include", "invoke"}
      PROVE  modules[vms[i].module].refs > 0
  <2>1. CASE i = 1
    <3>1. r.kind = "chunk" /\ vms[i] = r
      BY <1>2, <1>7, <2>1 DEF Stacked
    <3> QED  BY <1>5, <3>1
  <2>2. CASE i # 1
    <3>1. n = 2 /\ vms[i] = t /\ t.kind \in {"include", "invoke"}
      BY <1>2, <1>7, <2>2 DEF Stacked
    <3> QED  BY <1>6, <3>1
  <2> QED  BY <2>1, <2>2
<1> QED  BY <1>2, <1>7 DEF CodeStaysAlive

LEMMA LeakFree ==
  ASSUME OwnInv, "destructor" \notin Kinds
  PROVE  NothingLeaks
<1>1. PICK n, r, t, v : n = Len(vms) /\ r = Root /\ t = Running /\ v = SeenNow
  OBVIOUS
<1>2. /\ Owned(n, r, t, v, live) /\ Stacked(n, r, t) /\ ViewOK(v) /\ v.modules = modules
      /\ Entries(Running.classes) = v.classes /\ n \in {1, 2} /\ DOMAIN modules = 1 .. Len(modules)
  BY <1>1, OwnFacts
<1>3. Holding(v, live) /\ Balanced(n, r, t, v, live) /\ Placed(n, r, t, v) /\ Unleaked(n, r, v, live)
  BY <1>2 DEF Owned
<1>4. live = Items(v.classes)
  BY <1>3 DEF Unleaked, Holding
<1>5. ASSUME Idle PROVE live = ToSet(Entries(Root.classes))
  <2>1. Entries(Root.classes) = v.classes
    BY <1>1, <1>2, <1>5 DEF Idle, Stacked
  <2> QED  BY <1>2, <1>4, <2>1, ViewsAre, ToSetIs
<1>6. ASSUME r.kind = "closed" PROVE live = {} /\ \A m \in DOMAIN modules : modules[m].refs = 0
  <2>1. n = 1 /\ t = r
    BY <1>2, <1>6 DEF Stacked
  <2>2. Len(v.classes) = 0 /\ Len(v.functions) = 0 /\ Len(v.mods) = 0
    BY <1>3, <1>6 DEF Placed
  <2>3. live = {} /\ Items(v.mods) = {}
    BY <1>4, <2>2 DEF Items
  <2>4. ASSUME NEW m \in 1 .. Len(modules) PROVE modules[m].refs = 0
    <3>1. modules[m].refs = Owners(v, live, m) + One(Runs(r, v, m)) + One(Calls(n, t, m))
      BY <1>2, <1>3 DEF Balanced
    <3>2. ~Runs(r, v, m) /\ ~Calls(n, t, m)
      BY <1>6, <2>1 DEF Runs, Calls
    <3>3. One(Runs(r, v, m)) = 0 /\ One(Calls(n, t, m)) = 0
      BY <3>2, OneType
    <3>4. Times(v.mods, m) = 0
      BY <2>3, ViewsAre, <1>2, TimesType
    <3>5. Times(ModulesOfFunctions(v.functions), m) = 0
      <4>1. IsSeq(v.functions)
        BY <1>2, ViewsAre
      <4>2. IsSeq(ModulesOfFunctions(v.functions)) /\ Len(ModulesOfFunctions(v.functions)) = 0
        BY <2>2, <4>1, FunctionsOwn
      <4>3. Items(ModulesOfFunctions(v.functions)) = {}
        BY <4>2 DEF Items
      <4> QED  BY <4>2, <4>3, TimesType
    <3>6. Cardinality(ClassesOf(live, m)) = 0
      <4>1. ClassesOf(live, m) = {}
        BY <2>3 DEF ClassesOf
      <4> QED  BY <4>1, FS_EmptySet
    <3> QED  BY <3>1, <3>3, <3>4, <3>5, <3>6 DEF Owners
  <2> QED  BY <1>2, <2>3, <2>4
<1> QED  BY <1>1, <1>5, <1>6 DEF NothingLeaks

LEMMA TypesOK ==
  ASSUME OwnInv
  PROVE  TypeOK
<1>1. PICK n, r, t, v, h : n = Len(vms) /\ r = Root /\ t = Running /\ v = SeenNow /\ h = blocks
  OBVIOUS
<1>2. /\ Owned(n, r, t, v, live) /\ Stacked(n, r, t) /\ ViewOK(v) /\ v.modules = modules
      /\ DOMAIN vms = 1 .. n /\ vms[1] = r /\ vms[n] = t /\ n \in {1, 2}
  BY <1>1, OwnFacts
<1>3. Seen(v, n, r, t, h, known) /\ Tables(h, t, r) /\ (n = 1 => t = r)
  BY <1>1, ShapeIs DEF OwnInv
<1>4. Shaped(n, r, t, h) /\ FilesOnly(included, done, t) /\ Placed(n, r, t, v)
  BY <1>1, <1>2 DEF OwnInv, Owned
<1>5. Len(h) \in Nat /\ Len(modules) \in Nat
  BY <1>2, <1>3, ViewsAre, SeqIs DEF Tables
<1>6. ASSUME NEW u, InHeap(h, u) PROVE u.n <= u.c /\ u.p \in 0 .. Len(h)
  BY <1>5, <1>6 DEF InHeap, IsTable
<1>7. /\ r.classes.n <= r.classes.c /\ r.classes.p \in 0 .. Len(h)
      /\ r.mods.n <= r.mods.c /\ r.mods.p \in 0 .. Len(h)
      /\ r.module \in 0 .. Len(modules) /\ r.kind \in StateKinds
  <2>1. r.mods.n <= r.mods.c /\ r.mods.p \in 0 .. Len(h)
    BY <1>3, <1>6 DEF Tables
  <2>2. r.classes.n <= r.classes.c /\ r.classes.p \in 0 .. Len(h)
    <3>1. CASE n = 1
      BY <1>3, <1>6, <3>1 DEF Tables
    <3>2. CASE n = 2
      BY <1>4, <3>2 DEF Shaped, IsTable
    <3> QED  BY <1>2, <3>1, <3>2
  <2>3. r.module \in 0 .. Len(modules)
    BY <1>2, <1>3 DEF Seen, Covered
  <2>4. r.kind \in StateKinds
    BY <1>2 DEF Stacked, StateKinds
  <2> QED  BY <2>1, <2>2, <2>3, <2>4
<1>8. ASSUME n = 2
      PROVE  /\ t.classes.n <= t.classes.c /\ t.classes.p \in 0 .. Len(h)
             /\ t.mods.n <= t.mods.c /\ t.mods.p \in 0 .. Len(h)
             /\ t.module \in 0 .. Len(modules) /\ t.kind \in StateKinds
  <2>1. t.classes.n <= t.classes.c /\ t.classes.p \in 0 .. Len(h)
    BY <1>3, <1>6 DEF Tables
  <2>2. t.mods.n <= t.mods.c /\ t.mods.p \in 0 .. Len(h)
    <3>1. CASE t.kind = "invoke"
      BY <1>3, <1>6, <1>8, <3>1 DEF Seen, Nested, Borrowed
    <3>2. CASE t.kind # "invoke"
      <4>1. t.mods = r.mods
        BY <1>2, <1>3, <1>4, <1>8, <3>2 DEF Stacked, Seen, Nested, Shaped
      <4> QED  BY <1>7, <4>1
    <3> QED  BY <3>1, <3>2
  <2>3. t.module \in 0 .. Len(modules)
    BY <1>2, <1>4, <1>5, <1>8 DEF Placed
  <2>4. t.kind \in StateKinds
    BY <1>2, <1>8 DEF Stacked, StateKinds
  <2> QED  BY <2>1, <2>2, <2>3, <2>4
<1>9. ASSUME NEW i \in DOMAIN vms
      PROVE  /\ vms[i].kind \in StateKinds
             /\ \A u \in {vms[i].classes, vms[i].mods} : u.n <= u.c /\ u.p \in 0 .. Len(blocks)
             /\ vms[i].module \in 0 .. Len(modules)
  <2>1. CASE vms[i] = r
    BY <1>1, <1>7, <2>1
  <2>2. CASE n = 2 /\ vms[i] = t
    BY <1>1, <1>8, <2>2
  <2>3. vms[i] = r \/ (n = 2 /\ vms[i] = t)
    BY <1>2
  <2> QED  BY <2>1, <2>2, <2>3
<1>10. \A m \in DOMAIN modules : modules[m].refs \in Nat
  BY CountsExact
<1>11. included \subseteq Files /\ done \subseteq Files /\ known \subseteq Definition
  BY <1>3, <1>4 DEF FilesOnly, Seen, KnownAt, Definition
<1> QED  BY <1>9, <1>10, <1>11 DEF TypeOK

\* While at most one VM is nested in another, the reference count of a module
\* is the number of its owners, no module is destroyed while its code runs,
\* and none is left behind by a rollback, at the end of a chunk or when the
\* state is closed: for any classes, functions, files and chunks, any
\* capacities, and any number of VMs one after the other (pmodule_retain,
\* pmodule_release, rollback_definitions, pphp_close).
THEOREM ModulesAreOwned == MaxDepth <= 2 => (Spec => []ModulesOwned)
<1> SUFFICES ASSUME MaxDepth <= 2 PROVE Spec => []ModulesOwned
  OBVIOUS
<1>1. Init => OwnInv
  BY InitOwned
<1>2. OwnInv /\ [Next]_vars => OwnInv'
  BY StepOwned
<1>3. OwnInv => ModulesOwned
  BY TypesOK, CountsExact, CodeAlive, LeakFree DEF ModulesOwned
<1> QED  BY <1>1, <1>2, <1>3, PTL DEF Spec
============================================================================
