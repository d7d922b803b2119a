-------------------------- MODULE TemplatesProofs --------------------------
(***************************************************************************)
(* What module Templates promises, for every number of processes and       *)
(* commands, and every set of rules and mockups.                           *)
(***************************************************************************)
EXTENDS Templates, TLAPS

-----------------------------------------------------------------------------
(* The inductive invariant.                                                *)

Command == [pc : BeforeLock \cup UnderLock, kind : {"write", "delete"}, want : Template,
            force : BOOLEAN, commits : BOOLEAN, exists : BOOLEAN, result : {"none", "ok", "stopped"}]

Whole(t) == t = NoTemplate \/ Fits(t)

\* What a command has made sure of when it comes to a step.
Checked(c) ==
    /\ c.pc # "idle" => c.result = "none"
    /\ c.kind = "delete" => c.pc \in {"lock", "preflight", "removeYaml", "commit"} \cup Removal
    /\ c.kind = "write" => c.pc \notin {"removeYaml"} \cup Removal
    /\ c.pc = "readFail" => <<c.want.yaml, c.want.pass>> \in PassOK
    /\ c.kind = "write" /\ c.pc \in {"lock"} \cup UnderLock => Fits(c.want)

\* What a command has made of the files d when it comes to a step.
Made(c, d) ==
    /\ c.pc = "swapPass" => d.yaml = c.want.yaml
    /\ c.pc = "swapFail" => d.yaml = c.want.yaml /\ d.pass = c.want.pass
    /\ c.pc = "removePass" => d.yaml = Absent
    /\ c.pc = "removeFail" => d.yaml = Absent /\ d.pass = Absent
    /\ c.pc = "commit" => d = IF c.kind = "write" THEN c.want ELSE NoTemplate

\* The files are a template, or nothing, when nobody is in the middle of them
\* and nobody left them half way.
Undisturbed(commands) == \A p \in Procs : commands[p].pc \notin Swap \cup Removal
WholeBetween == ~torn /\ Undisturbed(cmd) => Whole(dir)

IInv ==
    /\ TypeOK
    /\ \A p \in Procs : Checked(cmd[p]) /\ Made(cmd[p], dir)
    /\ WholeBetween
    /\ Whole(head)

LEMMA InitIInv == Init => IInv
<1> SUFFICES ASSUME Init PROVE IInv
  OBVIOUS
<1>1. NoTemplate \in Template /\ Idle \in Command /\ Idle.pc = "idle" /\ Idle.kind = "write"
  BY DEF NoTemplate, Template, Idle, Command, BeforeLock, UnderLock
<1>2. TypeOK
  <2>1. cmd \in [Procs -> Command]
    BY <1>1 DEF Init
  <2>2. \A p \in Procs : cmd[p].pc \notin UnderLock /\ lock # p
    BY <1>1, TemplatesAssumption DEF Init, UnderLock, Swap, Removal
  <2>3. ops \in 0 .. MaxOps
    BY TemplatesAssumption DEF Init
  <2> QED
    BY <1>1, <2>1, <2>2, <2>3 DEF Init, TypeOK, Command
<1>3. \A p \in Procs : Checked(cmd[p]) /\ Made(cmd[p], dir)
  BY <1>1 DEF Init, Checked, Made, UnderLock, Swap, Removal
<1> QED
  BY <1>2, <1>3 DEF IInv, WholeBetween, Whole, Init

-----------------------------------------------------------------------------
(* How a step of a process keeps it.                                       *)

\* A step of p that moves its command to c: what is left to say of it is what
\* c has checked and made, that the lock follows c, that p changes the files
\* under the lock only, and when they are whole.
LEMMA StepKeeps ==
    ASSUME IInv, NEW p \in Procs, NEW c \in Command,
           cmd' = [cmd EXCEPT ![p] = c],
           dir' \in Template, head' \in Template, ops' \in 0 .. MaxOps, torn' \in BOOLEAN,
           lock' = IF c.pc \in UnderLock THEN p ELSE IF lock = p THEN NoOne ELSE lock,
           c.pc \in UnderLock => lock \in {p, NoOne},
           dir' = dir \/ cmd[p].pc \in UnderLock,
           Checked(c), Made(c, dir'),
           ~torn' /\ Undisturbed(cmd') => Whole(dir'),
           Whole(head')
    PROVE  IInv'
<1>1. cmd'[p] = c /\ \A q \in Procs \ {p} : cmd'[q] = cmd[q]
  BY DEF IInv, TypeOK
<1>2. lock' \in Procs \cup {NoOne} /\ \A q \in Procs : cmd'[q].pc \in UnderLock <=> lock' = q
  <2>1. \A q \in Procs : q # NoOne
    BY TemplatesAssumption
  <2> QED
    BY <1>1, <2>1 DEF IInv, TypeOK
<1>3. cmd' \in [Procs -> Command]
  BY DEF IInv, TypeOK, Command
<1>4. TypeOK'
  BY <1>2, <1>3 DEF TypeOK, Command
<1>5. \A q \in Procs : Checked(cmd'[q]) /\ Made(cmd'[q], dir')
  <2>1. ASSUME NEW q \in Procs \ {p}, dir' # dir PROVE cmd[q].pc \notin UnderLock
    BY <2>1 DEF IInv, TypeOK
  <2>2. ASSUME NEW q \in Procs \ {p} PROVE Checked(cmd[q]) /\ Made(cmd[q], dir')
    <3>1. CASE dir' = dir
      BY <3>1 DEF IInv
    <3>2. CASE dir' # dir
      BY <2>1, <3>2 DEF IInv, Made, UnderLock, Swap, Removal
    <3> QED
      BY <3>1, <3>2
  <2> QED
    BY <1>1, <2>2
<1> QED
  BY <1>4, <1>5 DEF IInv, WholeBetween, Whole, Fits, Undisturbed

\* A step before the lock, which changes the command only.
LEMMA LocalStepKeeps ==
    ASSUME IInv, NEW p \in Procs, NEW c \in Command,
           cmd' = [cmd EXCEPT ![p] = c],
           UNCHANGED <<dir, head, lock, torn>>, ops' \in 0 .. MaxOps,
           cmd[p].pc \in BeforeLock, c.pc \in BeforeLock, Checked(c)
    PROVE  IInv'
<1>1. c.pc \notin UnderLock /\ lock # p /\ Made(c, dir)
  BY DEF IInv, TypeOK, BeforeLock, UnderLock, Swap, Removal, Made
<1>2. Undisturbed(cmd') => Undisturbed(cmd)
  BY DEF IInv, TypeOK, Undisturbed, BeforeLock, Swap, Removal
<1> QED
  BY <1>1, <1>2, StepKeeps DEF IInv, TypeOK, WholeBetween

\* A step under the lock from one pc to another, which changes the files only.
LEMMA HolderStepKeeps ==
    ASSUME IInv, NEW p \in Procs, NEW pc \in UnderLock, Goto(p, pc), UNCHANGED head,
           cmd[p].pc \in UnderLock,
           dir' \in Template,
           cmd[p].kind = "delete" => pc \in {"preflight", "removeYaml", "commit"} \cup Removal,
           cmd[p].kind = "write" => pc \notin {"removeYaml"} \cup Removal,
           Made([cmd[p] EXCEPT !.pc = pc], dir'),
           ~torn /\ pc \notin Swap \cup Removal => Whole(dir')
    PROVE  IInv'
<1> DEFINE c == [cmd[p] EXCEPT !.pc = pc]
<1>1. c \in Command /\ cmd' = [cmd EXCEPT ![p] = c]
  BY DEF IInv, TypeOK, Command, Goto
<1>2. c.pc = pc /\ c.kind = cmd[p].kind /\ c.want = cmd[p].want /\ c.result = cmd[p].result
  BY DEF IInv, TypeOK
<1>3. Checked(c)
  BY <1>2 DEF IInv, Checked, UnderLock, Swap, Removal
<1>4. lock = p /\ cmd'[p].pc = pc
  BY DEF IInv, TypeOK, Goto
<1>5. ~torn' /\ Undisturbed(cmd') => Whole(dir')
  BY <1>4 DEF Goto, Undisturbed
<1> QED
  BY <1>1, <1>2, <1>3, <1>4, <1>5, StepKeeps DEF IInv, TypeOK, Goto

\* The end of a command, after which the files are whole, or half way.
LEMMA EndKeeps ==
    ASSUME IInv, NEW p \in Procs, NEW result \in {"ok", "stopped"}, Ends(p, result),
           dir' \in Template, head' \in Template, torn' \in BOOLEAN,
           dir' = dir \/ cmd[p].pc \in UnderLock,
           ~torn' /\ Undisturbed(cmd') => Whole(dir'),
           Whole(head')
    PROVE  IInv'
<1> DEFINE c == [Idle EXCEPT !.result = result]
<1>1. c \in Command /\ c.pc = "idle" /\ c.kind = "write"
  BY DEF Idle, NoTemplate, Template, Command, BeforeLock
<1>2. Checked(c) /\ Made(c, dir') /\ c.pc \notin UnderLock
  BY <1>1 DEF Checked, Made, UnderLock, Swap, Removal
<1> QED
  BY <1>1, <1>2, StepKeeps DEF IInv, TypeOK, Ends

\* A command that stops, or is killed, and changes nothing: only in the middle
\* of a swap or a removal it leaves the files half way.
LEMMA StopsKeeps ==
    ASSUME IInv, NEW p \in Procs, Stops(p), UNCHANGED <<dir, head>>
    PROVE  IInv'
<1>1. torn' \in BOOLEAN
  BY DEF IInv, TypeOK, Stops
<1>2. ~torn' /\ Undisturbed(cmd') => ~torn /\ Undisturbed(cmd)
  BY DEF IInv, TypeOK, Stops, Ends, Undisturbed
<1> QED
  BY <1>1, <1>2, EndKeeps DEF IInv, TypeOK, Stops, WholeBetween, Whole

\* A command that stops in the middle of a swap or a removal.
LEMMA StopsHalfWayKeeps ==
    ASSUME IInv, NEW p \in Procs, Stops(p), cmd[p].pc \in Swap \cup Removal, dir' \in Template,
           UNCHANGED head
    PROVE  IInv'
BY EndKeeps DEF IInv, TypeOK, Stops, UnderLock, Whole

-----------------------------------------------------------------------------
(* The steps.                                                              *)

\* A command starts: nothing is checked yet.
LEMMA StartKeeps ==
    ASSUME IInv, NEW p \in Procs, StartWrite(p) \/ StartDelete(p)
    PROVE  IInv'
<1>1. ops' \in 0 .. MaxOps
  <2>1. ops < MaxOps /\ ops' = ops + 1
    BY DEF StartWrite, StartDelete, Begin
  <2> QED
    BY <2>1, TemplatesAssumption DEF IInv, TypeOK
<1>2. CASE StartWrite(p)
  <2>1. PICK y \in Yamls, m \in Passes \cup {Absent}, f \in Fails \cup {Absent}, force \in BOOLEAN, c \in BOOLEAN :
          Begin(p, [Idle EXCEPT !.pc = "stat", !.want = [yaml |-> y, pass |-> m, fail |-> f],
                                !.force = force, !.commits = c])
    BY <1>2 DEF StartWrite
  <2> DEFINE new == [Idle EXCEPT !.pc = "stat", !.want = [yaml |-> y, pass |-> m, fail |-> f],
                                 !.force = force, !.commits = c]
  <2>2. new \in Command /\ new.pc = "stat" /\ new.kind = "write" /\ new.result = "none"
    BY DEF Idle, Template, Command, BeforeLock
  <2> QED
    BY <1>1, <2>1, <2>2, LocalStepKeeps
       DEF Begin, At, Checked, BeforeLock, UnderLock, Swap, Removal
<1>3. CASE StartDelete(p)
  <2>1. PICK c \in BOOLEAN : Begin(p, [Idle EXCEPT !.pc = "lock", !.kind = "delete", !.force = TRUE,
                                                   !.commits = c])
    BY <1>3 DEF StartDelete
  <2> DEFINE new == [Idle EXCEPT !.pc = "lock", !.kind = "delete", !.force = TRUE, !.commits = c]
  <2>2. new \in Command /\ new.pc = "lock" /\ new.kind = "delete" /\ new.result = "none"
    BY DEF Idle, NoTemplate, Template, Command, BeforeLock
  <2> QED
    BY <1>1, <2>1, <2>2, LocalStepKeeps
       DEF Begin, At, Checked, BeforeLock, UnderLock, Swap, Removal
<1> QED
  BY <1>2, <1>3

LEMMA StatKeeps ==
    ASSUME IInv, NEW p \in Procs, Stat(p)
    PROVE  IInv'
<1>1. CASE Stops(p)
  BY <1>1, StopsKeeps DEF Stat
<1>2. CASE ~Stops(p)
  <2> DEFINE c == [cmd[p] EXCEPT !.pc = "readPass", !.exists = dir.yaml # Absent]
  <2>1. c \in Command /\ c.pc = "readPass" /\ c.kind = cmd[p].kind /\ c.result = cmd[p].result
    BY DEF IInv, TypeOK, Command, BeforeLock
  <2>2. cmd' = [cmd EXCEPT ![p] = c]
    BY <1>2 DEF Stat, IInv, TypeOK
  <2>3. Checked(c)
    BY <2>1 DEF IInv, Checked, Stat, At, UnderLock, Swap, Removal
  <2> QED
    BY <1>2, <2>1, <2>2, <2>3, LocalStepKeeps DEF Stat, At, IInv, TypeOK, BeforeLock
<1> QED
  BY <1>1, <1>2

\* The rules accept the mockup, given or in place.
LEMMA ReadPassKeeps ==
    ASSUME IInv, NEW p \in Procs, ReadPass(p)
    PROVE  IInv'
<1> DEFINE m == Given(Want(p).pass, dir.pass)
<1>1. CASE Stops(p)
  BY <1>1, StopsKeeps DEF ReadPass
<1>2. CASE ~Stops(p)
  <2> DEFINE c == [cmd[p] EXCEPT !.pc = "readFail", !.want.pass = m]
  <2>1. m \in Passes \cup {Absent}
    BY DEF IInv, TypeOK, Template, Want, Given
  <2>2. c \in Command /\ c.pc = "readFail" /\ c.kind = cmd[p].kind /\ c.result = cmd[p].result
    BY <2>1, ZenonT(30) DEF IInv, TypeOK, Command, Template, BeforeLock
  <2>3. c.want.yaml = Want(p).yaml /\ c.want.pass = m
    BY DEF IInv, TypeOK, Template, Want
  <2>4. <<Want(p).yaml, m>> \in PassOK /\ cmd' = [cmd EXCEPT ![p] = c]
    BY <1>2 DEF ReadPass, PassAccepted, IInv, TypeOK
  <2>5. Checked(c)
    BY <2>2, <2>3, <2>4 DEF IInv, Checked, ReadPass, At, UnderLock, Swap, Removal
  <2> QED
    BY <1>2, <2>2, <2>4, <2>5, LocalStepKeeps DEF ReadPass, At, IInv, TypeOK, BeforeLock
<1> QED
  BY <1>1, <1>2

\* The rules reject the other one, so the three fit from here on.
LEMMA ReadFailKeeps ==
    ASSUME IInv, NEW p \in Procs, ReadFail(p)
    PROVE  IInv'
<1> DEFINE f == Given(Want(p).fail, dir.fail)
<1>1. CASE Stops(p)
  BY <1>1, StopsKeeps DEF ReadFail
<1>2. CASE ~Stops(p)
  <2> DEFINE c == [cmd[p] EXCEPT !.pc = "lock", !.want.fail = f]
  <2>1. f \in Fails \cup {Absent}
    BY DEF IInv, TypeOK, Template, Want, Given
  <2>2. c \in Command /\ c.pc = "lock" /\ c.kind = cmd[p].kind /\ c.result = cmd[p].result
    BY <2>1, ZenonT(30) DEF IInv, TypeOK, Command, Template, BeforeLock
  <2>3. c.want.yaml = Want(p).yaml /\ c.want.pass = Want(p).pass /\ c.want.fail = f
    BY DEF IInv, TypeOK, Template, Want
  <2>4. <<Want(p).yaml, f>> \in FailOK /\ cmd' = [cmd EXCEPT ![p] = c]
    BY <1>2 DEF ReadFail, IInv, TypeOK
  <2>5. <<Want(p).yaml, Want(p).pass>> \in PassOK
    BY DEF IInv, Checked, ReadFail, At, Want
  <2>6. Fits(c.want)
    BY <2>3, <2>4, <2>5 DEF Fits
  <2>7. cmd[p].kind = "write" /\ cmd[p].result = "none"
    BY DEF IInv, TypeOK, Checked, ReadFail, At, Removal
  <2> HIDE DEF c
  <2>8. Checked(c)
    BY <2>2, <2>6, <2>7 DEF Checked, Removal
  <2> QED
    BY <1>2, <2>2, <2>4, <2>8, LocalStepKeeps DEF ReadFail, At, IInv, TypeOK, BeforeLock
<1> QED
  BY <1>1, <1>2

LEMMA LockKeeps ==
    ASSUME IInv, NEW p \in Procs, Lock(p)
    PROVE  IInv'
<1> DEFINE pc == IF cmd[p].kind = "write" THEN "match" ELSE "preflight"
           c == [cmd[p] EXCEPT !.pc = pc]
<1>1. /\ c \in Command /\ c.pc = pc /\ c.kind = cmd[p].kind /\ c.result = cmd[p].result
      /\ c.want = cmd[p].want
  BY DEF IInv, TypeOK, Command, UnderLock
<1>2. cmd' = [cmd EXCEPT ![p] = c] /\ lock = NoOne /\ lock' = p
  BY DEF Lock, LockFree
<1>3. Checked(c) /\ Made(c, dir)
  BY <1>1, ZenonT(30) DEF IInv, TypeOK, Checked, Made, Lock, At, UnderLock, Swap, Removal
<1>4. Undisturbed(cmd') => Undisturbed(cmd)
  BY DEF Lock, At, IInv, TypeOK, Undisturbed, Swap, Removal
<1> QED
  BY <1>1, <1>2, <1>3, <1>4, StepKeeps DEF Lock, IInv, TypeOK, WholeBetween, UnderLock, Whole

\* Between its steps the lock holder has not disturbed the files: nobody else
\* is in the middle of them.
LEMMA HolderIsAlone ==
    ASSUME IInv, NEW p \in Procs, cmd[p].pc \in UnderLock \ (Swap \cup Removal)
    PROVE  ~torn => Whole(dir)
BY DEF IInv, TypeOK, WholeBetween, Undisturbed, UnderLock, Swap, Removal

LEMMA MatchKeeps ==
    ASSUME IInv, NEW p \in Procs, Match(p)
    PROVE  IInv'
<1>1. cmd[p].pc = "match" /\ cmd[p].kind = "write" /\ Fits(cmd[p].want)
  BY DEF IInv, TypeOK, Match, At, Checked, UnderLock, Swap, Removal
<1>2. CASE Succeeds(p) /\ dir = Want(p)
  BY <1>1, <1>2, EndKeeps DEF Match, Succeeds, IInv, TypeOK, Whole, Fits, Want
<1>3. CASE Goto(p, "preflight")
  <2>1. ~torn => Whole(dir)
    BY <1>1, HolderIsAlone DEF UnderLock, Swap, Removal
  <2>2. Made([cmd[p] EXCEPT !.pc = "preflight"], dir)
    BY DEF IInv, TypeOK, Made
  <2> QED
    BY <1>1, <1>3, <2>1, <2>2, HolderStepKeeps DEF Match, IInv, TypeOK, UnderLock, Swap, Removal, Whole, Fits
<1> QED
  BY <1>2, <1>3 DEF Match, InPlace

LEMMA PreflightKeeps ==
    ASSUME IInv, NEW p \in Procs, Preflight(p)
    PROVE  IInv'
<1> DEFINE pc == IF cmd[p].kind = "write" THEN "swapYaml" ELSE "removeYaml"
<1>1. CASE Stops(p)
  BY <1>1, StopsKeeps DEF Preflight
<1>2. CASE Goto(p, pc)
  <2>1. ~torn => Whole(dir)
    BY HolderIsAlone DEF Preflight, At, UnderLock, Swap, Removal
  <2>2. Made([cmd[p] EXCEPT !.pc = pc], dir)
    BY DEF IInv, TypeOK, Made
  <2> QED
    BY <1>2, <2>1, <2>2, HolderStepKeeps
       DEF Preflight, At, IInv, TypeOK, UnderLock, Swap, Removal, Whole, Fits
<1> QED
  BY <1>1, <1>2 DEF Preflight

LEMMA SwapYamlKeeps ==
    ASSUME IInv, NEW p \in Procs, SwapYaml(p)
    PROVE  IInv'
<1>1. CASE Stops(p) /\ UNCHANGED dir
  BY <1>1, StopsKeeps DEF SwapYaml
<1>2. CASE dir' = [dir EXCEPT !.yaml = Want(p).yaml] /\ Goto(p, "swapPass")
  <2>1. dir' \in Template /\ Made([cmd[p] EXCEPT !.pc = "swapPass"], dir')
    BY <1>2 DEF IInv, TypeOK, Template, Want, Made
  <2>2. cmd[p].kind = "write"
    BY DEF IInv, TypeOK, Checked, SwapYaml, At, Removal
  <2> QED
    BY <1>2, <2>1, <2>2, HolderStepKeeps DEF SwapYaml, At, UnderLock, Swap, Removal
<1> QED
  BY <1>1, <1>2 DEF SwapYaml

LEMMA SwapPassKeeps ==
    ASSUME IInv, NEW p \in Procs, SwapPass(p)
    PROVE  IInv'
<1>1. CASE dir' = [dir EXCEPT !.yaml = Absent] /\ Stops(p)
  <2>1. dir' \in Template
    BY <1>1 DEF IInv, TypeOK, Template
  <2> QED
    BY <1>1, <2>1, StopsHalfWayKeeps DEF SwapPass, At, Swap
<1>2. CASE dir' = [dir EXCEPT !.pass = Want(p).pass] /\ Goto(p, "swapFail")
  <2>1. dir' \in Template /\ dir'.yaml = dir.yaml /\ dir'.pass = Want(p).pass
    BY <1>2 DEF IInv, TypeOK, Template, Want
  <2>2. Made([cmd[p] EXCEPT !.pc = "swapFail"], dir')
    BY <2>1 DEF IInv, TypeOK, Made, Want, SwapPass, At
  <2>3. cmd[p].kind = "write"
    BY DEF IInv, TypeOK, Checked, SwapPass, At, Removal
  <2> QED
    BY <1>2, <2>1, <2>2, <2>3, HolderStepKeeps DEF SwapPass, At, UnderLock, Swap, Removal
<1> QED
  BY <1>1, <1>2 DEF SwapPass

\* The third rename completes the template that was checked before the lock.
LEMMA SwapFailKeeps ==
    ASSUME IInv, NEW p \in Procs, SwapFail(p)
    PROVE  IInv'
<1>1. CASE dir' = [dir EXCEPT !.yaml = Absent, !.pass = Absent] /\ Stops(p)
  <2>1. dir' \in Template
    BY <1>1 DEF IInv, TypeOK, Template
  <2> QED
    BY <1>1, <2>1, StopsHalfWayKeeps DEF SwapFail, At, Swap
<1>2. CASE dir' = [dir EXCEPT !.fail = Want(p).fail] /\ Goto(p, "commit")
  <2>1. cmd[p].kind = "write" /\ Fits(cmd[p].want)
    BY DEF IInv, TypeOK, Checked, SwapFail, At, Removal, Swap, UnderLock
  <2>2. dir.yaml = Want(p).yaml /\ dir.pass = Want(p).pass
    BY DEF IInv, Made, SwapFail, At, Want
  <2>3. dir' = Want(p) /\ dir' \in Template
    BY <1>2, <2>2 DEF IInv, TypeOK, Template, Want
  <2>4. Made([cmd[p] EXCEPT !.pc = "commit"], dir')
    BY <2>1, <2>3 DEF IInv, TypeOK, Made, Want
  <2>5. Whole(dir')
    BY <2>1, <2>3 DEF Whole, Fits, Want
  <2> QED
    BY <1>2, <2>1, <2>3, <2>4, <2>5, HolderStepKeeps DEF SwapFail, At, UnderLock, Swap, Removal
<1> QED
  BY <1>1, <1>2 DEF SwapFail

LEMMA RemoveKeeps ==
    ASSUME IInv, NEW p \in Procs, RemoveYaml(p) \/ RemovePass(p) \/ RemoveFail(p)
    PROVE  IInv'
<1>1. cmd[p].kind = "delete" /\ cmd[p].pc \in UnderLock
  BY DEF IInv, TypeOK, Checked, RemoveYaml, RemovePass, RemoveFail, At, Removal, UnderLock
<1>2. CASE Stops(p) /\ UNCHANGED dir
  BY <1>2, StopsKeeps DEF RemoveYaml, RemovePass, RemoveFail
<1>3. CASE RemoveYaml(p) /\ Goto(p, "removePass")
  <2>1. CASE dir' = [dir EXCEPT !.yaml = Absent]
    <3>1. dir' \in Template /\ Made([cmd[p] EXCEPT !.pc = "removePass"], dir')
      BY <2>1 DEF IInv, TypeOK, Template, Made
    <3> QED
      BY <1>1, <1>3, <3>1, HolderStepKeeps DEF RemoveYaml, UnderLock, Swap, Removal
  <2> QED
    BY <1>2, <1>3, <2>1 DEF RemoveYaml
<1>4. CASE RemovePass(p) /\ Goto(p, "removeFail")
  <2>1. CASE dir' = [dir EXCEPT !.pass = Absent]
    <3>1. dir' \in Template /\ dir'.yaml = dir.yaml /\ dir'.pass = Absent
      BY <2>1 DEF IInv, TypeOK, Template
    <3>2. Made([cmd[p] EXCEPT !.pc = "removeFail"], dir')
      BY <1>4, <3>1 DEF IInv, TypeOK, Made, RemovePass, At
    <3> QED
      BY <1>1, <1>4, <3>1, <3>2, HolderStepKeeps DEF RemovePass, UnderLock, Swap, Removal
  <2> QED
    BY <1>2, <1>4, <2>1 DEF RemovePass
<1>5. CASE RemoveFail(p) /\ Goto(p, "commit")
  <2>1. CASE dir' = [dir EXCEPT !.fail = Absent]
    <3>1. dir.yaml = Absent /\ dir.pass = Absent
      BY <1>5 DEF IInv, Made, RemoveFail, At
    <3>2. dir' = NoTemplate /\ dir' \in Template
      BY <2>1, <3>1 DEF IInv, TypeOK, Template, NoTemplate
    <3>3. Made([cmd[p] EXCEPT !.pc = "commit"], dir')
      BY <1>1, <3>2 DEF IInv, TypeOK, Made
    <3> QED
      BY <1>1, <1>5, <3>2, <3>3, HolderStepKeeps DEF RemoveFail, UnderLock, Swap, Removal, Whole
  <2> QED
    BY <1>2, <1>5, <2>1 DEF RemoveFail
<1> QED
  BY <1>2, <1>3, <1>4, <1>5 DEF RemoveYaml, RemovePass, RemoveFail

\* A commit records the files as they are under the lock: whole.
LEMMA CommitKeeps ==
    ASSUME IInv, NEW p \in Procs, Commit(p)
    PROVE  IInv'
<1>1. Whole(dir) /\ cmd[p].pc \in UnderLock
  BY DEF IInv, TypeOK, Checked, Made, Commit, At, Whole, UnderLock
<1>2. CASE Stops(p) /\ UNCHANGED head
  BY <1>2, StopsKeeps DEF Commit
<1>3. CASE Succeeds(p) /\ head' \in {head, dir}
  BY <1>1, <1>3, EndKeeps DEF Commit, Succeeds, IInv, TypeOK, Whole, Fits
<1> QED
  BY <1>2, <1>3 DEF Commit, CommitPaths

LEMMA NextKeeps == IInv /\ [Next]_vars => IInv'
<1>1. ASSUME IInv, UNCHANGED vars PROVE IInv'
  BY <1>1 DEF vars, IInv, TypeOK, Checked, Made, WholeBetween, Undisturbed, Whole, Fits
<1>2. ASSUME IInv, NEW p \in Procs, Step(p) PROVE IInv'
  <2>1. CASE Killed(p)
    BY <1>2, <2>1, StopsKeeps DEF Killed
  <2> QED
    BY <1>2, <2>1, StartKeeps, StatKeeps, ReadPassKeeps, ReadFailKeeps, LockKeeps, MatchKeeps,
       PreflightKeeps, SwapYamlKeeps, SwapPassKeeps, SwapFailKeeps, RemoveKeeps, CommitKeeps DEF Step
<1> QED
  BY <1>1, <1>2 DEF Next

-----------------------------------------------------------------------------
(* The theorems.                                                           *)

\* The inductive invariant holds in every state, for any processes, rules and
\* mockups.
THEOREM TemplatesInvariant == Spec => []IInv
<1> QED
  BY InitIInv, NextKeeps, PTL DEF Spec

\* Every variable has its type, and exactly the lock holder is under the lock.
THEOREM TemplatesType == Spec => []TypeOK
<1>1. IInv => TypeOK
  BY DEF IInv
<1> QED
  BY <1>1, TemplatesInvariant, PTL

\* Between commands the three files of a template fit each other, whatever
\* mockups a write kept from a template that was replaced or deleted since
\* (runTemplatesWrite), unless a swap or a removal stopped half way.
THEOREM TemplateAlwaysFits == Spec => []TemplateFits
<1>1. IInv => TemplateFits
  BY TemplatesAssumption DEF IInv, TypeOK, TemplateFits, WholeBetween, Whole, Undisturbed, UnderLock
<1> QED
  BY <1>1, TemplatesInvariant, PTL

\* HEAD has a template whose files fit each other, or none, whatever was left
\* half way before.
THEOREM HeadAlwaysFits == Spec => []HeadFits
<1>1. IInv => HeadFits
  BY DEF IInv, HeadFits, Whole
<1> QED
  BY <1>1, TemplatesInvariant, PTL

\* A step changes the command of its own process only.
LEMMA OthersKeep ==
    ASSUME IInv, NEW p \in Procs, NEW q \in Procs \ {p}, Step(q)
    PROVE  cmd'[p] = cmd[p]
<1>1. CASE StartWrite(q) \/ StartDelete(q)
  BY <1>1 DEF IInv, TypeOK, StartWrite, StartDelete, Begin
<1>2. CASE Stat(q) \/ ReadPass(q) \/ ReadFail(q) \/ Lock(q) \/ Match(q) \/ Preflight(q)
  BY <1>2 DEF IInv, TypeOK, Stat, ReadPass, ReadFail, Lock, Match, Preflight, Goto, Succeeds, Stops, Ends
<1>3. CASE SwapYaml(q) \/ SwapPass(q) \/ SwapFail(q) \/ RemoveYaml(q) \/ RemovePass(q) \/ RemoveFail(q)
  BY <1>3 DEF IInv, TypeOK, SwapYaml, SwapPass, SwapFail, RemoveYaml, RemovePass, RemoveFail, Goto, Stops, Ends
<1>4. CASE Commit(q) \/ Killed(q)
  BY <1>4 DEF IInv, TypeOK, Commit, Killed, Succeeds, Stops, Ends
<1> QED
  BY <1>1, <1>2, <1>3, <1>4 DEF Step

\* Only a write with nothing to do and a commit end a command with success.
LEMMA SuccessSteps ==
    ASSUME IInv, NEW p \in Procs, Step(p), cmd[p].pc # "idle", cmd'[p].result = "ok"
    PROVE  Match(p) \/ Commit(p)
<1>1. cmd[p].result = "none"
  BY DEF IInv, Checked
<1>2. ~Stops(p)
  BY DEF IInv, TypeOK, Stops, Ends, Idle
<1>3. \A pc : ~Goto(p, pc)
  BY <1>1 DEF IInv, TypeOK, Goto
<1>4. ~StartWrite(p) /\ ~StartDelete(p) /\ ~Killed(p)
  BY <1>2 DEF StartWrite, StartDelete, Begin, At, Killed
<1>5. ~Stat(p) /\ ~ReadPass(p) /\ ~ReadFail(p) /\ ~Lock(p)
  BY <1>1, <1>2 DEF IInv, TypeOK, Stat, ReadPass, ReadFail, Lock
<1>6. ~Preflight(p) /\ ~SwapYaml(p) /\ ~SwapPass(p) /\ ~SwapFail(p)
  BY <1>2, <1>3 DEF Preflight, SwapYaml, SwapPass, SwapFail
<1>7. ~RemoveYaml(p) /\ ~RemovePass(p) /\ ~RemoveFail(p)
  BY <1>2, <1>3 DEF RemoveYaml, RemovePass, RemoveFail
<1> QED
  BY <1>4, <1>5, <1>6, <1>7 DEF Step

\* A write that returns success has its own three files in place and, with a
\* commit, in HEAD (templateFilesMatch, Store.NothingToCommit, Store.Commit).
THEOREM WriteAlwaysRecorded == Spec => WriteIsRecorded
<1> DEFINE Recorded(p) ==
       cmd[p].kind = "write" /\ cmd[p].pc # "idle" /\ cmd'[p].result = "ok"
       => dir' = Want(p) /\ (cmd[p].commits => head' = Want(p))
<1>1. ASSUME IInv, Next, NEW p \in Procs PROVE Recorded(p)
  <2> SUFFICES ASSUME cmd[p].kind = "write", cmd[p].pc # "idle", cmd'[p].result = "ok"
               PROVE  dir' = Want(p) /\ (cmd[p].commits => head' = Want(p))
    OBVIOUS
  <2>1. Step(p)
    BY <1>1, OthersKeep DEF Next, IInv, Checked
  <2>2. ~Stops(p) /\ \A pc : ~Goto(p, pc)
    BY <1>1, ZenonT(30) DEF IInv, TypeOK, Checked, Stops, Ends, Idle, Goto
  <2>3. CASE Match(p)
    BY <2>2, <2>3 DEF Match, InPlace, NothingToCommit
  <2>4. CASE Commit(p)
    BY <1>1, <2>2, <2>4 DEF IInv, Made, Commit, CommitPaths, At, Want
  <2> QED
    BY <1>1, <2>1, <2>3, <2>4, SuccessSteps
<1>2. ASSUME IInv, UNCHANGED vars, NEW p \in Procs PROVE Recorded(p)
  BY <1>2 DEF IInv, Checked, vars
<1>3. IInv /\ [Next]_vars => [\A p \in Procs : Recorded(p)]_vars
  BY <1>1, <1>2
<1> QED
  BY <1>3, TemplatesInvariant, PTL DEF Spec, WriteIsRecorded
-----------------------------------------------------------------------------
(* The store lock as the commands use it.                                  *)

\* The processes past their acquisition: what module Mutex calls inside.
Inside == [l \in {"store"} |-> {p \in Procs : cmd[p].pc \in UnderLock}]
StoreLock == INSTANCE Mutex WITH Locks <- {"store"}, inside <- Inside

LEMMA InsideIsHolder ==
    ASSUME TypeOK
    PROVE  Inside = [l \in {"store"} |-> IF lock = NoOne THEN {} ELSE {lock}]
<1>1. {p \in Procs : cmd[p].pc \in UnderLock} = IF lock = NoOne THEN {} ELSE {lock}
  BY TemplatesAssumption DEF TypeOK
<1> QED
  BY <1>1 DEF Inside

\* A process takes the lock when it is free, and gives back what it holds.
LEMMA LockMoves ==
    ASSUME TypeOK, [Next]_vars, lock' # lock
    PROVE  \/ lock = NoOne /\ lock' \in Procs
           \/ lock \in Procs /\ lock' = NoOne
<1> DEFINE End(p) == \E result : Ends(p, result)
<1>1. PICK p \in Procs : Step(p)
  BY DEF Next, vars
<1>2. CASE End(p)
  BY <1>2 DEF Ends
<1>3. CASE Lock(p)
  BY <1>3 DEF Lock, LockFree
<1>4. End(p) \/ Lock(p)
  <2>1. ~StartWrite(p) /\ ~StartDelete(p)
    <3>1. \A c : ~Begin(p, c)
      BY DEF Begin
    <3> QED
      BY <3>1, Zenon DEF StartWrite, StartDelete
  <2>2. Stat(p) \/ ReadPass(p) \/ ReadFail(p) => End(p)
    BY DEF Stat, ReadPass, ReadFail, Stops
  <2>3. Match(p) \/ Preflight(p) => End(p)
    BY DEF Match, Preflight, Stops, Succeeds, Goto
  <2>4. SwapYaml(p) \/ SwapPass(p) \/ SwapFail(p) => End(p)
    BY DEF SwapYaml, SwapPass, SwapFail, Stops, Goto
  <2>5. RemoveYaml(p) \/ RemovePass(p) \/ RemoveFail(p) => End(p)
    BY DEF RemoveYaml, RemovePass, RemoveFail, Stops, Goto
  <2>6. Commit(p) \/ Killed(p) => End(p)
    BY DEF Commit, Killed, Stops, Succeeds
  <2> QED
    BY <1>1, <2>1, <2>2, <2>3, <2>4, <2>5, <2>6 DEF Step
<1> QED
  BY <1>1, <1>2, <1>3, <1>4

\* The commands of module Templates use the store lock as module Mutex describes it, the
\* module that RepoLock implements: at most one process is between LockRepo and
\* Release, and a process that is killed leaves.
THEOREM TemplatesUsesMutex == Spec => StoreLock!Spec
<1>1. Init => StoreLock!Init
  <2> SUFFICES ASSUME Init PROVE StoreLock!Init
    OBVIOUS
  <2>1. {p \in Procs : cmd[p].pc \in UnderLock} = {}
    BY InitIInv, TemplatesAssumption DEF Init, IInv, TypeOK
  <2> QED
    BY <2>1 DEF Inside, StoreLock!Init
<1>2. TypeOK /\ TypeOK' /\ [Next]_vars => [StoreLock!Next]_Inside
  <2> SUFFICES ASSUME TypeOK, TypeOK', [Next]_vars PROVE [StoreLock!Next]_Inside
    OBVIOUS
  <2>1. Inside = [l \in {"store"} |-> IF lock = NoOne THEN {} ELSE {lock}]
    BY InsideIsHolder
  <2>2. Inside' = [l \in {"store"} |-> IF lock' = NoOne THEN {} ELSE {lock'}]
    <3>1. TypeOK' => (Inside = [l \in {"store"} |-> IF lock = NoOne THEN {} ELSE {lock}])'
      BY InsideIsHolder, PTL
    <3> QED
      BY <3>1
  <2>3. CASE lock' = lock
    BY <2>1, <2>2, <2>3
  <2>4. CASE lock = NoOne /\ lock' \in Procs
    <3>1. StoreLock!Enter(lock', "store")
      BY <2>1, <2>2, <2>4, TemplatesAssumption DEF StoreLock!Enter
    <3> QED
      BY <2>4, <3>1 DEF StoreLock!Next
  <2>5. CASE lock \in Procs /\ lock' = NoOne
    <3>1. StoreLock!Leave(lock, "store")
      BY <2>1, <2>2, <2>5, TemplatesAssumption DEF StoreLock!Leave
    <3> QED
      BY <2>5, <3>1 DEF StoreLock!Next
  <2> QED
    BY <2>3, <2>4, <2>5, LockMoves
<1>3. Spec => []TypeOK
  BY TemplatesType
<1> QED
  BY <1>1, <1>2, <1>3, PTL DEF Spec, StoreLock!Spec
=============================================================================
