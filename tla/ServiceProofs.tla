---------------------------- MODULE ServiceProofs ----------------------------
(***************************************************************************)
(* Proofs about what a script and its builders call, and about the front   *)
(* end that starts the script: an invariant for each of the services, and  *)
(* from these the theorems about Services.                                 *)
(***************************************************************************)
EXTENDS Services, SequenceTheorems, TLAPS

-----------------------------------------------------------------------------
(* The front end                                                             *)

MainTypeOK ==
  /\ clock \in Nat /\ since \in Nat
  /\ there \subseteq R!File
  /\ changed \in [R!File -> Nat]
  /\ config \in R!Config /\ cfg \in R!Config
  /\ made \in [Exe -> [cmd : Command \cup {R!None}, from : [Source -> Nat]]]
  /\ mainAt \in {"idle", "read", "compiling", "running"}

(* No time lies in the future. *)
TimesPast ==
  since <= clock /\ \A f \in R!File : changed[f] <= clock

(* The config that main works with names an executable and is, until the     *)
(* script runs, what .zmm says.                                              *)
ConfigHeld ==
  /\ mainAt # "idle" => cfg.exe \in Exe
  /\ mainAt \in {"read", "compiling"} => cfg = config

(* What a time comparison tells about an executable that is there.           *)
TimesTell ==
  \A e \in Exe \cap there :
    /\ changed[".zmm"] <= changed[e] => made[e].cmd = config.cmd
    /\ \A s \in Source : changed[s] <= changed[e] => made[e].from[s] = changed[s]

(* The inductive invariant. *)
MainInv == MainTypeOK /\ TimesPast /\ ConfigHeld /\ TimesTell /\ R!RunsCurrent

(* At first no executable is there.                                          *)
LEMMA MainInit == ASSUME R!Init PROVE MainInv
<1>1. there \cap Exe = {}
  BY ExeAssumption DEF R!Init
<1>2. MainTypeOK
  BY DEF R!Init, MainTypeOK, R!File, R!Config, R!Nothing
<1>3. TimesPast /\ ConfigHeld /\ R!RunsCurrent
  BY DEF R!Init, TimesPast, ConfigHeld, R!RunsCurrent
<1> QED BY <1>1, <1>2, <1>3 DEF MainInv, TimesTell

(* A source is written or removed: it is newer than every executable, and    *)
(* than the comparison.                                                      *)
LEMMA EditSourceKeeps ==
  ASSUME MainInv, R!EditSource PROVE MainInv'
<1> USE DEF MainInv
<1>1. PICK s \in Source :
         /\ clock' = clock + 1
         /\ changed' = [changed EXCEPT ![s] = clock']
         /\ there' \in {there \cup {s}, there \ {s}}
         /\ UNCHANGED <<config, made, mainAt, cfg, since, code>>
  BY DEF R!EditSource, R!Tick
<1>2. s \in R!File /\ s \notin Exe
  BY ExeAssumption DEF R!File
<1>3. MainTypeOK'
  BY <1>1, <1>2 DEF MainTypeOK, R!File, R!Config
<1>4. TimesPast'
  BY <1>1, <1>2 DEF MainTypeOK, TimesPast, R!File
<1>5. ConfigHeld'
  BY <1>1 DEF ConfigHeld
<1>6. TimesTell'
  BY <1>1, <1>2 DEF MainTypeOK, TimesPast, TimesTell, R!File
<1>7. R!RunsCurrent'
  BY <1>1, <1>2 DEF MainTypeOK, TimesPast, R!RunsCurrent, R!File, R!Config
<1> QED BY <1>3, <1>4, <1>5, <1>6, <1>7

(* .zmm is written or removed: it is newer than every executable.  main does *)
(* not look at it again until it has returned.                               *)
LEMMA EditConfigKeeps ==
  ASSUME MainInv, R!EditConfig PROVE MainInv'
<1> USE DEF MainInv
<1>1. /\ clock' = clock + 1
      /\ changed' = [changed EXCEPT ![".zmm"] = clock']
      /\ there' \in {there \cup {".zmm"}, there \ {".zmm"}}
      /\ config' \in R!Config
      /\ mainAt \in {"idle", "running"}
      /\ UNCHANGED <<made, mainAt, cfg, since, code>>
  BY DEF R!EditConfig, R!Tick, MainTypeOK
<1>2. ".zmm" \in R!File /\ ".zmm" \notin Exe
  BY ExeAssumption DEF R!File
<1>3. MainTypeOK'
  BY <1>1, <1>2 DEF MainTypeOK, R!File, R!Config
<1>4. TimesPast'
  BY <1>1, <1>2 DEF MainTypeOK, TimesPast
<1>5. ConfigHeld'
  BY <1>1 DEF ConfigHeld
<1>6. TimesTell'
  BY <1>1, <1>2 DEF MainTypeOK, TimesPast, TimesTell, R!File
<1>7. R!RunsCurrent'
  BY <1>1, <1>2 DEF MainTypeOK, TimesPast, R!RunsCurrent, R!File, R!Config
<1> QED BY <1>3, <1>4, <1>5, <1>6, <1>7

(* Steps of the developer and of main that make nothing newer.               *)
LEMMA RemoveExeKeeps ==
  ASSUME MainInv, R!RemoveExe PROVE MainInv'
BY DEF R!RemoveExe, MainInv, MainTypeOK, TimesPast, ConfigHeld, TimesTell,
       R!RunsCurrent, R!File, R!Config

LEMMA RefuseKeeps ==
  ASSUME MainInv, R!Refuse PROVE MainInv'
BY DEF R!Refuse, R!Returns, R!Nothing, MainInv, MainTypeOK, TimesPast,
       ConfigHeld, TimesTell, R!RunsCurrent, R!File, R!Config

LEMMA ReadConfigKeeps ==
  ASSUME MainInv, R!ReadConfig PROVE MainInv'
<1> USE DEF MainInv
<1>1. config.exe \in Exe
  BY DEF R!ReadConfig, R!Unusable, MainTypeOK, R!Config
<1> QED BY <1>1 DEF R!ReadConfig, MainTypeOK, TimesPast, ConfigHeld, TimesTell,
                    R!RunsCurrent, R!File, R!Config

(* main compares the times: an executable that is not older than .zmm and    *)
(* the sources was made by the command of .zmm and from these sources.       *)
LEMMA CompareKeeps ==
  ASSUME MainInv, R!Compare PROVE MainInv'
<1> USE DEF MainInv
<1>1. MainTypeOK' /\ TimesPast' /\ ConfigHeld' /\ TimesTell'
  BY DEF R!Compare, MainTypeOK, TimesPast, ConfigHeld, TimesTell, R!File, R!Config
<1>2. R!RunsCurrent'
  <2> SUFFICES ASSUME ~ R!Dirty, mainAt = "read"
               PROVE  /\ made[cfg.exe].cmd = cfg.cmd
                      /\ \A s \in cfg.srcs :
                           changed[s] > clock \/ made[cfg.exe].from[s] = changed[s]
    BY DEF R!Compare, R!RunsCurrent
  <2>1. cfg = config /\ cfg.exe \in Exe /\ cfg.srcs \subseteq Source
    BY DEF ConfigHeld, MainTypeOK, R!Config
  <2>2. cfg.exe \in there
    BY DEF R!Dirty, R!IsDirty
  <2>3. \A f \in cfg.srcs \cup {".zmm"} : changed[f] <= changed[cfg.exe]
    BY <2>1 DEF R!Dirty, R!IsDirty, MainTypeOK, R!File
  <2> QED BY <2>1, <2>2, <2>3 DEF TimesTell
<1> QED BY <1>1, <1>2

(* The compiler is done: the executable is the newest of all files.          *)
LEMMA CompileDoneKeeps ==
  ASSUME MainInv, R!CompileDone PROVE MainInv'
<1> USE DEF MainInv
<1> DEFINE e == cfg.exe
<1>1. e \in Exe /\ cfg = config /\ mainAt = "compiling"
  BY DEF R!CompileDone, ConfigHeld
<1>2. /\ clock' = clock + 1
      /\ there' = there \cup {e}
      /\ changed' = [changed EXCEPT ![e] = clock']
      /\ made' = [made EXCEPT ![e] =
                    [cmd |-> cfg.cmd, from |-> [s \in Source |-> changed[s]]]]
      /\ mainAt' = "running"
      /\ UNCHANGED <<config, cfg, since, code>>
  BY DEF R!CompileDone, R!Tick
<1>3. e \in R!File /\ e \notin Source /\ e # ".zmm" /\ Source \subseteq R!File
  BY <1>1, ExeAssumption DEF R!File
<1>4. MainTypeOK'
  <2>1. [cmd |-> cfg.cmd, from |-> [s \in Source |-> changed[s]]]
          \in [cmd : Command \cup {R!None}, from : [Source -> Nat]]
    BY <1>3 DEF MainTypeOK, R!Config
  <2>2. made' \in [Exe -> [cmd : Command \cup {R!None}, from : [Source -> Nat]]]
    BY <1>1, <1>2, <2>1 DEF MainTypeOK
  <2> QED BY <1>2, <1>3, <2>2 DEF MainTypeOK, R!File, R!Config
<1>5. TimesPast'
  BY <1>2, <1>3 DEF MainTypeOK, TimesPast
<1>6. ConfigHeld'
  BY <1>1, <1>2 DEF ConfigHeld
<1>7. made'[e].cmd = cfg.cmd /\ \A s \in Source : made'[e].from[s] = changed[s]
  BY <1>1, <1>2 DEF MainTypeOK
<1>8. \A s \in Source : changed'[s] = changed[s]
  BY <1>2, <1>3 DEF MainTypeOK
<1>9. TimesTell'
  <2> SUFFICES ASSUME NEW x \in Exe \cap there'
               PROVE  /\ changed'[".zmm"] <= changed'[x] => made'[x].cmd = config'.cmd
                      /\ \A s \in Source :
                           changed'[s] <= changed'[x] => made'[x].from[s] = changed'[s]
    BY DEF TimesTell
  <2>1. CASE x = e
    BY <1>1, <1>2, <1>7, <1>8, <2>1
  <2>2. CASE x # e
    <3>1. made'[x] = made[x] /\ changed'[x] = changed[x] /\ x \in there
      BY <1>2, <2>2 DEF MainTypeOK, R!File
    <3>2. changed'[".zmm"] = changed[".zmm"]
      BY <1>2, <1>3 DEF MainTypeOK, R!File
    <3> QED BY <1>2, <1>8, <3>1, <3>2 DEF TimesTell
  <2> QED BY <2>1, <2>2
<1>10. R!RunsCurrent'
  BY <1>1, <1>2, <1>7, <1>8 DEF MainTypeOK, R!RunsCurrent, R!Config
<1> QED BY <1>4, <1>5, <1>6, <1>9, <1>10

(* The compiler failed, the script ended, or all was interrupted.            *)
LEMMA LeaveKeeps ==
  ASSUME MainInv, R!CompileFailed \/ R!ScriptDone \/ R!Interrupted PROVE MainInv'
<1> USE DEF MainInv
<1>1. /\ there' \subseteq there
      /\ mainAt' = "idle" /\ cfg' = R!Nothing /\ since' = 0
      /\ UNCHANGED <<clock, changed, config, made>>
  BY DEF R!CompileFailed, R!ScriptDone, R!Interrupted, R!Returns
<1> QED BY <1>1 DEF R!Nothing, MainTypeOK, TimesPast, ConfigHeld, TimesTell,
                    R!RunsCurrent, R!File, R!Config

(* Every step of the front end keeps the invariant.                          *)
LEMMA MainStep == MainInv /\ [R!Next]_(R!vars) => MainInv'
<1> SUFFICES ASSUME MainInv, [R!Next]_(R!vars) PROVE MainInv'
  OBVIOUS
<1>1. CASE R!EditSource
  BY <1>1, EditSourceKeeps
<1>2. CASE R!EditConfig
  BY <1>2, EditConfigKeeps
<1>3. CASE R!RemoveExe \/ R!Refuse \/ R!ReadConfig
  BY <1>3, RemoveExeKeeps, RefuseKeeps, ReadConfigKeeps
<1>4. CASE R!Compare
  BY <1>4, CompareKeeps
<1>5. CASE R!CompileDone
  BY <1>5, CompileDoneKeeps
<1>6. CASE R!CompileFailed \/ R!ScriptDone \/ R!Interrupted
  BY <1>6, LeaveKeeps
<1>7. CASE UNCHANGED R!vars
  BY <1>7 DEF R!vars, MainInv, MainTypeOK, TimesPast, ConfigHeld, TimesTell,
              R!RunsCurrent, R!File, R!Config
<1> QED BY <1>1, <1>2, <1>3, <1>4, <1>5, <1>6, <1>7 DEF R!Next
-----------------------------------------------------------------------------
(* The directories of outputs                                                *)

PathsTypeOK ==
  /\ disk \in [M!Path -> {"none", "dir", "file"}]
  /\ denied \subseteq M!Path
  /\ want \in [Thread -> M!Path]
  /\ at \in [Thread -> Nat]
  /\ status \in [Thread -> {"making", "0", "1"}]

(* Why a path cannot be made, now or later: nobody removes anything.         *)
Hopeless(p) ==
  \/ \E q \in M!Parents(p) : disk[q] = "file"
  \/ \E q \in M!Parents(p) \cup {p} : q \in denied /\ disk[q] = "none"

(* What a call has tried is there, or for a reason is not: it does not look  *)
(* at what mkdir says of a directory above.                                  *)
TriedAbove ==
  \A t \in Thread : \A q \in M!Parents(want[t]) :
    Len(q) <= at[t] => disk[q] # "none" \/ Hopeless(q)

(* The inductive invariant. *)
PathsInv == PathsTypeOK /\ M!Tree(disk) /\ TriedAbove /\ M!StatusHonest

(* A path's parents are its beginnings.                                      *)
LEMMA PathIsSeq ==
  ASSUME NEW p \in M!Path
  PROVE  /\ p \in Seq(Name) /\ Len(p) \in Nat /\ Len(p) >= 1
         /\ p = [i \in 1 .. Len(p) |-> p[i]]
<1>1. PICK m \in 0 .. MaxDepth : p \in [1 .. m -> Name]
  BY DEF M!Path, M!SeqOf
<1>2. p \in Seq(Name) /\ Len(p) = m
  BY <1>1
<1>3. p # <<>>
  BY DEF M!Path
<1> QED BY <1>1, <1>2, <1>3

(* The directories above a path.                                             *)
LEMMA ParentsAre ==
  ASSUME NEW p \in M!Path
  PROVE  \A q \in M!Path :
           q \in M!Parents(p) <=>
             Len(q) < Len(p) /\ \A i \in 1 .. Len(q) : q[i] = p[i]
<1> SUFFICES ASSUME NEW q \in M!Path
             PROVE  q \in M!Parents(p) <=>
                      Len(q) < Len(p) /\ \A i \in 1 .. Len(q) : q[i] = p[i]
  OBVIOUS
<1>1. q \in M!Parents(p) <=>
        /\ Len(q) <= Len(p) /\ q # p
        /\ SubSeq(q, 1, Len(q)) = SubSeq(p, 1, Len(q))
  BY DEF M!Parents, M!IsStrictPrefix, M!IsPrefix
<1>2. /\ p \in Seq(Name) /\ Len(p) \in Nat /\ p = [i \in 1 .. Len(p) |-> p[i]]
      /\ q \in Seq(Name) /\ Len(q) \in Nat /\ q = [i \in 1 .. Len(q) |-> q[i]]
  BY PathIsSeq
<1>3. SubSeq(q, 1, Len(q)) = q
  BY <1>2
<1>4. CASE Len(q) <= Len(p)
  <2>1. SubSeq(p, 1, Len(q)) = [i \in 1 .. Len(q) |-> p[i]]
    BY <1>2, <1>4
  <2>2. SubSeq(q, 1, Len(q)) = SubSeq(p, 1, Len(q))
          <=> \A i \in 1 .. Len(q) : q[i] = p[i]
    BY <1>2, <1>3, <2>1
  <2>3. (\A i \in 1 .. Len(q) : q[i] = p[i]) => (q = p <=> Len(q) = Len(p))
    BY <1>2
  <2>4. Len(q) < Len(p) <=> Len(q) # Len(p)
    <3>1. Len(p) \in Nat /\ Len(q) \in Nat
      BY PathIsSeq
    <3> QED BY <1>4, <3>1
  <2> DEFINE same == \A i \in 1 .. Len(q) : q[i] = p[i]
  <2>5. same => (q = p <=> Len(q) = Len(p))
    BY <2>3
  <2>6. q \in M!Parents(p) <=> q # p /\ same
    BY <1>1, <1>4, <2>2
  <2> HIDE DEF same
  <2>7. q \in M!Parents(p) <=> Len(q) < Len(p) /\ same
    BY <2>4, <2>5, <2>6
  <2> QED BY <2>7 DEF same
<1>5. CASE ~ (Len(q) <= Len(p))
  BY <1>1, <1>2, <1>5
<1> QED BY <1>4, <1>5

(* What is above a parent is above the path.                                 *)
LEMMA ParentsOfParents ==
  ASSUME NEW p \in M!Path, NEW q \in M!Parents(p), NEW r \in M!Parents(q)
  PROVE  r \in M!Parents(p)
<1>1. q \in M!Path /\ r \in M!Path
  BY DEF M!Parents
<1>2. Len(p) \in Nat /\ Len(q) \in Nat /\ Len(r) \in Nat
  BY <1>1, PathIsSeq
<1> QED BY <1>1, <1>2, ParentsAre

(* The beginning of a path that a call tries next.                           *)
LEMMA Beginning ==
  ASSUME NEW p \in M!Path, NEW k \in 1 .. Len(p)
  PROVE  LET b == SubSeq(p, 1, k) IN
         /\ b \in M!Path /\ Len(b) = k
         /\ k < Len(p) => b \in M!Parents(p)
         /\ \A q \in M!Parents(p) : Len(q) = k => q = b
<1> DEFINE b == SubSeq(p, 1, k)
<1>1. PICK m \in 0 .. MaxDepth : p \in [1 .. m -> Name]
  BY DEF M!Path, M!SeqOf
<1>2. p \in Seq(Name) /\ Len(p) = m /\ m \in Nat
  BY <1>1
<1>3. b = [i \in 1 .. k |-> p[i]] /\ Len(b) = k
  BY <1>2
<1>4. b \in M!Path
  <2>1. k \in 0 .. MaxDepth
    BY <1>2, DepthAssumption
  <2>2. \A i \in 1 .. k : p[i] \in Name
    BY <1>1, <1>2
  <2>3. b \in [1 .. k -> Name]
    BY <1>3, <2>2
  <2>4. b # <<>>
    BY <1>3
  <2> QED BY <2>1, <2>3, <2>4 DEF M!Path, M!SeqOf
<1>5. k < Len(p) => b \in M!Parents(p)
  BY <1>3, <1>4, ParentsAre
<1>6. ASSUME NEW q \in M!Parents(p), Len(q) = k PROVE q = b
  <2>1. q \in M!Path
    BY DEF M!Parents
  <2>2. q = [i \in 1 .. k |-> q[i]] /\ \A i \in 1 .. k : q[i] = p[i]
    BY <1>6, <2>1, PathIsSeq, ParentsAre
  <2> QED BY <1>3, <2>2
<1> QED BY <1>3, <1>4, <1>5, <1>6

(* mkdir only adds, and never what is denied: a reason lasts.                *)
LEMMA MkdirAdds ==
  ASSUME PathsInv, NEW p \in M!Path, M!Mkdir(p), denied' = denied
  PROVE  /\ disk' \in [M!Path -> {"none", "dir", "file"}]
         /\ \A q \in M!Path : disk[q] # "none" => disk'[q] = disk[q]
         /\ M!Tree(disk')
         /\ \A q \in M!Path : Hopeless(q) => Hopeless(q)'
<1>1. disk \in [M!Path -> {"none", "dir", "file"}] /\ M!Tree(disk)
  BY DEF PathsInv, PathsTypeOK
<1>2. CASE M!Outcome(p) = "made"
  <2>1. disk' = [disk EXCEPT ![p] = "dir"]
    BY <1>2 DEF M!Mkdir
  <2>2. /\ disk[p] = "none" /\ p \notin denied
        /\ \A q \in M!Parents(p) : disk[q] = "dir"
    BY <1>2 DEF M!Outcome
  <2>3. \A q \in M!Path : M!Parents(q) \subseteq M!Path
    BY DEF M!Parents
  <2>4. M!Tree(disk')
    BY <1>1, <2>1, <2>2, <2>3 DEF M!Tree
  <2>5. ASSUME NEW q \in M!Path, Hopeless(q) PROVE Hopeless(q)'
    BY <1>1, <2>1, <2>2, <2>3, <2>5 DEF Hopeless
  <2> QED BY <1>1, <2>1, <2>2, <2>4, <2>5
<1>3. CASE M!Outcome(p) # "made"
  BY <1>1, <1>3 DEF M!Mkdir, Hopeless
<1> QED BY <1>2, <1>3

(* What mkdir was called for is there afterwards, or for a reason is not, if *)
(* the directories above were tried.                                         *)
LEMMA MkdirTells ==
  ASSUME PathsInv, NEW p \in M!Path, M!Mkdir(p), denied' = denied,
         \A q \in M!Parents(p) : disk[q] # "none" \/ Hopeless(q)
  PROVE  IF M!Outcome(p) \in {"made", "exists"}
         THEN disk'[p] # "none" /\ \A q \in M!Parents(p) : disk'[q] = "dir"
         ELSE Hopeless(p)'
<1>1. /\ disk \in [M!Path -> {"none", "dir", "file"}] /\ M!Tree(disk)
      /\ M!Parents(p) \subseteq M!Path
  BY DEF PathsInv, PathsTypeOK, M!Parents
<1>2. CASE M!Outcome(p) = "made"
  <2>1. disk' = [disk EXCEPT ![p] = "dir"]
    BY <1>2 DEF M!Mkdir
  <2>2. disk[p] = "none" /\ \A q \in M!Parents(p) : disk[q] = "dir"
    BY <1>2 DEF M!Outcome
  <2> QED BY <1>1, <1>2, <2>1, <2>2
<1>3. CASE M!Outcome(p) = "exists"
  <2>1. disk' = disk /\ disk[p] # "none"
    BY <1>3 DEF M!Mkdir, M!Outcome
  <2> QED BY <1>1, <1>3, <2>1 DEF M!Tree
<1>4. CASE M!Outcome(p) \notin {"made", "exists"}
  <2>1. disk' = disk /\ disk[p] = "none"
    BY <1>4 DEF M!Mkdir, M!Outcome
  <2>2. p \in denied \/ \E q \in M!Parents(p) : disk[q] # "dir"
    BY <1>4 DEF M!Outcome
  <2>3. Hopeless(p)
    <3>1. CASE p \in denied
      BY <2>1, <3>1 DEF Hopeless
    <3>2. ASSUME NEW q \in M!Parents(p), disk[q] # "dir" PROVE Hopeless(p)
      <4>1. disk[q] = "file" \/ Hopeless(q)
        BY <1>1, <3>2
      <4>2. \A r \in M!Parents(q) : r \in M!Parents(p)
        BY ParentsOfParents
      <4> QED BY <4>1, <4>2 DEF Hopeless
    <3> QED BY <2>2, <3>1, <3>2
  <2>4. Hopeless(p)'
    BY <1>4, <2>1, <2>3 DEF Hopeless
  <2> QED BY <1>4, <2>4
<1> QED BY <1>2, <1>3, <1>4

(* Nobody has tried anything yet.                                            *)
LEMMA PathsInit == M!Init => PathsInv
<1> SUFFICES ASSUME M!Init PROVE PathsInv
  OBVIOUS
<1>1. PathsTypeOK /\ M!Tree(disk) /\ M!StatusHonest
  BY DEF M!Init, PathsTypeOK, M!StatusHonest, M!ZeroMeansThere, M!FailsForAReason
<1>2. \A t \in Thread : \A q \in M!Parents(want[t]) : ~ (Len(q) <= at[t])
  BY PathIsSeq DEF M!Init, M!Parents
<1> QED BY <1>1, <1>2 DEF PathsInv, TriedAbove

(* What a mkdir of one call does to the others: nothing they rely on.        *)
LEMMA OthersStay ==
  ASSUME PathsInv, NEW p \in M!Path, M!Mkdir(p), UNCHANGED <<denied, want>>
  PROVE  \A u \in Thread :
           /\ \A q \in M!Parents(want[u]) :
                Len(q) <= at[u] => disk'[q] # "none" \/ Hopeless(q)'
           /\ status[u] = "0" =>
                /\ disk'[want[u]] # "none"
                /\ \A q \in M!Parents(want[u]) : disk'[q] = "dir"
           /\ status[u] = "1" => Hopeless(want[u])'
<1>1. /\ \A q \in M!Path : disk[q] # "none" => disk'[q] = disk[q]
      /\ \A q \in M!Path : Hopeless(q) => Hopeless(q)'
  BY MkdirAdds
<1>2. \A u \in Thread : want[u] \in M!Path /\ M!Parents(want[u]) \subseteq M!Path
  BY DEF PathsInv, PathsTypeOK, M!Parents
<1>3. \A u \in Thread : status[u] = "1" => Hopeless(want[u])
  BY DEF PathsInv, M!StatusHonest, M!FailsForAReason, Hopeless
<1>4. \A u \in Thread : status[u] = "0" =>
        /\ disk[want[u]] # "none"
        /\ \A q \in M!Parents(want[u]) : disk[q] = "dir"
  BY DEF PathsInv, M!StatusHonest, M!ZeroMeansThere, M!FileInPlace
<1>5. \A u \in Thread : \A q \in M!Parents(want[u]) :
        Len(q) <= at[u] => disk[q] # "none" \/ Hopeless(q)
  BY DEF PathsInv, TriedAbove
<1> SUFFICES ASSUME NEW u \in Thread
             PROVE  /\ \A q \in M!Parents(want[u]) :
                         Len(q) <= at[u] => disk'[q] # "none" \/ Hopeless(q)'
                    /\ status[u] = "0" =>
                         /\ disk'[want[u]] # "none"
                         /\ \A q \in M!Parents(want[u]) : disk'[q] = "dir"
                    /\ status[u] = "1" => Hopeless(want[u])'
  OBVIOUS
<1>6. \A q \in M!Parents(want[u]) :
        Len(q) <= at[u] => disk'[q] # "none" \/ Hopeless(q)'
  BY <1>1, <1>2, <1>5
<1>7. status[u] = "0" =>
        /\ disk'[want[u]] # "none"
        /\ \A q \in M!Parents(want[u]) : disk'[q] = "dir"
  BY <1>1, <1>2, <1>4
<1>8. status[u] = "1" => Hopeless(want[u])'
  BY <1>1, <1>2, <1>3
<1> QED BY <1>6, <1>7, <1>8

(* A directory above the one asked for.                                      *)
LEMMA MakeAboveKeeps ==
  ASSUME PathsInv, NEW t \in Thread, M!MakeAbove(t)
  PROVE  PathsInv'
<1>0. PICK p : p = M!Prefix(t)
  OBVIOUS
<1>1. /\ want[t] \in M!Path /\ at[t] \in Nat
      /\ at[t] + 1 < Len(want[t]) /\ status[t] = "making"
      /\ M!Mkdir(p) /\ at' = [at EXCEPT ![t] = @ + 1]
      /\ UNCHANGED <<denied, want, status>>
  BY <1>0 DEF PathsInv, PathsTypeOK, M!MakeAbove
<1>2. /\ p \in M!Path /\ Len(p) = at[t] + 1 /\ p \in M!Parents(want[t])
      /\ \A q \in M!Parents(want[t]) : Len(q) = at[t] + 1 => q = p
  <2>1. at[t] + 1 \in 1 .. Len(want[t]) /\ Len(want[t]) \in Nat
    BY <1>1, PathIsSeq
  <2> QED BY <1>0, <1>1, <2>1, Beginning DEF M!Prefix
<1>3. \A q \in M!Parents(p) : disk[q] # "none" \/ Hopeless(q)
  <2> SUFFICES ASSUME NEW q \in M!Parents(p) PROVE disk[q] # "none" \/ Hopeless(q)
    OBVIOUS
  <2>1. q \in M!Parents(want[t])
    BY <1>1, <1>2, ParentsOfParents
  <2>2. q \in M!Path
    BY DEF M!Parents
  <2>3. Len(q) <= at[t]
    BY <1>1, <1>2, <2>2, PathIsSeq, ParentsAre
  <2> QED BY <2>1, <2>3 DEF PathsInv, TriedAbove
<1>4. disk'[p] # "none" \/ Hopeless(p)'
  BY <1>1, <1>2, <1>3, MkdirTells
<1>5. /\ disk' \in [M!Path -> {"none", "dir", "file"}] /\ M!Tree(disk')
  BY <1>1, <1>2, MkdirAdds
<1>6. PathsTypeOK'
  BY <1>1, <1>5 DEF PathsInv, PathsTypeOK
<1>7. TriedAbove'
  <2> SUFFICES ASSUME NEW u \in Thread, NEW q \in M!Parents(want[u]), Len(q) <= at'[u]
               PROVE  disk'[q] # "none" \/ Hopeless(q)'
    BY <1>1 DEF TriedAbove, M!Parents
  <2>1. CASE Len(q) <= at[u]
    BY <1>1, <1>2, <2>1, OthersStay
  <2>2. CASE ~ (Len(q) <= at[u])
    <3>1. u = t /\ at'[t] = at[t] + 1
      BY <1>1, <2>2 DEF PathsInv, PathsTypeOK
    <3>2. Len(q) \in Nat
      BY PathIsSeq DEF M!Parents
    <3>3. q = p
      BY <1>1, <1>2, <2>2, <3>1, <3>2
    <3> QED BY <1>4, <3>3
  <2> QED BY <2>1, <2>2
<1>8. M!StatusHonest'
  <2>1. \A u \in Thread :
           /\ status[u] = "0" => /\ disk'[want[u]] # "none"
                                 /\ \A q \in M!Parents(want[u]) : disk'[q] = "dir"
           /\ status[u] = "1" => Hopeless(want[u])'
    BY <1>1, <1>2, OthersStay
  <2>2. \A u \in Thread : disk'[want[u]] \in {"none", "dir", "file"}
    BY <1>1, <1>5 DEF PathsInv, PathsTypeOK
  <2>3. M!ZeroMeansThere'
    BY <1>1, <2>1, <2>2 DEF M!ZeroMeansThere, M!FileInPlace, M!Parents
  <2>4. M!FailsForAReason'
    BY <1>1, <2>1 DEF M!FailsForAReason, Hopeless, M!Parents
  <2> QED BY <2>3, <2>4 DEF M!StatusHonest
<1> QED BY <1>5, <1>6, <1>7, <1>8 DEF PathsInv

(* The directory asked for: the call returns.                                *)
LEMMA MakeLeafKeeps ==
  ASSUME PathsInv, NEW t \in Thread, M!MakeLeaf(t)
  PROVE  PathsInv'
<1>0. PICK p : p = want[t]
  OBVIOUS
<1> DEFINE tells == M!Outcome(p)
<1>1. /\ p \in M!Path /\ at[t] \in Nat
      /\ at[t] + 1 = Len(p) /\ status[t] = "making"
      /\ M!Mkdir(p) /\ at' = [at EXCEPT ![t] = @ + 1]
      /\ status' = [status EXCEPT ![t] = IF M!Failed(tells) THEN "1" ELSE "0"]
      /\ UNCHANGED <<denied, want>>
  BY <1>0 DEF PathsInv, PathsTypeOK, M!MakeLeaf
<1>2. \A q \in M!Parents(p) : Len(q) <= at[t]
  <2> SUFFICES ASSUME NEW q \in M!Parents(p) PROVE Len(q) <= at[t]
    OBVIOUS
  <2>1. q \in M!Path
    BY DEF M!Parents
  <2> QED BY <1>1, <2>1, PathIsSeq, ParentsAre
<1>3. \A q \in M!Parents(p) : disk[q] # "none" \/ Hopeless(q)
  BY <1>0, <1>2 DEF PathsInv, TriedAbove
<1>4. IF tells \in {"made", "exists"}
      THEN disk'[p] # "none" /\ \A q \in M!Parents(p) : disk'[q] = "dir"
      ELSE Hopeless(p)'
  BY <1>1, <1>3, MkdirTells
<1>5. /\ disk' \in [M!Path -> {"none", "dir", "file"}] /\ M!Tree(disk')
  BY <1>1, MkdirAdds
<1>6. PathsTypeOK'
  BY <1>1, <1>5 DEF PathsInv, PathsTypeOK
<1>7. \A u \in Thread :
        /\ \A q \in M!Parents(want[u]) :
             Len(q) <= at[u] => disk'[q] # "none" \/ Hopeless(q)'
        /\ status[u] = "0" => /\ disk'[want[u]] # "none"
                              /\ \A q \in M!Parents(want[u]) : disk'[q] = "dir"
        /\ status[u] = "1" => Hopeless(want[u])'
  BY <1>1, OthersStay
<1>8. TriedAbove'
  <2> SUFFICES ASSUME NEW u \in Thread, NEW q \in M!Parents(want[u]), Len(q) <= at'[u]
               PROVE  disk'[q] # "none" \/ Hopeless(q)'
    BY <1>1 DEF TriedAbove, M!Parents
  <2>1. CASE u = t
    BY <1>0, <1>2, <1>7, <2>1
  <2>2. CASE u # t
    BY <1>1, <1>7, <2>2 DEF PathsInv, PathsTypeOK
  <2> QED BY <2>1, <2>2
<1>9. M!StatusHonest'
  <2>1. ASSUME NEW u \in Thread
        PROVE  /\ status'[u] = "0" => /\ disk'[want[u]] # "none"
                                      /\ \A q \in M!Parents(want[u]) : disk'[q] = "dir"
               /\ status'[u] = "1" => Hopeless(want[u])'
    <3>1. CASE u = t
      BY <1>0, <1>1, <1>4, <3>1 DEF M!Failed, PathsInv, PathsTypeOK
    <3>2. CASE u # t
      BY <1>1, <1>7, <3>2 DEF PathsInv, PathsTypeOK
    <3> QED BY <3>1, <3>2
  <2>2. \A u \in Thread : disk'[want[u]] \in {"none", "dir", "file"}
    BY <1>1, <1>5 DEF PathsInv, PathsTypeOK
  <2>3. M!ZeroMeansThere'
    BY <1>1, <2>1, <2>2 DEF M!ZeroMeansThere, M!FileInPlace, M!Parents
  <2>4. M!FailsForAReason'
    BY <1>1, <2>1 DEF M!FailsForAReason, Hopeless, M!Parents
  <2> QED BY <2>3, <2>4 DEF M!StatusHonest
<1> QED BY <1>5, <1>6, <1>8, <1>9 DEF PathsInv

(* Every step of threads that make directories keeps the invariant.          *)
LEMMA PathsStep == PathsInv /\ [M!Next]_(M!vars) => PathsInv'
<1> SUFFICES ASSUME PathsInv, [M!Next]_(M!vars) PROVE PathsInv'
  OBVIOUS
<1>1. ASSUME NEW t \in Thread, M!MakeAbove(t) PROVE PathsInv'
  BY <1>1, MakeAboveKeeps
<1>2. ASSUME NEW t \in Thread, M!MakeLeaf(t) PROVE PathsInv'
  BY <1>2, MakeLeafKeeps
<1>3. CASE UNCHANGED M!vars
  <2>1. UNCHANGED <<disk, denied, want, at, status>>
    BY <1>3 DEF M!vars
  <2>2. PathsTypeOK' /\ M!Tree(disk)' /\ TriedAbove'
    BY <2>1 DEF PathsInv, PathsTypeOK, TriedAbove, Hopeless, M!Tree, M!Parents
  <2>3. M!ZeroMeansThere'
    BY <2>1 DEF PathsInv, M!StatusHonest, M!ZeroMeansThere, M!FileInPlace, M!Parents
  <2>4. M!FailsForAReason'
    BY <2>1 DEF PathsInv, M!StatusHonest, M!FailsForAReason, M!Parents
  <2> QED BY <2>2, <2>3, <2>4 DEF PathsInv, M!StatusHonest
<1> QED BY <1>1, <1>2, <1>3 DEF M!Next, M!Returned
-----------------------------------------------------------------------------
(* The argument vector                                                       *)

Pointer == [block : Nat, offset : Nat]

ArgvTypeOK ==
  /\ buf \in Seq(Char \cup {A!Nul})
  /\ argv \in Seq(Pointer)
  /\ block \in Nat
  /\ failed \in BOOLEAN /\ undefined \in BOOLEAN
  /\ partial \in Seq(Char) \cup {A!None}
  /\ given \in Seq(Seq(Char))

(* Nothing has grown yet.                                                    *)
NotGrown ==
  /\ ~failed /\ Len(buf) <= BufCap =>
       /\ bufCap = BufCap /\ block = 0
       /\ \A i \in 1 .. Len(argv) : argv[i].block = 0
  /\ ~failed /\ Len(argv) <= ArgvCap =>
       argvCap = ArgvCap /\ argvRoom = ArgvCap /\ ~undefined

(* A text stands in a buffer, at an offset.                                  *)
StandsIn(b, o, text) ==
  /\ o + Len(text) <= Len(b)
  /\ \A k \in 1 .. Len(text) : b[o + k] = text[k]

(* The finished arguments end with a NUL each, the begun one with the buffer.*)
TextsStand ==
  ~failed =>
    /\ Len(argv) = Len(given) + (IF partial = A!None THEN 0 ELSE 1)
    /\ \A i \in 1 .. Len(given) :
         StandsIn(buf, argv[i].offset, Append(given[i], A!Nul))
    /\ partial # A!None =>
         /\ StandsIn(buf, argv[Len(argv)].offset, partial)
         /\ argv[Len(argv)].offset + Len(partial) = Len(buf)

(* The inductive invariant. *)
ArgvInv == ArgvTypeOK /\ NotGrown /\ TextsStand

(* An empty vector.                                                          *)
LEMMA ArgvInit == ASSUME A!Init PROVE ArgvInv
<1> USE ArgvAssumption DEF A!Init
<1>1. ArgvTypeOK
  <2>1. /\ buf \in Seq(Char \cup {A!Nul})
        /\ argv \in Seq(Pointer)
        /\ given \in Seq(Seq(Char)) /\ block \in Nat
    OBVIOUS
  <2>2. failed \in BOOLEAN /\ undefined \in BOOLEAN
    OBVIOUS
  <2> QED BY <2>1, <2>2 DEF ArgvTypeOK
<1>2. NotGrown
  BY DEF NotGrown
<1>3. TextsStand
  BY DEF TextsStand
<1> QED BY <1>1, <1>2, <1>3 DEF ArgvInv

(* No partial argument is what stands for none.                              *)
LEMMA NoneIsNoText == A!None \notin Seq(Char)
<1> SUFFICES ASSUME A!None \in Seq(Char) PROVE FALSE
  OBVIOUS
<1>1. Len(A!None) = 1 /\ A!None[1] = A!Nul
  BY DEF A!None
<1>2. A!None[1] \in Char
  BY <1>1
<1> QED BY <1>1, <1>2, ArgvAssumption

(* What stands in the buffer stands there when it has become longer.         *)
LEMMA StandsLonger ==
  ASSUME ArgvTypeOK, NEW more \in Seq(Char \cup {A!Nul}),
         buf' = buf \o more
  PROVE  /\ buf' \in Seq(Char \cup {A!Nul})
         /\ Len(buf') = Len(buf) + Len(more)
         /\ \A k \in 1 .. Len(buf) : buf'[k] = buf[k]
         /\ \A k \in 1 .. Len(more) : buf'[Len(buf) + k] = more[k]
         /\ \A o \in Nat : \A text \in Seq(Char \cup {A!Nul}) :
              StandsIn(buf, o, text) => StandsIn(buf', o, text)
<1>1. buf \in Seq(Char \cup {A!Nul})
  BY DEF ArgvTypeOK
<1>2. /\ buf' \in Seq(Char \cup {A!Nul})
      /\ Len(buf') = Len(buf) + Len(more)
      /\ \A k \in 1 .. Len(buf) : buf'[k] = buf[k]
      /\ \A k \in 1 .. Len(more) : buf'[Len(buf) + k] = more[k]
  BY <1>1
<1>3. ASSUME NEW o \in Nat, NEW text \in Seq(Char \cup {A!Nul}), StandsIn(buf, o, text)
      PROVE  StandsIn(buf', o, text)
  <2>1. Len(buf) \in Nat /\ Len(more) \in Nat /\ Len(text) \in Nat
    BY <1>1
  <2>2. o + Len(text) <= Len(buf)
    BY <1>3 DEF StandsIn
  <2>3. o + Len(text) <= Len(buf')
    BY <1>2, <2>1, <2>2
  <2>4. ASSUME NEW k \in 1 .. Len(text) PROVE buf'[o + k] = text[k]
    <3>1. o + k \in 1 .. Len(buf)
      BY <2>1, <2>2
    <3> QED BY <1>2, <1>3, <3>1 DEF StandsIn
  <2> QED BY <2>3, <2>4 DEF StandsIn
<1> QED BY <1>2, <1>3

(* A string read from the buffer is the text that stands there with its NUL. *)
LEMMA StringRead ==
  ASSUME ArgvTypeOK, NEW o \in Nat, NEW text \in Seq(Char),
         StandsIn(buf, o, Append(text, A!Nul))
  PROVE  A!StringAt(o) = text
<1> DEFINE e == o + Len(text) + 1
           Ends(i) == buf[i] = A!Nul /\ \A k \in o + 1 .. i - 1 : buf[k] # A!Nul
<1>1. /\ buf \in Seq(Char \cup {A!Nul}) /\ Len(buf) \in Nat /\ Len(text) \in Nat
      /\ Len(Append(text, A!Nul)) = Len(text) + 1
      /\ Append(text, A!Nul)[Len(text) + 1] = A!Nul
      /\ \A k \in 1 .. Len(text) : Append(text, A!Nul)[k] = text[k]
  BY DEF ArgvTypeOK
<1>2. e <= Len(buf) /\ buf[e] = A!Nul
  BY <1>1 DEF StandsIn
<1>3. \A k \in 1 .. Len(text) : buf[o + k] = text[k]
  BY <1>1 DEF StandsIn
<1>4. \A k \in o + 1 .. e - 1 : buf[k] # A!Nul
  <2> SUFFICES ASSUME NEW k \in o + 1 .. e - 1 PROVE buf[k] # A!Nul
    OBVIOUS
  <2>1. k - o \in 1 .. Len(text) /\ k = o + (k - o)
    BY <1>1
  <2>2. buf[k] = text[k - o]
    BY <1>3, <2>1
  <2>3. text[k - o] \in Char
    BY <2>1
  <2> QED BY <2>2, <2>3, ArgvAssumption
<1>5. e \in o + 1 .. Len(buf) /\ Ends(e)
  BY <1>1, <1>2, <1>4
<1>6. \A i \in o + 1 .. Len(buf) : Ends(i) => i = e
  BY <1>1, <1>2, <1>4
<1> HIDE DEF Ends
<1>7. (CHOOSE i \in o + 1 .. Len(buf) : Ends(i)) = e
  BY <1>5, <1>6
<1>8. SubSeq(buf, o + 1, e - 1) = text
  <2>1. /\ SubSeq(buf, o + 1, e - 1) \in Seq(Char \cup {A!Nul})
        /\ Len(SubSeq(buf, o + 1, e - 1)) = Len(text)
        /\ \A k \in 1 .. Len(text) : SubSeq(buf, o + 1, e - 1)[k] = buf[o + k]
    BY <1>1, <1>2
  <2> QED BY <1>1, <1>3, <2>1
<1> QED BY <1>7, <1>8 DEF A!StringAt, Ends

(* ensure_buf moves nothing while what was asked for is enough.              *)
LEMMA EnsureBufEffect ==
  ASSUME ArgvTypeOK, NotGrown, ~failed, NEW n \in Nat, A!EnsureBuf(n)
  PROVE  /\ failed' \in BOOLEAN /\ block' \in Nat
         /\ Len(buf) + n <= BufCap => bufCap' = BufCap /\ block = 0 /\ block' = 0
<1>1. Len(buf) \in Nat
  BY DEF ArgvTypeOK
<1>2. failed' \in BOOLEAN /\ block' \in Nat
  <2>1. block \in Nat /\ failed \in BOOLEAN
    BY DEF ArgvTypeOK
  <2>2. failed' = failed \/ failed' = TRUE
    BY DEF A!EnsureBuf
  <2>3. block' = block \/ block' = block + 1
    BY DEF A!EnsureBuf
  <2>4. block' \in Nat
    BY <2>1, <2>3
  <2> QED BY <2>1, <2>2, <2>4
<1>3. ASSUME Len(buf) + n <= BufCap
      PROVE  bufCap' = BufCap /\ block = 0 /\ block' = 0
  <2>1. Len(buf) <= BufCap
    BY <1>1, <1>3, ArgvAssumption
  <2>2. bufCap = BufCap /\ block = 0
    BY <2>1 DEF NotGrown
  <2> QED BY <1>3, <2>2 DEF A!EnsureBuf
<1> QED BY <1>2, <1>3

(* A pointer more: there is room for it while ArgvCap is enough.             *)
LEMMA PushEffect ==
  ASSUME ArgvTypeOK, NotGrown, ~failed, block' \in Nat,
         NEW o \in Nat, A!PushPointer(o)
  PROVE  /\ argv' \in Seq(Pointer)
         /\ undefined' \in BOOLEAN
         /\ Len(argv') = Len(argv) + 1 /\ Len(argv) \in Nat
         /\ \A i \in 1 .. Len(argv) : argv'[i] = argv[i]
         /\ argv'[Len(argv) + 1].block = block'
         /\ argv'[Len(argv) + 1].offset = o
         /\ Len(argv') <= ArgvCap =>
              argvCap' = ArgvCap /\ argvRoom' = ArgvCap /\ ~undefined'
<1>1. argv \in Seq(Pointer) /\ Len(argv) \in Nat
  BY DEF ArgvTypeOK
<1> DEFINE e == [block |-> block', offset |-> o]
<1>2. argv' = Append(argv, e) /\ e \in Pointer
  BY DEF A!PushPointer, Pointer
<1>3. /\ argv' \in Seq(Pointer)
      /\ Len(argv') = Len(argv) + 1
      /\ \A i \in 1 .. Len(argv) : argv'[i] = argv[i]
      /\ argv'[Len(argv) + 1] = e
  <2> HIDE DEF e
  <2> QED BY <1>1, <1>2
<1>4. undefined' \in BOOLEAN
  BY DEF A!PushPointer
<1>5. ASSUME Len(argv') <= ArgvCap
      PROVE  argvCap' = ArgvCap /\ argvRoom' = ArgvCap /\ ~undefined'
  <2>1. Len(argv) + 1 <= ArgvCap /\ Len(argv) <= ArgvCap
    BY <1>1, <1>3, <1>5, ArgvAssumption
  <2>2. argvCap = ArgvCap /\ argvRoom = ArgvCap
    BY <2>1 DEF NotGrown
  <2>3. argvCap' = ArgvCap /\ argvRoom' = ArgvCap
    BY <2>1, <2>2 DEF A!PushPointer, A!EnsureArgv
  <2>4. ~ (Len(argv) + 1 > argvRoom')
    BY <1>1, <2>1, <2>3, ArgvAssumption
  <2>5. undefined' = (Len(argv) + 1 > argvRoom')
    BY DEF A!PushPointer
  <2> QED BY <2>3, <2>4, <2>5, Zenon
<1> QED BY <1>1, <1>3, <1>4, <1>5

(* No memory: the array is left as it is, and nothing follows.               *)
LEMMA FailsKeeps ==
  ASSUME ArgvInv, A!Fails, failed' = TRUE, block' \in Nat
  PROVE  ArgvInv'
BY DEF ArgvInv, A!Fails, ArgvTypeOK, NotGrown, TextsStand

(* The finished arguments, when something was added to both arrays.          *)
LEMMA FinishedStay ==
  ASSUME ArgvTypeOK, TextsStand, ~failed,
         NEW more \in Seq(Char \cup {A!Nul}), buf' = buf \o more,
         \A i \in 1 .. Len(argv) : argv'[i] = argv[i]
  PROVE  /\ Len(given) \in Nat /\ Len(given) <= Len(argv)
         /\ \A i \in 1 .. Len(given) :
              StandsIn(buf', argv'[i].offset, Append(given[i], A!Nul))
<1>1. /\ argv \in Seq(Pointer) /\ Len(argv) \in Nat
      /\ given \in Seq(Seq(Char)) /\ Len(given) \in Nat
  BY DEF ArgvTypeOK
<1>2. Len(given) <= Len(argv)
  BY <1>1 DEF TextsStand
<1>3. ASSUME NEW i \in 1 .. Len(given)
      PROVE  StandsIn(buf', argv'[i].offset, Append(given[i], A!Nul))
  <2>1. argv'[i] = argv[i] /\ argv[i].offset \in Nat
    <3>1. i \in 1 .. Len(argv)
      BY <1>1, <1>2
    <3>2. argv[i] \in Pointer
      BY <1>1, <3>1
    <3> QED BY <3>1, <3>2 DEF Pointer
  <2>2. Append(given[i], A!Nul) \in Seq(Char \cup {A!Nul})
    <3>1. given[i] \in Seq(Char)
      BY <1>1
    <3> QED BY <3>1
  <2>3. StandsIn(buf, argv[i].offset, Append(given[i], A!Nul))
    BY DEF TextsStand
  <2> QED BY <2>1, <2>2, <2>3, StandsLonger
<1> QED BY <1>1, <1>2, <1>3

(* zmm_argvb_append.                                                         *)
LEMMA AppendArgKeeps ==
  ASSUME ArgvInv, NEW arg \in Texts, A!AppendArg(arg)
  PROVE  ArgvInv'
<1> USE DEF ArgvInv
<1>1. /\ arg \in Seq(Char) /\ Len(arg) + 1 \in Nat /\ ~failed /\ partial = A!None
      /\ A!EnsureBuf(Len(arg) + 1)
  BY ArgvAssumption DEF A!AppendArg, A!Call
<1>2. /\ failed' \in BOOLEAN /\ block' \in Nat
      /\ Len(buf) + (Len(arg) + 1) <= BufCap => bufCap' = BufCap /\ block = 0 /\ block' = 0
  BY <1>1, EnsureBufEffect
<1>3. CASE failed'
  BY <1>2, <1>3, FailsKeeps DEF A!AppendArg
<1>4. CASE ~failed'
  <2>1. /\ A!PushPointer(Len(buf))
        /\ buf' = buf \o arg \o <<A!Nul>>
        /\ given' = Append(given, arg)
        /\ partial' = partial
    BY <1>4 DEF A!AppendArg
  <2>2. /\ buf \in Seq(Char \cup {A!Nul}) /\ Len(buf) \in Nat
        /\ given \in Seq(Seq(Char)) /\ Len(given) \in Nat
        /\ argv \in Seq(Pointer) /\ Len(argv) \in Nat
    BY DEF ArgvTypeOK
  <2> DEFINE more == arg \o <<A!Nul>>
             n == Len(given)
  <2>3. /\ more \in Seq(Char \cup {A!Nul}) /\ Len(more) = Len(arg) + 1
        /\ more = Append(arg, A!Nul) /\ Len(arg) \in Nat
    BY <1>1
  <2>4. buf' = buf \o more
    <3>1. ASSUME NEW S, NEW a \in Seq(S), NEW b \in Seq(S), NEW c \in Seq(S)
          PROVE  (a \o b) \o c = a \o (b \o c)
      OBVIOUS
    <3>2. arg \in Seq(Char \cup {A!Nul}) /\ <<A!Nul>> \in Seq(Char \cup {A!Nul})
      BY <1>1
    <3>3. (buf \o arg) \o <<A!Nul>> = buf \o (arg \o <<A!Nul>>)
      BY <2>2, <3>1, <3>2
    <3> QED BY <2>1, <3>3
  <2> HIDE DEF more
  <2>5. /\ argv' \in Seq(Pointer) /\ undefined' \in BOOLEAN
        /\ Len(argv') = Len(argv) + 1
        /\ \A i \in 1 .. Len(argv) : argv'[i] = argv[i]
        /\ argv'[Len(argv) + 1].block = block'
        /\ argv'[Len(argv) + 1].offset = Len(buf)
        /\ Len(argv') <= ArgvCap =>
             argvCap' = ArgvCap /\ argvRoom' = ArgvCap /\ ~undefined'
    BY <1>1, <1>2, <2>1, <2>2, PushEffect
  <2>6. /\ buf' \in Seq(Char \cup {A!Nul})
        /\ Len(buf') = Len(buf) + Len(more)
        /\ \A k \in 1 .. Len(more) : buf'[Len(buf) + k] = more[k]
    BY <2>3, <2>4, StandsLonger
  <2>7. /\ n <= Len(argv)
        /\ \A i \in 1 .. n : StandsIn(buf', argv'[i].offset, Append(given[i], A!Nul))
    BY <1>1, <2>3, <2>4, <2>5, FinishedStay
  <2>8. /\ given' \in Seq(Seq(Char)) /\ Len(given') = n + 1
        /\ \A i \in 1 .. n : given'[i] = given[i]
        /\ given'[n + 1] = arg
    BY <1>1, <2>1, <2>2
  <2>9. ArgvTypeOK'
    BY <1>2, <2>1, <2>5, <2>6, <2>8 DEF ArgvTypeOK
  <2>10. NotGrown'
    <3>1. ASSUME Len(buf') <= BufCap
          PROVE  /\ bufCap' = BufCap /\ block' = 0
                 /\ \A i \in 1 .. Len(argv') : argv'[i].block = 0
      <4>1. Len(buf) + (Len(arg) + 1) <= BufCap
        BY <2>3, <2>6, <3>1
      <4>2. Len(buf) <= BufCap
        BY <1>1, <2>2, <4>1, ArgvAssumption
      <4>3. \A i \in 1 .. Len(argv) : argv[i].block = 0
        BY <1>1, <4>2 DEF NotGrown
      <4> QED BY <1>2, <2>2, <2>5, <4>1, <4>3
    <3> QED BY <2>5, <3>1 DEF NotGrown
  <2>11. TextsStand'
    <3>1. Len(argv) = n
      BY <1>1, <2>2 DEF TextsStand
    <3>2. StandsIn(buf', Len(buf), Append(arg, A!Nul))
      BY <2>2, <2>3, <2>6 DEF StandsIn
    <3>3. \A i \in 1 .. n + 1 :
            StandsIn(buf', argv'[i].offset, Append(given'[i], A!Nul))
      <4> SUFFICES ASSUME NEW i \in 1 .. n + 1
                   PROVE  StandsIn(buf', argv'[i].offset, Append(given'[i], A!Nul))
        OBVIOUS
      <4>1. CASE i \in 1 .. n
        BY <2>7, <2>8, <4>1
      <4>2. CASE i = n + 1
        BY <2>5, <2>8, <3>1, <3>2, <4>2
      <4> QED BY <2>2, <4>1, <4>2
    <3>4. Len(argv') = Len(given') /\ Len(given') \in Nat
      BY <2>2, <2>5, <2>8, <3>1
    <3>5. \A i \in 1 .. Len(given') :
            StandsIn(buf', argv'[i].offset, Append(given'[i], A!Nul))
      BY <2>8, <3>3
    <3> QED BY <1>1, <2>1, <3>4, <3>5 DEF TextsStand
  <2> QED BY <2>9, <2>10, <2>11
<1> QED BY <1>3, <1>4

(* zmm_argvb_pstart.                                                         *)
LEMMA PStartKeeps ==
  ASSUME ArgvInv, A!PStart
  PROVE  ArgvInv'
<1> USE DEF ArgvInv
<1>1. /\ partial = A!None /\ ~failed /\ A!PushPointer(Len(buf)) /\ partial' = <<>>
      /\ UNCHANGED <<buf, bufCap, block, failed, given>>
  BY DEF A!PStart, A!Call
<1>2. /\ buf \in Seq(Char \cup {A!Nul}) /\ Len(buf) \in Nat
      /\ given \in Seq(Seq(Char)) /\ Len(given) \in Nat
      /\ argv \in Seq(Pointer) /\ Len(argv) \in Nat
      /\ block \in Nat /\ failed \in BOOLEAN
  BY DEF ArgvTypeOK
<1>3. /\ argv' \in Seq(Pointer) /\ undefined' \in BOOLEAN
      /\ Len(argv') = Len(argv) + 1
      /\ \A i \in 1 .. Len(argv) : argv'[i] = argv[i]
      /\ argv'[Len(argv) + 1].block = block'
      /\ argv'[Len(argv) + 1].offset = Len(buf)
      /\ Len(argv') <= ArgvCap =>
           argvCap' = ArgvCap /\ argvRoom' = ArgvCap /\ ~undefined'
  BY <1>1, <1>2, PushEffect
<1>4. ArgvTypeOK'
  BY <1>1, <1>2, <1>3 DEF ArgvTypeOK
<1>5. NotGrown'
  BY <1>1, <1>2, <1>3 DEF NotGrown
<1>6. Len(argv) = Len(given)
  BY <1>1, <1>2 DEF TextsStand
<1>7. <<>> # A!None
  BY DEF A!None
<1>8. TextsStand'
  <2>1. \A i \in 1 .. Len(given) :
          StandsIn(buf', argv'[i].offset, Append(given'[i], A!Nul))
    BY <1>1, <1>3, <1>6 DEF TextsStand
  <2>2. StandsIn(buf', Len(buf), <<>>)
    BY <1>1, <1>2 DEF StandsIn
  <2> QED BY <1>1, <1>2, <1>3, <1>6, <1>7, <2>1, <2>2 DEF TextsStand
<1> QED BY <1>4, <1>5, <1>8

(* zmm_argvb_pappend.                                                        *)
LEMMA PAppendKeeps ==
  ASSUME ArgvInv, NEW text \in Texts, A!PAppend(text)
  PROVE  ArgvInv'
<1> USE DEF ArgvInv
<1>1. /\ text \in Seq(Char) /\ Len(text) \in Nat /\ ~failed /\ partial # A!None
      /\ A!EnsureBuf(Len(text))
  BY ArgvAssumption DEF A!PAppend, A!Call
<1>2. /\ failed' \in BOOLEAN /\ block' \in Nat
      /\ Len(buf) + Len(text) <= BufCap => bufCap' = BufCap /\ block = 0 /\ block' = 0
  BY <1>1, EnsureBufEffect
<1>3. CASE failed'
  BY <1>2, <1>3, FailsKeeps DEF A!PAppend
<1>4. CASE ~failed'
  <2>1. /\ buf' = buf \o text /\ partial' = partial \o text
        /\ UNCHANGED <<argv, argvCap, argvRoom, undefined, given>>
    BY <1>4 DEF A!PAppend
  <2>2. /\ buf \in Seq(Char \cup {A!Nul}) /\ Len(buf) \in Nat
        /\ given \in Seq(Seq(Char)) /\ Len(given) \in Nat
        /\ argv \in Seq(Pointer) /\ Len(argv) \in Nat
        /\ undefined \in BOOLEAN
        /\ partial \in Seq(Char) /\ Len(partial) \in Nat
    BY <1>1 DEF ArgvTypeOK
  <2>3. text \in Seq(Char \cup {A!Nul})
    BY <1>1
  <2>4. /\ buf' \in Seq(Char \cup {A!Nul})
        /\ Len(buf') = Len(buf) + Len(text)
        /\ \A k \in 1 .. Len(buf) : buf'[k] = buf[k]
        /\ \A k \in 1 .. Len(text) : buf'[Len(buf) + k] = text[k]
    BY <2>1, <2>3, StandsLonger
  <2>5. /\ Len(given) <= Len(argv)
        /\ \A i \in 1 .. Len(given) :
             StandsIn(buf', argv'[i].offset, Append(given[i], A!Nul))
    BY <1>1, <2>1, <2>3, FinishedStay
  <2>6. /\ partial' \in Seq(Char) /\ Len(partial') = Len(partial) + Len(text)
        /\ \A k \in 1 .. Len(partial) : partial'[k] = partial[k]
        /\ \A k \in 1 .. Len(text) : partial'[Len(partial) + k] = text[k]
    BY <1>1, <2>1, <2>2
  <2>7. partial' # A!None
    BY <2>6, NoneIsNoText
  <2>8. ArgvTypeOK'
    BY <1>2, <2>1, <2>2, <2>4, <2>6 DEF ArgvTypeOK
  <2>9. NotGrown'
    <3>1. ASSUME Len(buf') <= BufCap
          PROVE  /\ bufCap' = BufCap /\ block' = 0
                 /\ \A i \in 1 .. Len(argv) : argv[i].block = 0
      <4>1. Len(buf) + Len(text) <= BufCap /\ Len(buf) <= BufCap
        BY <1>1, <2>2, <2>4, <3>1, ArgvAssumption
      <4> QED BY <1>1, <1>2, <4>1 DEF NotGrown
    <3> QED BY <1>1, <2>1, <3>1 DEF NotGrown
  <2>10. TextsStand'
    <3> DEFINE o == argv[Len(argv)].offset
    <3>1. /\ StandsIn(buf, o, partial) /\ o + Len(partial) = Len(buf)
          /\ Len(argv) = Len(given) + 1
      BY <1>1 DEF TextsStand
    <3>2. o \in Nat
      <4>1. argv[Len(argv)] \in Pointer
        BY <2>2, <3>1
      <4> QED BY <4>1 DEF Pointer
    <3> HIDE DEF o
    <3>3. o + Len(partial') = Len(buf')
      BY <1>1, <2>2, <2>4, <2>6, <3>1, <3>2
    <3>4. ASSUME NEW k \in 1 .. Len(partial') PROVE buf'[o + k] = partial'[k]
      <4>1. CASE k \in 1 .. Len(partial)
        <5>1. o + k \in 1 .. Len(buf) /\ buf[o + k] = partial[k]
          BY <2>2, <3>1, <3>2, <4>1 DEF StandsIn
        <5> QED BY <2>4, <2>6, <4>1, <5>1
      <4>2. CASE k \notin 1 .. Len(partial)
        <5>1. /\ Len(partial') = Len(partial) + Len(text)
              /\ o + Len(partial) = Len(buf)
              /\ Len(partial) \in Nat /\ Len(text) \in Nat /\ Len(buf) \in Nat
          BY <1>1, <2>2, <2>6, <3>1
        <5>2. PICK j \in 1 .. Len(text) : k = Len(partial) + j
          <6> DEFINE j == k - Len(partial)
          <6>1. k \in Int /\ Len(partial) + 1 <= k /\ k <= Len(partial) + Len(text)
            BY <3>4, <4>2, <5>1
          <6>2. j \in 1 .. Len(text) /\ k = Len(partial) + j
            BY <5>1, <6>1
          <6> QED BY <6>2
        <5>3. o + k = Len(buf) + j
          BY <3>2, <5>1, <5>2
        <5>4. partial'[k] = text[j]
          BY <2>6, <5>2
        <5>5. buf'[o + k] = text[j]
          BY <2>4, <5>2, <5>3
        <5> QED BY <5>4, <5>5
      <4> QED BY <4>1, <4>2
    <3>5. StandsIn(buf', o, partial')
      <4>1. o + Len(partial') <= Len(buf')
        BY <2>2, <2>4, <1>1, <3>3
      <4> QED BY <3>4, <4>1 DEF StandsIn
    <3>6. argv'[Len(argv')].offset = o
      BY <2>1 DEF o
    <3> QED BY <1>1, <2>1, <2>5, <2>7, <3>1, <3>3, <3>5, <3>6 DEF TextsStand
  <2> QED BY <2>8, <2>9, <2>10
<1> QED BY <1>3, <1>4

(* zmm_argvb_pfinish: the entry begun becomes one of the finished ones.       *)
LEMMA PFinishKeeps ==
  ASSUME ArgvInv, A!PFinish
  PROVE  ArgvInv'
<1> USE DEF ArgvInv
<1>1. ~failed /\ partial # A!None /\ A!EnsureBuf(1)
  BY DEF A!PFinish, A!Call
<1>2. /\ failed' \in BOOLEAN /\ block' \in Nat
      /\ Len(buf) + 1 <= BufCap => bufCap' = BufCap /\ block = 0 /\ block' = 0
  BY <1>1, EnsureBufEffect
<1>3. CASE failed'
  BY <1>2, <1>3, FailsKeeps DEF A!PFinish
<1>4. CASE ~failed'
  <2>1. /\ buf' = Append(buf, A!Nul) /\ given' = Append(given, partial)
        /\ partial' = A!None
        /\ UNCHANGED <<argv, argvCap, argvRoom, undefined>>
    BY <1>4 DEF A!PFinish
  <2>2. /\ buf \in Seq(Char \cup {A!Nul}) /\ Len(buf) \in Nat
        /\ given \in Seq(Seq(Char)) /\ Len(given) \in Nat
        /\ argv \in Seq(Pointer) /\ Len(argv) \in Nat
        /\ undefined \in BOOLEAN
        /\ partial \in Seq(Char) /\ Len(partial) \in Nat
    BY <1>1 DEF ArgvTypeOK
  <2> DEFINE n == Len(given)
             o == argv[n + 1].offset
             whole == Append(partial, A!Nul)
  <2>3. /\ <<A!Nul>> \in Seq(Char \cup {A!Nul})
        /\ buf' = buf \o <<A!Nul>>
    BY <2>1, <2>2
  <2>4. /\ buf' \in Seq(Char \cup {A!Nul})
        /\ Len(buf') = Len(buf) + 1
        /\ \A k \in 1 .. Len(buf) : buf'[k] = buf[k]
        /\ buf'[Len(buf) + 1] = A!Nul
    BY <2>1, <2>2
  <2>5. /\ n <= Len(argv)
        /\ \A i \in 1 .. n : StandsIn(buf', argv'[i].offset, Append(given[i], A!Nul))
    BY <1>1, <2>1, <2>3, FinishedStay
  <2>6. /\ given' \in Seq(Seq(Char)) /\ Len(given') = n + 1
        /\ \A i \in 1 .. n : given'[i] = given[i]
        /\ given'[n + 1] = partial
    BY <2>1, <2>2
  <2>7. ArgvTypeOK'
    BY <1>2, <2>1, <2>2, <2>4, <2>6 DEF ArgvTypeOK
  <2>8. NotGrown'
    <3>1. ASSUME Len(buf') <= BufCap
          PROVE  /\ bufCap' = BufCap /\ block' = 0
                 /\ \A i \in 1 .. Len(argv) : argv[i].block = 0
      <4>1. Len(buf) + 1 <= BufCap /\ Len(buf) <= BufCap
        BY <2>2, <2>4, <3>1, ArgvAssumption
      <4> QED BY <1>1, <1>2, <4>1 DEF NotGrown
    <3> QED BY <1>1, <2>1, <3>1 DEF NotGrown
  <2>9. TextsStand'
    <3>1. /\ Len(argv) = n + 1 /\ StandsIn(buf, o, partial)
          /\ o + Len(partial) = Len(buf)
      BY <1>1 DEF TextsStand
    <3>2. o \in Nat
      <4>1. argv[n + 1] \in Pointer
        BY <2>2, <3>1
      <4> QED BY <4>1 DEF Pointer
    <3>3. /\ Len(whole) = Len(partial) + 1
          /\ \A k \in 1 .. Len(partial) : whole[k] = partial[k]
          /\ whole[Len(partial) + 1] = A!Nul
      BY <2>2
    <3>4. argv'[n + 1].offset = o
      BY <2>1
    <3> HIDE DEF o, whole
    <3>5. ASSUME NEW k \in 1 .. Len(whole) PROVE buf'[o + k] = whole[k]
      <4>1. CASE k \in 1 .. Len(partial)
        <5>1. o + k \in 1 .. Len(buf) /\ buf[o + k] = partial[k]
          BY <2>2, <3>1, <3>2, <4>1 DEF StandsIn
        <5> QED BY <2>4, <3>3, <4>1, <5>1
      <4>2. CASE k = Len(partial) + 1
        <5>1. o + k = Len(buf) + 1
          BY <2>2, <3>1, <3>2, <4>2
        <5> QED BY <2>4, <3>3, <4>2, <5>1
      <4> QED BY <2>2, <3>3, <4>1, <4>2
    <3>6. StandsIn(buf', o, whole)
      <4>1. o + Len(whole) <= Len(buf')
        BY <2>2, <2>4, <3>1, <3>2, <3>3
      <4> QED BY <3>5, <4>1 DEF StandsIn
    <3>7. \A i \in 1 .. n + 1 :
            StandsIn(buf', argv'[i].offset, Append(given'[i], A!Nul))
      <4> SUFFICES ASSUME NEW i \in 1 .. n + 1
                   PROVE  StandsIn(buf', argv'[i].offset, Append(given'[i], A!Nul))
        OBVIOUS
      <4>1. CASE i \in 1 .. n
        BY <2>5, <2>6, <4>1
      <4>2. CASE i = n + 1
        BY <2>6, <3>4, <3>6, <4>2 DEF whole
      <4> QED BY <2>2, <4>1, <4>2
    <3>8. Len(argv') = Len(given') /\ Len(given') \in Nat
      BY <2>1, <2>2, <2>6, <3>1
    <3>9. \A i \in 1 .. Len(given') :
            StandsIn(buf', argv'[i].offset, Append(given'[i], A!Nul))
      BY <2>6, <3>7
    <3> QED BY <1>1, <2>1, <3>8, <3>9 DEF TextsStand
  <2> QED BY <2>7, <2>8, <2>9
<1> QED BY <1>3, <1>4

(* Every step of building an argument vector keeps the invariant.            *)
LEMMA ArgvStep == ArgvInv /\ [A!Next]_(A!vars) => ArgvInv'
<1> SUFFICES ASSUME ArgvInv, [A!Next]_(A!vars) PROVE ArgvInv'
  OBVIOUS
<1>1. ASSUME NEW arg \in Texts, A!AppendArg(arg) PROVE ArgvInv'
  BY <1>1, AppendArgKeeps
<1>2. ASSUME NEW arg \in Texts, A!PAppend(arg) PROVE ArgvInv'
  BY <1>2, PAppendKeeps
<1>3. CASE A!PStart
  BY <1>3, PStartKeeps
<1>4. CASE A!PFinish
  BY <1>4, PFinishKeeps
<1>5. CASE UNCHANGED A!vars
  BY <1>5 DEF A!vars, ArgvInv, ArgvTypeOK, NotGrown, TextsStand
<1> QED BY <1>1, <1>2, <1>3, <1>4, <1>5 DEF A!Next

(* The text of every entry is read from the buffer.                          *)
LEMMA TextsRead == ArgvInv => TextsKept
<1> SUFFICES ASSUME ArgvInv, A!Defined PROVE A!TextsKept
  BY DEF TextsKept, A!TextsKept
<1>1. ~failed /\ ArgvTypeOK /\ TextsStand
  BY DEF ArgvInv, A!Defined
<1>2. /\ buf \in Seq(Char \cup {A!Nul}) /\ given \in Seq(Seq(Char))
      /\ argv \in Seq(Pointer) /\ Len(given) \in Nat /\ Len(argv) \in Nat
  BY <1>1 DEF ArgvTypeOK
<1>3. Len(argv) = Len(given) + (IF partial = A!None THEN 0 ELSE 1)
  BY <1>1, <1>2 DEF TextsStand
<1>4. ASSUME NEW i \in 1 .. Len(given)
      PROVE  A!StringAt(argv[i].offset) = given[i]
  <2>1. given[i] \in Seq(Char)
    BY <1>2
  <2>2. argv[i].offset \in Nat
    <3>1. i \in 1 .. Len(argv)
      BY <1>2, <1>3
    <3>2. argv[i] \in Pointer
      BY <1>2, <3>1
    <3> QED BY <3>2 DEF Pointer
  <2>3. StandsIn(buf, argv[i].offset, Append(given[i], A!Nul))
    BY <1>1 DEF TextsStand
  <2> QED BY <1>1, <1>2, <2>1, <2>2, <2>3, StringRead
<1> QED BY <1>3, <1>4 DEF A!TextsKept
-----------------------------------------------------------------------------
(* The entries of compile_commands.json                                      *)

Locked == {"separator", "directory", "file", "arguments", "count", "flush", "unlock"}

PieceSet ==
  {C!Opening, C!Comma, C!Closing}
  \cup {Append(entry, name) : entry \in Thread \X Nat,
                                 name \in {"directory", "file", "arguments"}}

EntriesTypeOK ==
  /\ ccPc \in [Thread -> Locked \cup {"idle", "enter"}]
  /\ main \in {"building", "finishing", "finished"}
  /\ lock \in {{}} \cup {{b} : b \in Thread}
  /\ ccBuf \in Seq(PieceSet) /\ file \in Seq(PieceSet)
  /\ count \in Nat
  /\ log \in Seq(Thread \X Nat)
  /\ appended \in [Thread -> Nat]

(* Who has the lock; nobody is in a call once the script finishes.           *)
OneInLock ==
  /\ \A b \in Thread : ccPc[b] \in Locked <=> lock = {b}
  /\ main # "building" => \A b \in Thread : ccPc[b] = "idle"

(* How many pieces n whole entries are, and how many are written when the    *)
(* n-th is at some point of its call.                                        *)
Pieces(n) == IF n = 0 THEN 1 ELSE 4 * n
Due(point, n) ==
  CASE point = "separator" -> Pieces(n - 1)
    [] point = "directory" -> 4 * n - 3
    [] point = "file" -> 4 * n - 2
    [] point = "arguments" -> 4 * n - 1
    [] OTHER -> 4 * n

Written(entries, w, k) ==
  Len(w) = k /\ \A i \in 1 .. k : w[i] = C!Piece(entries, i)

EntriesSoFar ==
  /\ main = "building" /\ lock = {} =>
       /\ ccBuf = <<>> /\ count = Len(log)
       /\ Written(log, file, Pieces(Len(log)))
  /\ \A b \in Thread : ccPc[b] \in Locked =>
       /\ Len(log) > 0 /\ log[Len(log)] = C!Entry(b)
       /\ Written(log, file \o ccBuf, Due(ccPc[b], Len(log)))
       /\ count = IF ccPc[b] \in {"flush", "unlock"} THEN Len(log) ELSE Len(log) - 1
       /\ ccPc[b] = "unlock" => ccBuf = <<>>
  /\ main = "finishing" =>
       ccBuf = <<C!Closing>> /\ Written(log, file, Pieces(Len(log)))
  /\ main = "finished" =>
       ccBuf = <<>> /\ file = Append(C!Rendered(log), C!Closing)

(* The inductive invariant. *)
EntriesInv == EntriesTypeOK /\ OneInLock /\ EntriesSoFar

(* The pieces of the n-th entry.                                             *)
LEMMA PieceIs ==
  ASSUME NEW entries, NEW n \in Nat, n > 0
  PROVE  /\ C!Piece(entries, 4 * n - 3) = IF n = 1 THEN C!Opening ELSE C!Comma
         /\ C!Piece(entries, 4 * n - 2) = Append(entries[n], "directory")
         /\ C!Piece(entries, 4 * n - 1) = Append(entries[n], "file")
         /\ C!Piece(entries, 4 * n) = Append(entries[n], "arguments")
<1>1. /\ (4 * n - 3 - 1) % 4 = 0
      /\ 4 * n - 3 = 1 <=> n = 1
      /\ n # 1 => 4 * n - 3 > 1
  OBVIOUS
<1>2. /\ (4 * n - 2 - 1) % 4 = 1 /\ (4 * n - 2 - 1) \div 4 + 1 = n
      /\ (4 * n - 1 - 1) % 4 = 2 /\ (4 * n - 1 - 1) \div 4 + 1 = n
      /\ (4 * n - 1) % 4 = 3 /\ (4 * n - 1) \div 4 + 1 = n
  OBVIOUS
<1>3. C!Names[1] = "directory" /\ C!Names[2] = "file" /\ C!Names[3] = "arguments"
  BY DEF C!Names
<1>4. C!Piece(entries, 4 * n - 3) = IF n = 1 THEN C!Opening ELSE C!Comma
  BY <1>1 DEF C!Piece
<1>5. ASSUME NEW m \in Nat, m > 1, NEW k \in 1 .. 3,
             (m - 1) % 4 = k, (m - 1) \div 4 + 1 = n
      PROVE  C!Piece(entries, m) = Append(entries[n], C!Names[k])
  <2> DEFINE r == (m - 1) % 4
             d == (m - 1) \div 4 + 1
  <2>1. C!Piece(entries, m) =
          CASE m = 1 -> C!Opening
            [] m > 1 /\ r = 0 -> C!Comma
            [] r > 0 -> Append(entries[d], C!Names[r])
    BY DEF C!Piece
  <2>2. r = k /\ d = n
    BY <1>5
  <2> HIDE DEF r, d
  <2> QED BY <1>5, <2>1, <2>2
<1>6. C!Piece(entries, 4 * n - 2) = Append(entries[n], "directory")
  <2>1. 4 * n - 2 \in Nat /\ 4 * n - 2 > 1
    OBVIOUS
  <2> QED BY <1>2, <1>3, <1>5, <2>1
<1>7. C!Piece(entries, 4 * n - 1) = Append(entries[n], "file")
  <2>1. 4 * n - 1 \in Nat /\ 4 * n - 1 > 1
    OBVIOUS
  <2> QED BY <1>2, <1>3, <1>5, <2>1
<1>8. C!Piece(entries, 4 * n) = Append(entries[n], "arguments")
  <2>1. 4 * n \in Nat /\ 4 * n > 1
    OBVIOUS
  <2> QED BY <1>2, <1>3, <1>5, <2>1
<1> QED BY <1>4, <1>6, <1>7, <1>8

(* An entry more leaves the pieces of those before as they are.              *)
LEMMA PiecesStay ==
  ASSUME NEW S, NEW entries \in Seq(S), NEW e \in S,
         NEW i \in 1 .. Pieces(Len(entries))
  PROVE  C!Piece(Append(entries, e), i) = C!Piece(entries, i)
<1>1. Len(entries) \in Nat /\ i \in Int /\ 1 <= i /\ i <= Pieces(Len(entries))
  BY DEF Pieces
<1>2. CASE i = 1
  BY <1>2 DEF C!Piece
<1>3. CASE i # 1
  <2> DEFINE k == (i - 1) \div 4 + 1
  <2>1. Len(entries) > 0 /\ i <= 4 * Len(entries)
    BY <1>1, <1>3 DEF Pieces
  <2>2. k \in 1 .. Len(entries)
    BY <1>1, <2>1
  <2> HIDE DEF k
  <2>3. Append(entries, e)[k] = entries[k]
    BY <2>2
  <2> QED BY <2>3 DEF C!Piece, k
<1> QED BY <1>2, <1>3

(* Before the first call. *)
LEMMA EntriesInit == ASSUME C!Init PROVE EntriesInv
<1> USE DEF C!Init
<1>1. EntriesTypeOK
  BY DEF EntriesTypeOK, PieceSet
<1>2. OneInLock
  BY DEF OneInLock, Locked
<1>3. Written(log, file, Pieces(Len(log)))
  BY DEF Written, Pieces, C!Piece
<1>4. EntriesSoFar
  BY <1>3 DEF EntriesSoFar, Locked
<1> QED BY <1>1, <1>2, <1>4 DEF EntriesInv

(* What is written, and the pieces that follow.                              *)
LEMMA WrittenMore ==
  ASSUME NEW entries, NEW S, NEW w \in Seq(S), NEW more \in Seq(S), NEW k \in Nat,
         Written(entries, w, k),
         \A i \in 1 .. Len(more) : more[i] = C!Piece(entries, k + i)
  PROVE  Written(entries, w \o more, k + Len(more))
<1>1. Len(w) = k /\ Len(more) \in Nat
  BY DEF Written
<1>2. /\ Len(w \o more) = k + Len(more)
      /\ \A i \in 1 .. k : (w \o more)[i] = w[i]
      /\ \A i \in 1 .. Len(more) : (w \o more)[k + i] = more[i]
  BY <1>1
<1>3. ASSUME NEW i \in 1 .. k + Len(more)
      PROVE  (w \o more)[i] = C!Piece(entries, i)
  <2>1. CASE i \in 1 .. k
    BY <1>2, <2>1 DEF Written
  <2>2. CASE i \notin 1 .. k
    <3>1. PICK j \in 1 .. Len(more) : i = k + j
      <4>1. i - k \in 1 .. Len(more) /\ i = k + (i - k)
        BY <1>1, <2>2
      <4> QED BY <4>1
    <3> QED BY <1>2, <3>1
  <2> QED BY <2>1, <2>2
<1> QED BY <1>2, <1>3 DEF Written

(* While one thread has the lock no other is in its call.                    *)
LEMMA OnlyOne ==
  ASSUME EntriesInv, NEW b \in Thread, ccPc[b] \in Locked
  PROVE  /\ lock = {b} /\ main = "building"
         /\ \A c \in Thread \ {b} : ccPc[c] \notin Locked
<1>1. lock = {b} /\ \A c \in Thread : ccPc[c] \in Locked => lock = {c}
  BY DEF EntriesInv, OneInLock
<1>2. main = "building"
  BY DEF EntriesInv, EntriesTypeOK, OneInLock, Locked
<1> QED BY <1>1, <1>2

(* ob_write: the pieces that are due.                                        *)
LEMMA PutKeeps ==
  ASSUME EntriesInv, NEW b \in Thread, NEW pieces \in Seq(PieceSet),
         NEW from \in {"separator", "directory", "file", "arguments"},
         NEW to \in {"directory", "file", "arguments", "count"},
         C!Put(b, from, to, pieces),
         Due(to, Len(log)) = Due(from, Len(log)) + Len(pieces),
         \A i \in 1 .. Len(pieces) : pieces[i] = C!Piece(log, Due(from, Len(log)) + i)
  PROVE  EntriesInv'
<1> USE DEF EntriesInv
<1>1. /\ ccPc[b] = from /\ ccPc' = [ccPc EXCEPT ![b] = to]
      /\ ccBuf' = ccBuf \o pieces
      /\ UNCHANGED <<main, lock, file, count, log, appended>>
  BY DEF C!Put, C!Goto
<1>2. from \in Locked /\ to \in Locked /\ from \notin {"flush", "unlock"}
      /\ to \notin {"flush", "unlock"}
  BY DEF Locked
<1>3. /\ lock = {b} /\ main = "building"
      /\ \A c \in Thread \ {b} : ccPc[c] \notin Locked
  BY <1>1, <1>2, OnlyOne
<1>4. /\ ccPc \in [Thread -> Locked \cup {"idle", "enter"}]
      /\ ccBuf \in Seq(PieceSet) /\ file \in Seq(PieceSet)
      /\ log \in Seq(Thread \X Nat) /\ Len(log) \in Nat /\ count \in Nat
      /\ Len(pieces) \in Nat
  BY DEF EntriesTypeOK
<1>5. ccPc'[b] = to /\ \A c \in Thread \ {b} : ccPc'[c] = ccPc[c]
  BY <1>1, <1>4
<1>6. EntriesTypeOK'
  <2>1. ccBuf' \in Seq(PieceSet)
    BY <1>1, <1>4
  <2>2. ccPc' \in [Thread -> Locked \cup {"idle", "enter"}]
    BY <1>1, <1>2, <1>4
  <2> QED BY <1>1, <2>1, <2>2 DEF EntriesTypeOK
<1>7. OneInLock'
  BY <1>1, <1>2, <1>3, <1>5 DEF OneInLock
<1>8. /\ Len(log) > 0 /\ log[Len(log)] = C!Entry(b)
      /\ Written(log, file \o ccBuf, Due(from, Len(log)))
      /\ count = Len(log) - 1
  BY <1>1, <1>2 DEF EntriesSoFar
<1>9. Written(log, file \o ccBuf', Due(to, Len(log)))
  <2>1. Due(from, Len(log)) \in Nat
    BY <1>4, <1>8 DEF Due, Pieces
  <2>2. file \o ccBuf \in Seq(PieceSet)
    BY <1>4
  <2>3. Written(log, (file \o ccBuf) \o pieces, Due(from, Len(log)) + Len(pieces))
    BY <1>8, <2>1, <2>2, WrittenMore
  <2>4. file \o ccBuf' = (file \o ccBuf) \o pieces
    <3>1. ASSUME NEW a \in Seq(PieceSet), NEW b1 \in Seq(PieceSet), NEW b2 \in Seq(PieceSet)
          PROVE  a \o (b1 \o b2) = (a \o b1) \o b2
      OBVIOUS
    <3> QED BY <1>1, <1>4, <3>1
  <2> QED BY <2>3, <2>4
<1>10. C!Entry(b)' = C!Entry(b)
  BY <1>1 DEF C!Entry
<1>11. EntriesSoFar'
  <2>1. \A c \in Thread : ccPc'[c] \in Locked => c = b
    BY <1>3, <1>5
  <2>2. ~ (main' = "building" /\ lock' = {}) /\ main' \notin {"finishing", "finished"}
    BY <1>1, <1>3
  <2>3. /\ Len(log') > 0 /\ log'[Len(log')] = C!Entry(b)'
        /\ Written(log', file' \o ccBuf', Due(ccPc'[b], Len(log')))
        /\ count' = IF ccPc'[b] \in {"flush", "unlock"} THEN Len(log') ELSE Len(log') - 1
        /\ ccPc'[b] # "unlock"
    BY <1>1, <1>2, <1>5, <1>8, <1>9, <1>10
  <2> QED BY <2>1, <2>2, <2>3 DEF EntriesSoFar
<1> QED BY <1>6, <1>7, <1>11

(* A separator before every entry but the first.                             *)
LEMMA SeparateKeeps ==
  ASSUME EntriesInv, NEW b \in Thread, C!Separate(b)
  PROVE  EntriesInv'
<1> DEFINE n == Len(log)
<1>1. ccPc[b] = "separator"
  BY DEF C!Separate, C!Put, C!Goto
<1>2. n \in Nat /\ n > 0 /\ count = n - 1 /\ count \in Nat
  <2>1. ccPc[b] \in Locked /\ ccPc[b] \notin {"flush", "unlock"}
    BY <1>1 DEF Locked
  <2>2. n > 0 /\ count = n - 1
    BY <2>1 DEF EntriesInv, EntriesSoFar
  <2>3. n \in Nat /\ count \in Nat
    BY DEF EntriesInv, EntriesTypeOK
  <2> QED BY <2>2, <2>3
<1> HIDE DEF n
<1>3. PICK pieces : pieces = IF count > 0 THEN <<C!Comma>> ELSE <<>>
  OBVIOUS
<1>4. C!Put(b, "separator", "directory", pieces)
  BY <1>3 DEF C!Separate
<1>5. /\ pieces \in Seq(PieceSet)
      /\ Due("directory", n) = Due("separator", n) + Len(pieces)
      /\ \A i \in 1 .. Len(pieces) : pieces[i] = C!Piece(log, Due("separator", n) + i)
  <2>1. Due("directory", n) = 4 * n - 3 /\ Due("separator", n) = Pieces(n - 1)
    BY DEF Due
  <2>2. CASE count > 0
    <3>1. /\ pieces = <<C!Comma>> /\ Len(pieces) = 1 /\ pieces[1] = C!Comma
          /\ pieces \in Seq(PieceSet)
      BY <1>3, <2>2 DEF PieceSet
    <3>2. Pieces(n - 1) = 4 * n - 4 /\ n # 1
      BY <1>2, <2>2 DEF Pieces
    <3>3. C!Piece(log, 4 * n - 3) = C!Comma
      BY <1>2, <3>2, PieceIs
    <3>4. Pieces(n - 1) + 1 = 4 * n - 3
      BY <1>2, <3>2
    <3> QED BY <2>1, <3>1, <3>3, <3>4
  <2>3. CASE ~ (count > 0)
    <3>1. pieces = <<>> /\ pieces \in Seq(PieceSet) /\ Len(pieces) = 0
      BY <1>3, <2>3
    <3>2. n = 1 /\ Pieces(n - 1) = 1 /\ 4 * n - 3 = 1
      BY <1>2, <2>3 DEF Pieces
    <3> QED BY <2>1, <3>1, <3>2
  <2> QED BY <2>2, <2>3
<1> QED BY <1>4, <1>5, PutKeeps DEF n

(* A field is among the pieces, and one piece is a sequence of them.         *)
LEMMA FieldInSet ==
  ASSUME NEW entry \in Thread \X Nat, NEW name \in {"directory", "file", "arguments"}
  PROVE  Append(entry, name) \in PieceSet
BY DEF PieceSet

LEMMA OnePiece ==
  ASSUME NEW e \in PieceSet
  PROVE  /\ <<e>> \in Seq(PieceSet) /\ Len(<<e>>) = 1
         /\ \A i \in 1 .. Len(<<e>>) : i = 1 /\ <<e>>[i] = e
<1>1. /\ <<e>> \in Seq(PieceSet) /\ Len(<<e>>) = 1 /\ <<e>>[1] = e
  OBVIOUS
<1>2. \A i \in 1 .. 1 : i = 1
  OBVIOUS
<1> QED BY <1>1, <1>2

(* A field of the entry.                                                     *)
LEMMA FieldKeeps ==
  ASSUME EntriesInv, NEW b \in Thread,
         NEW from \in {"directory", "file", "arguments"},
         NEW to \in {"file", "arguments", "count"},
         C!Put(b, from, to, <<C!Field(b, from)>>),
         Due(to, Len(log)) = Due(from, Len(log)) + 1,
         C!Piece(log, Due(from, Len(log)) + 1) = Append(log[Len(log)], from)
  PROVE  EntriesInv'
<1>1. ccPc[b] = from
  BY DEF C!Put, C!Goto
<1>2. log[Len(log)] = C!Entry(b)
  BY <1>1 DEF EntriesInv, EntriesSoFar, Locked
<1>3. C!Entry(b) \in Thread \X Nat
  BY DEF EntriesInv, EntriesTypeOK, C!Entry
<1>4. PICK field : field = C!Field(b, from)
  OBVIOUS
<1>5. field \in PieceSet /\ field = Append(log[Len(log)], from)
  <2>1. field = Append(C!Entry(b), from)
    BY <1>4 DEF C!Field
  <2>2. PICK entry \in Thread \X Nat : entry = C!Entry(b)
    BY <1>3
  <2>3. field = Append(entry, from)
    BY <2>1, <2>2
  <2>4. field \in PieceSet
    BY <2>2, <2>3, FieldInSet
  <2> QED BY <1>2, <2>1, <2>4
<1> DEFINE pieces == <<field>>
<1>6. /\ pieces \in Seq(PieceSet) /\ Len(pieces) = 1
      /\ \A i \in 1 .. Len(pieces) : pieces[i] = C!Piece(log, Due(from, Len(log)) + i)
  BY <1>5, OnePiece
<1>7. C!Put(b, from, to, pieces)
  BY <1>4
<1> HIDE DEF pieces
<1> QED BY <1>6, <1>7, PutKeeps

(* The three fields. *)
LEMMA FieldsKeep ==
  ASSUME EntriesInv, NEW b \in Thread,
         C!PutDirectory(b) \/ C!PutFile(b) \/ C!PutArguments(b)
  PROVE  EntriesInv'
<1> DEFINE n == Len(log)
<1>1. ccPc[b] \in Locked
  BY DEF C!PutDirectory, C!PutFile, C!PutArguments, C!Put, C!Goto, Locked
<1>2. n \in Nat /\ n > 0
  BY <1>1 DEF EntriesInv, EntriesTypeOK, EntriesSoFar
<1>3. /\ C!Piece(log, 4 * n - 2) = Append(log[n], "directory")
      /\ C!Piece(log, 4 * n - 1) = Append(log[n], "file")
      /\ C!Piece(log, 4 * n) = Append(log[n], "arguments")
  BY <1>2, PieceIs
<1> HIDE DEF n
<1>4. /\ Due("directory", n) = 4 * n - 3 /\ Due("file", n) = 4 * n - 2
      /\ Due("arguments", n) = 4 * n - 1 /\ Due("count", n) = 4 * n
  BY DEF Due
<1>5. /\ Due("file", n) = Due("directory", n) + 1
      /\ Due("arguments", n) = Due("file", n) + 1
      /\ Due("count", n) = Due("arguments", n) + 1
      /\ Due("directory", n) + 1 = 4 * n - 2
      /\ Due("file", n) + 1 = 4 * n - 1
      /\ Due("arguments", n) + 1 = 4 * n
  BY <1>2, <1>4
<1>6. CASE C!PutDirectory(b)
  BY <1>3, <1>5, <1>6, FieldKeeps DEF n, C!PutDirectory
<1>7. CASE C!PutFile(b)
  BY <1>3, <1>5, <1>7, FieldKeeps DEF n, C!PutFile
<1>8. CASE C!PutArguments(b)
  BY <1>3, <1>5, <1>8, FieldKeeps DEF n, C!PutArguments
<1> QED BY <1>6, <1>7, <1>8

(* A call, and the lock. *)
LEMMA CallKeeps ==
  ASSUME EntriesInv, NEW b \in Thread, C!Call(b)
  PROVE  EntriesInv'
<1> USE DEF EntriesInv
<1>1. /\ ccPc[b] = "idle" /\ ccPc' = [ccPc EXCEPT ![b] = "enter"] /\ main = "building"
      /\ appended' = [appended EXCEPT ![b] = @ + 1]
      /\ UNCHANGED <<main, lock, ccBuf, file, count, log>>
  BY DEF C!Call, C!Goto
<1>2. ccPc \in [Thread -> Locked \cup {"idle", "enter"}] /\ appended \in [Thread -> Nat]
  BY DEF EntriesTypeOK
<1>3. /\ ccPc'[b] = "enter" /\ \A c \in Thread \ {b} : ccPc'[c] = ccPc[c]
      /\ ccPc' \in [Thread -> Locked \cup {"idle", "enter"}]
      /\ \A c \in Thread \ {b} : appended'[c] = appended[c]
      /\ appended' \in [Thread -> Nat]
  BY <1>1, <1>2
<1>4. "idle" \notin Locked /\ "enter" \notin Locked
  BY DEF Locked
<1>5. \A c \in Thread : ccPc'[c] \in Locked <=> ccPc[c] \in Locked
  BY <1>1, <1>3, <1>4
<1>6. EntriesTypeOK'
  BY <1>1, <1>3 DEF EntriesTypeOK
<1>7. OneInLock'
  BY <1>1, <1>5 DEF OneInLock
<1>8. \A c \in Thread : ccPc'[c] \in Locked =>
        c # b /\ C!Entry(c)' = C!Entry(c) /\ ccPc'[c] = ccPc[c]
  BY <1>3, <1>4 DEF C!Entry
<1>9. EntriesSoFar'
  BY <1>1, <1>5, <1>8 DEF EntriesSoFar
<1> QED BY <1>6, <1>7, <1>9

(* The lock is free: the next entry begins.                                  *)
LEMMA LockKeeps ==
  ASSUME EntriesInv, NEW b \in Thread, C!Lock(b)
  PROVE  EntriesInv'
<1> USE DEF EntriesInv
<1>1. /\ lock = {} /\ lock' = {b}
      /\ ccPc[b] = "enter" /\ ccPc' = [ccPc EXCEPT ![b] = "separator"]
      /\ log' = Append(log, C!Entry(b))
      /\ UNCHANGED <<main, ccBuf, file, count, appended>>
  BY DEF C!Lock, C!Goto
<1>2. /\ ccPc \in [Thread -> Locked \cup {"idle", "enter"}]
      /\ file \in Seq(PieceSet) /\ log \in Seq(Thread \X Nat) /\ Len(log) \in Nat
      /\ C!Entry(b) \in Thread \X Nat
  BY DEF EntriesTypeOK, C!Entry
<1>3. main = "building"
  <2>1. ccPc[b] # "idle"
    BY <1>1
  <2> QED BY <2>1 DEF OneInLock
<1>4. \A c \in Thread : ccPc[c] \notin Locked
  BY <1>1 DEF OneInLock
<1>5. "separator" \in Locked
  BY DEF Locked
<1>6. /\ ccPc'[b] = "separator" /\ \A c \in Thread \ {b} : ccPc'[c] = ccPc[c]
      /\ ccPc' \in [Thread -> Locked \cup {"idle", "enter"}]
  BY <1>1, <1>2, <1>5
<1>7. \A c \in Thread : ccPc'[c] \in Locked <=> c = b
  BY <1>4, <1>5, <1>6
<1> DEFINE n == Len(log)
<1>8. /\ log' \in Seq(Thread \X Nat) /\ Len(log') = n + 1 /\ log'[n + 1] = C!Entry(b)
  BY <1>1, <1>2
<1>9. EntriesTypeOK'
  BY <1>1, <1>6, <1>8 DEF EntriesTypeOK
<1>10. OneInLock'
  BY <1>1, <1>3, <1>7 DEF OneInLock
<1>11. ccBuf = <<>> /\ count = n /\ Written(log, file, Pieces(n))
  BY <1>1, <1>3 DEF EntriesSoFar
<1>12. Written(log', file \o ccBuf, Due("separator", n + 1))
  <2>1. file \o ccBuf = file
    BY <1>2, <1>11
  <2>2. Due("separator", n + 1) = Pieces(n)
    BY <1>2 DEF Due
  <2>3. PICK e \in Thread \X Nat : e = C!Entry(b)
    BY <1>2
  <2>4. ASSUME NEW i \in 1 .. Pieces(n) PROVE C!Piece(Append(log, e), i) = C!Piece(log, i)
    BY <1>2, PiecesStay
  <2> QED BY <1>1, <1>11, <2>1, <2>2, <2>3, <2>4 DEF Written
<1>13. C!Entry(b)' = C!Entry(b)
  BY <1>1 DEF C!Entry
<1>14. EntriesSoFar'
  <2>1. /\ Len(log') > 0 /\ log'[Len(log')] = C!Entry(b)'
        /\ Written(log', file' \o ccBuf', Due(ccPc'[b], Len(log')))
        /\ count' = Len(log') - 1
        /\ ccPc'[b] \notin {"flush", "unlock"}
    BY <1>1, <1>2, <1>6, <1>8, <1>11, <1>12, <1>13
  <2> QED BY <1>1, <1>3, <1>7, <2>1 DEF EntriesSoFar
<1> QED BY <1>9, <1>10, <1>14

(* All the pieces that are due make the array.                               *)
LEMMA RenderedIs ==
  ASSUME EntriesTypeOK, NEW w \in Seq(PieceSet), Written(log, w, Pieces(Len(log)))
  PROVE  w = C!Rendered(log)
<1>1. log \in Seq(Thread \X Nat) /\ Len(log) \in Nat
  BY DEF EntriesTypeOK
<1>2. Len(log) = 0 <=> log = <<>>
  BY <1>1
<1>3. C!Rendered(log) = [i \in 1 .. Pieces(Len(log)) |-> C!Piece(log, i)]
  BY <1>2 DEF C!Rendered, Pieces
<1>4. w = [i \in 1 .. Len(w) |-> w[i]]
  OBVIOUS
<1> QED BY <1>3, <1>4 DEF Written

(* The entry is counted, handed to the file, and the lock given back.        *)
LEMMA CountKeeps ==
  ASSUME EntriesInv, NEW b \in Thread, C!Count(b)
  PROVE  EntriesInv'
<1> USE DEF EntriesInv
<1>1. /\ ccPc[b] = "count" /\ ccPc' = [ccPc EXCEPT ![b] = "flush"]
      /\ count' = count + 1
      /\ UNCHANGED <<main, lock, ccBuf, file, log, appended>>
  BY DEF C!Count, C!Goto
<1>2. "count" \in Locked /\ "flush" \in Locked
  BY DEF Locked
<1>3. /\ lock = {b} /\ main = "building"
      /\ \A c \in Thread \ {b} : ccPc[c] \notin Locked
  BY <1>1, <1>2, OnlyOne
<1>4. /\ ccPc \in [Thread -> Locked \cup {"idle", "enter"}]
      /\ Len(log) \in Nat /\ count \in Nat
  BY DEF EntriesTypeOK
<1>5. /\ ccPc'[b] = "flush" /\ \A c \in Thread \ {b} : ccPc'[c] = ccPc[c]
      /\ ccPc' \in [Thread -> Locked \cup {"idle", "enter"}]
  BY <1>1, <1>2, <1>4
<1>6. EntriesTypeOK'
  BY <1>1, <1>4, <1>5 DEF EntriesTypeOK
<1>7. OneInLock'
  BY <1>1, <1>2, <1>3, <1>5 DEF OneInLock
<1>8. /\ Len(log) > 0 /\ log[Len(log)] = C!Entry(b)
      /\ Written(log, file \o ccBuf, Due("count", Len(log)))
      /\ count = Len(log) - 1
  BY <1>1, <1>2 DEF EntriesSoFar
<1>9. Due("flush", Len(log)) = Due("count", Len(log))
  BY DEF Due
<1>10. C!Entry(b)' = C!Entry(b)
  BY <1>1 DEF C!Entry
<1>11. count' = Len(log)
  BY <1>1, <1>4, <1>8
<1>12. EntriesSoFar'
  <2>1. \A c \in Thread : ccPc'[c] \in Locked => c = b
    BY <1>3, <1>5
  <2> QED BY <1>1, <1>3, <1>5, <1>8, <1>9, <1>10, <1>11, <2>1 DEF EntriesSoFar
<1> QED BY <1>6, <1>7, <1>12

(* ob_flush. *)
LEMMA FlushKeeps ==
  ASSUME EntriesInv, NEW b \in Thread, C!Flush(b)
  PROVE  EntriesInv'
<1> USE DEF EntriesInv
<1>1. /\ ccPc[b] = "flush" /\ ccPc' = [ccPc EXCEPT ![b] = "unlock"]
      /\ file' = file \o ccBuf /\ ccBuf' = <<>>
      /\ UNCHANGED <<main, lock, count, log, appended>>
  BY DEF C!Flush, C!Goto
<1>2. "flush" \in Locked /\ "unlock" \in Locked
  BY DEF Locked
<1>3. /\ lock = {b} /\ main = "building"
      /\ \A c \in Thread \ {b} : ccPc[c] \notin Locked
  BY <1>1, <1>2, OnlyOne
<1>4. /\ ccPc \in [Thread -> Locked \cup {"idle", "enter"}]
      /\ ccBuf \in Seq(PieceSet) /\ file \in Seq(PieceSet)
  BY DEF EntriesTypeOK
<1>5. /\ ccPc'[b] = "unlock" /\ \A c \in Thread \ {b} : ccPc'[c] = ccPc[c]
      /\ ccPc' \in [Thread -> Locked \cup {"idle", "enter"}]
  BY <1>1, <1>2, <1>4
<1>6. file' \in Seq(PieceSet) /\ ccBuf' \in Seq(PieceSet) /\ file' \o ccBuf' = file \o ccBuf
  BY <1>1, <1>4
<1>7. EntriesTypeOK'
  BY <1>1, <1>5, <1>6 DEF EntriesTypeOK
<1>8. OneInLock'
  BY <1>1, <1>2, <1>3, <1>5 DEF OneInLock
<1>9. /\ Len(log) > 0 /\ log[Len(log)] = C!Entry(b)
      /\ Written(log, file \o ccBuf, Due("flush", Len(log)))
      /\ count = Len(log)
  BY <1>1, <1>2 DEF EntriesSoFar
<1>10. Due("unlock", Len(log)) = Due("flush", Len(log))
  BY DEF Due
<1>11. C!Entry(b)' = C!Entry(b)
  BY <1>1 DEF C!Entry
<1>12. EntriesSoFar'
  <2>1. \A c \in Thread : ccPc'[c] \in Locked => c = b
    BY <1>3, <1>5
  <2> QED BY <1>1, <1>3, <1>5, <1>6, <1>9, <1>10, <1>11, <2>1 DEF EntriesSoFar
<1> QED BY <1>7, <1>8, <1>12

(* The lock is given back, with the entry whole.                             *)
LEMMA UnlockKeeps ==
  ASSUME EntriesInv, NEW b \in Thread, C!Unlock(b)
  PROVE  EntriesInv'
<1> USE DEF EntriesInv
<1>1. /\ ccPc[b] = "unlock" /\ ccPc' = [ccPc EXCEPT ![b] = "idle"]
      /\ lock' = {}
      /\ UNCHANGED <<main, ccBuf, file, count, log, appended>>
  BY DEF C!Unlock, C!Goto
<1>2. "unlock" \in Locked /\ "idle" \notin Locked
  BY DEF Locked
<1>3. /\ lock = {b} /\ main = "building"
      /\ \A c \in Thread \ {b} : ccPc[c] \notin Locked
  BY <1>1, <1>2, OnlyOne
<1>4. /\ ccPc \in [Thread -> Locked \cup {"idle", "enter"}]
      /\ file \in Seq(PieceSet) /\ Len(log) \in Nat
  BY DEF EntriesTypeOK
<1>5. /\ \A c \in Thread : ccPc'[c] \notin Locked
      /\ ccPc' \in [Thread -> Locked \cup {"idle", "enter"}]
  BY <1>1, <1>2, <1>3, <1>4
<1>6. EntriesTypeOK'
  BY <1>1, <1>5 DEF EntriesTypeOK
<1>7. OneInLock'
  <2>1. \A c \in Thread : lock' # {c}
    BY <1>1
  <2> QED BY <1>1, <1>3, <1>5, <2>1 DEF OneInLock
<1>8. /\ Len(log) > 0 /\ ccBuf = <<>>
      /\ Written(log, file \o ccBuf, Due("unlock", Len(log)))
      /\ count = Len(log)
  BY <1>1, <1>2 DEF EntriesSoFar
<1>9. file \o ccBuf = file /\ Due("unlock", Len(log)) = Pieces(Len(log))
  BY <1>4, <1>8 DEF Due, Pieces
<1>10. EntriesSoFar'
  BY <1>1, <1>3, <1>5, <1>8, <1>9 DEF EntriesSoFar
<1> QED BY <1>6, <1>7, <1>10

(* zmm_cc_finish. *)
LEMMA FinishKeeps ==
  ASSUME EntriesInv, C!FinishPut \/ C!FinishFlush
  PROVE  EntriesInv'
<1> USE DEF EntriesInv
<1>1. /\ UNCHANGED <<ccPc, lock, count, log, appended>>
      /\ ccBuf \in Seq(PieceSet) /\ file \in Seq(PieceSet)
      /\ C!Closing \in PieceSet
  BY DEF C!FinishPut, C!FinishFlush, EntriesTypeOK, PieceSet
<1>2. \A b \in Thread : ccPc[b] = "idle" /\ ccPc[b] \notin Locked
  BY DEF C!FinishPut, C!FinishFlush, OneInLock, Locked
<1>3. CASE C!FinishPut
  <2>1. main = "building" /\ main' = "finishing" /\ ccBuf' = Append(ccBuf, C!Closing) /\ file' = file
    BY <1>3 DEF C!FinishPut
  <2>2. lock = {}
    BY <1>2 DEF OneInLock, EntriesTypeOK
  <2>3. ccBuf = <<>> /\ Written(log, file, Pieces(Len(log)))
    BY <2>1, <2>2 DEF EntriesSoFar
  <2>4. ccBuf' = <<C!Closing>> /\ ccBuf' \in Seq(PieceSet)
    BY <1>1, <2>1, <2>3
  <2>5. EntriesTypeOK'
    BY <1>1, <2>1, <2>4 DEF EntriesTypeOK
  <2>6. OneInLock'
    BY <1>1, <1>2, <2>1 DEF OneInLock
  <2>7. EntriesSoFar'
    BY <1>1, <1>2, <2>1, <2>3, <2>4 DEF EntriesSoFar
  <2> QED BY <2>5, <2>6, <2>7
<1>4. CASE C!FinishFlush
  <2>1. main = "finishing" /\ main' = "finished" /\ file' = file \o ccBuf /\ ccBuf' = <<>>
    BY <1>4 DEF C!FinishFlush
  <2>2. ccBuf = <<C!Closing>> /\ Written(log, file, Pieces(Len(log)))
    BY <2>1 DEF EntriesSoFar
  <2>3. file' = Append(file, C!Closing) /\ file' \in Seq(PieceSet)
    BY <1>1, <2>1, <2>2
  <2>4. file = C!Rendered(log)
    BY <1>1, <2>2, RenderedIs
  <2>5. EntriesTypeOK'
    BY <1>1, <2>1, <2>3 DEF EntriesTypeOK
  <2>6. OneInLock'
    BY <1>1, <1>2, <2>1 DEF OneInLock
  <2>7. EntriesSoFar'
    BY <1>1, <1>2, <2>1, <2>3, <2>4 DEF EntriesSoFar
  <2> QED BY <2>5, <2>6, <2>7
<1> QED BY <1>3, <1>4

(* Every step of the builders and of the script keeps the invariant.         *)
LEMMA EntriesStep == EntriesInv /\ [C!Next]_(C!vars) => EntriesInv'
<1> SUFFICES ASSUME EntriesInv, [C!Next]_(C!vars) PROVE EntriesInv'
  OBVIOUS
<1>1. ASSUME NEW b \in Thread, C!Call(b) PROVE EntriesInv'
  BY <1>1, CallKeeps
<1>2. ASSUME NEW b \in Thread, C!AppendStep(b) PROVE EntriesInv'
  BY <1>2, LockKeeps, SeparateKeeps, FieldsKeep, CountKeeps, FlushKeeps, UnlockKeeps
     DEF C!AppendStep
<1>3. CASE C!FinishPut \/ C!FinishFlush
  BY <1>3, FinishKeeps
<1>4. CASE UNCHANGED C!vars
  BY <1>4 DEF C!vars, EntriesInv, EntriesTypeOK, OneInLock, EntriesSoFar, C!Entry
<1> QED BY <1>1, <1>2, <1>3, <1>4 DEF C!Next, C!Finished

(* The array is a sequence of pieces, and so is it with its closing bracket. *)
LEMMA RenderedType ==
  ASSUME EntriesTypeOK
  PROVE  /\ C!Rendered(log) \in Seq(PieceSet)
         /\ Len(C!Rendered(log)) = Pieces(Len(log))
         /\ \A i \in 1 .. Pieces(Len(log)) : C!Rendered(log)[i] = C!Piece(log, i)
<1>1. log \in Seq(Thread \X Nat) /\ Len(log) \in Nat /\ Pieces(Len(log)) \in Nat
  BY DEF EntriesTypeOK, Pieces
<1>2. Len(log) = 0 <=> log = <<>>
  BY <1>1
<1>3. C!Rendered(log) = [i \in 1 .. Pieces(Len(log)) |-> C!Piece(log, i)]
  BY <1>2 DEF C!Rendered, Pieces
<1>4. ASSUME NEW i \in 1 .. Pieces(Len(log)) PROVE C!Piece(log, i) \in PieceSet
  <2> DEFINE r == (i - 1) % 4
             d == (i - 1) \div 4 + 1
  <2>1. C!Piece(log, i) =
          CASE i = 1 -> C!Opening
            [] i > 1 /\ r = 0 -> C!Comma
            [] r > 0 -> Append(log[d], C!Names[r])
    BY DEF C!Piece
  <2>2. r \in 0 .. 3 /\ i \in Nat /\ 1 <= i /\ (i = 1 => r = 0)
    BY <1>1
  <2>3. i # 1 => d \in 1 .. Len(log)
    BY <1>1 DEF Pieces
  <2> HIDE DEF r, d
  <2>4. CASE i = 1
    BY <2>1, <2>2, <2>4 DEF PieceSet
  <2>5. CASE i > 1 /\ r = 0
    BY <2>1, <2>5 DEF PieceSet
  <2>6. CASE i # 1 /\ r # 0
    <3>1. log[d] \in Thread \X Nat
      BY <1>1, <2>3, <2>6
    <3>2. C!Names[r] \in {"directory", "file", "arguments"}
      BY <2>2, <2>6 DEF C!Names
    <3>3. C!Piece(log, i) = Append(log[d], C!Names[r])
      BY <2>1, <2>2, <2>6
    <3>4. Append(log[d], C!Names[r]) \in PieceSet
      BY <3>1, <3>2, FieldInSet
    <3> QED BY <3>3, <3>4
  <2> QED BY <2>2, <2>4, <2>5, <2>6
<1> QED BY <1>1, <1>3, <1>4

(* Whatever is written is the beginning of the array.                        *)
LEMMA WrittenIsPrefix ==
  ASSUME EntriesTypeOK, NEW w \in Seq(PieceSet), NEW k \in 0 .. Pieces(Len(log)),
         Written(log, w, k)
  PROVE  C!IsPrefix(w, Append(C!Rendered(log), C!Closing))
<1> DEFINE s == C!Rendered(log)
           t == Append(s, C!Closing)
<1>1. /\ s \in Seq(PieceSet) /\ Len(s) = Pieces(Len(log)) /\ Len(s) \in Nat
      /\ \A i \in 1 .. Len(s) : s[i] = C!Piece(log, i)
  BY RenderedType
<1>2. C!Closing \in PieceSet
  BY DEF PieceSet
<1>3. Len(w) = k /\ k \in Nat /\ k <= Len(s) /\ \A i \in 1 .. k : w[i] = C!Piece(log, i)
  BY <1>1 DEF Written
<1> HIDE DEF s
<1>4. /\ t \in Seq(PieceSet) /\ Len(t) = Len(s) + 1
      /\ \A i \in 1 .. Len(s) : t[i] = s[i]
  BY <1>1, <1>2
<1> HIDE DEF t
<1>5. \A i \in 1 .. k : w[i] = t[i]
  BY <1>1, <1>3, <1>4
<1>6. /\ SubSeq(w, 1, k) = [i \in 1 .. k |-> w[i]]
      /\ SubSeq(t, 1, k) = [i \in 1 .. k |-> t[i]]
  BY <1>1, <1>3, <1>4
<1>7. k <= Len(t)
  BY <1>1, <1>3, <1>4
<1>8. C!IsPrefix(w, t)
  BY <1>3, <1>5, <1>6, <1>7 DEF C!IsPrefix
<1> QED BY <1>8 DEF s, t

(* What EntriesWhole says, from the invariant.                               *)
LEMMA EntriesAreWhole == EntriesInv => EntriesWhole
<1> SUFFICES ASSUME EntriesInv PROVE C!EntriesWhole
  BY DEF EntriesWhole
<1>1. /\ EntriesTypeOK
      /\ ccBuf \in Seq(PieceSet) /\ file \in Seq(PieceSet) /\ Len(log) \in Nat
      /\ main \in {"building", "finishing", "finished"}
      /\ lock \in {{}} \cup {{b} : b \in Thread}
  BY DEF EntriesInv, EntriesTypeOK
<1>2. file \o ccBuf \in Seq(PieceSet) /\ Pieces(Len(log)) \in Nat
  BY <1>1 DEF Pieces
<1> DEFINE Prefix(w) == C!IsPrefix(w, Append(C!Rendered(log), C!Closing))
<1>3. CASE main = "building" /\ lock = {}
  <2>1. ccBuf = <<>> /\ Written(log, file, Pieces(Len(log)))
    BY <1>3 DEF EntriesInv, EntriesSoFar
  <2>2. file \o ccBuf = file
    BY <1>1, <2>1
  <2>3. Prefix(file)
    BY <1>1, <1>2, <2>1, WrittenIsPrefix
  <2> QED BY <1>3, <2>2, <2>3 DEF C!EntriesWhole
<1>4. CASE main = "building" /\ lock # {}
  <2>1. PICK b \in Thread : lock = {b}
    BY <1>1, <1>4
  <2>2. ccPc[b] \in Locked
    BY <2>1 DEF EntriesInv, OneInLock
  <2>3. Len(log) > 0 /\ Written(log, file \o ccBuf, Due(ccPc[b], Len(log)))
    BY <2>2 DEF EntriesInv, EntriesSoFar
  <2>4. Due(ccPc[b], Len(log)) \in 0 .. Pieces(Len(log))
    BY <1>1, <2>3 DEF Due, Pieces
  <2>5. Prefix(file \o ccBuf)
    BY <1>1, <1>2, <2>3, <2>4, WrittenIsPrefix
  <2> QED BY <1>4, <2>5 DEF C!EntriesWhole
<1>5. CASE main = "finishing"
  <2>1. ccBuf = <<C!Closing>> /\ file = C!Rendered(log)
    BY <1>1, <1>5, RenderedIs DEF EntriesInv, EntriesSoFar
  <2>2. PICK all \in Seq(PieceSet) : all = Append(file, C!Closing)
    <3>1. C!Closing \in PieceSet
      BY DEF PieceSet
    <3>2. Append(file, C!Closing) \in Seq(PieceSet)
      BY <1>1, <3>1
    <3> QED BY <3>2
  <2>3. file \o ccBuf = all
    BY <1>1, <2>1, <2>2
  <2>4. C!IsPrefix(all, all)
    BY <2>2 DEF C!IsPrefix
  <2> QED BY <1>5, <2>1, <2>2, <2>3, <2>4 DEF C!EntriesWhole
<1>6. CASE main = "finished"
  BY <1>6 DEF EntriesInv, EntriesSoFar, C!EntriesWhole
<1> QED BY <1>1, <1>3, <1>4, <1>5, <1>6
-----------------------------------------------------------------------------
(* What threads print                                                        *)

ByteSet == Thread \X P!Ways \X Nat
SpanSet == [thread : Thread, way : P!Ways, first : Nat, last : Nat]

PrintTypeOK ==
  /\ pc \in [Thread -> {"idle", "printf", "lprintf", "emit", "unlock"}]
  /\ blocks \in [Thread -> Seq(Nat)]
  /\ flushBuf \in [Thread -> Seq(ByteSet)] /\ line \in [Thread -> Seq(ByteSet)]
  /\ out \in Seq(ByteSet)
  /\ printed \in [Thread -> [P!Ways -> Nat]]
  /\ begun \in [Thread -> Nat]
  /\ spans \subseteq SpanSet

(* The bytes of one thread and way: number of them are formatted, the last   *)
(* of these wait in a buffer and the others have arrived.                    *)
Fits(o, t, way, buffer, number) ==
  /\ number - Len(buffer) \in Nat
  /\ buffer = P!Bytes(t, way, number - Len(buffer), Len(buffer))
  /\ P!Arrived(o, t, way, number - Len(buffer))
  /\ P!NoOthers(o, t, way, number - Len(buffer))

(* What a thread collected for zmm_lemit and has not handed over.            *)
Collected(t) == IF pc[t] = "unlock" THEN <<>> ELSE line[t]

(* Every byte has arrived or waits.                                          *)
Held ==
  /\ \A t \in Thread :
       /\ Fits(out, t, "now", flushBuf[t], printed[t].now)
       /\ Fits(out, t, "line", Collected(t), printed[t].line)
  /\ P!InOrder(out)

(* zmm_printf leaves its buffer empty and zmm_lemit begins with something.   *)
BuffersMatch ==
  \A t \in Thread :
    /\ pc[t] # "printf" => flushBuf[t] = <<>>
    /\ pc[t] = "emit" => line[t] # <<>>

(* A zmm_printf that has sent a part already prints a whole buffer or more,  *)
(* the block it is about to write included.                                  *)
NextLen(t) == IF blocks[t] = <<>> THEN 0 ELSE Head(blocks[t])

SentOnlyWhenFull ==
  \A t \in Thread : pc[t] = "printf" =>
    /\ begun[t] <= printed[t].now
    /\ \/ Len(flushBuf[t]) = printed[t].now - begun[t]
       \/ printed[t].now - begun[t] + NextLen(t) >= FlushCap

(* The inductive invariant. *)
PrintInv ==
  PrintTypeOK /\ Held /\ BuffersMatch /\ SentOnlyWhenFull /\ P!KeptTogether

(* Bytes that are numbered one after another.                                *)
LEMMA BytesAre ==
  ASSUME NEW t \in Thread, NEW way \in P!Ways, NEW first \in Nat, NEW n \in Nat
  PROVE  /\ P!Bytes(t, way, first, n) \in Seq(ByteSet)
         /\ Len(P!Bytes(t, way, first, n)) = n
         /\ \A i \in 1 .. n : P!Bytes(t, way, first, n)[i] = <<t, way, first + i>>
<1>1. PICK b \in [1 .. n -> ByteSet] :
        /\ b = P!Bytes(t, way, first, n)
        /\ \A i \in 1 .. n : b[i] = <<t, way, first + i>>
  <2> DEFINE f == [i \in 1 .. n |-> <<t, way, first + i>>]
  <2>1. \A i \in 1 .. n : <<t, way, first + i>> \in ByteSet
    BY DEF ByteSet
  <2>2. f \in [1 .. n -> ByteSet]
    BY <2>1
  <2>3. \A i \in 1 .. n : f[i] = <<t, way, first + i>>
    OBVIOUS
  <2>4. f = P!Bytes(t, way, first, n)
    BY DEF P!Bytes
  <2> HIDE DEF f
  <2> QED BY <2>2, <2>3, <2>4
<1>2. b \in Seq(ByteSet)
  BY SeqDef
<1>3. Len(b) = n
  <2>1. DOMAIN b = 1 .. n
    OBVIOUS
  <2> QED BY <1>2, <2>1, LenProperties
<1> QED BY <1>1, <1>2, <1>3

(* Joined they are numbered on.                                              *)
LEMMA BytesJoin ==
  ASSUME NEW t \in Thread, NEW way \in P!Ways, NEW first \in Nat,
         NEW n \in Nat, NEW m \in Nat
  PROVE  P!Bytes(t, way, first, n) \o P!Bytes(t, way, first + n, m)
           = P!Bytes(t, way, first, n + m)
<1>1. PICK a, b, c : /\ a = P!Bytes(t, way, first, n)
                     /\ b = P!Bytes(t, way, first + n, m)
                     /\ c = P!Bytes(t, way, first, n + m)
  OBVIOUS
<1>2. /\ a \in Seq(ByteSet) /\ Len(a) = n
      /\ \A i \in 1 .. n : a[i] = <<t, way, first + i>>
  BY <1>1, BytesAre
<1>3. /\ b \in Seq(ByteSet) /\ Len(b) = m
      /\ \A i \in 1 .. m : b[i] = <<t, way, first + n + i>>
  <2>1. first + n \in Nat
    OBVIOUS
  <2> QED BY <1>1, <2>1, BytesAre
<1>4. /\ c \in Seq(ByteSet) /\ Len(c) = n + m
      /\ \A i \in 1 .. n + m : c[i] = <<t, way, first + i>>
  <2>1. n + m \in Nat
    OBVIOUS
  <2> QED BY <1>1, <2>1, BytesAre
<1>5. /\ a \o b \in Seq(ByteSet) /\ Len(a \o b) = n + m
      /\ \A i \in 1 .. n : (a \o b)[i] = a[i]
      /\ \A i \in 1 .. m : (a \o b)[n + i] = b[i]
  <2>1. a \in Seq(ByteSet) /\ Len(a) = n
    BY <1>2
  <2>2. b \in Seq(ByteSet) /\ Len(b) = m
    BY <1>3
  <2> QED BY <2>1, <2>2
<1>6. ASSUME NEW i \in 1 .. n + m PROVE (a \o b)[i] = c[i]
  <2>1. CASE i \in 1 .. n
    BY <1>2, <1>4, <1>5, <2>1
  <2>2. CASE i \notin 1 .. n
    <3>1. PICK j \in 1 .. m : i = n + j
      <4>1. i - n \in 1 .. m /\ i = n + (i - n)
        BY <2>2
      <4> QED BY <4>1
    <3>2. first + n + j = first + i
      BY <3>1
    <3> QED BY <1>3, <1>4, <1>5, <3>1, <3>2
  <2> QED BY <2>1, <2>2
<1>7. a \o b = c
  BY <1>4, <1>5, <1>6, SeqEqual
<1> QED BY <1>1, <1>7

(* o2 is o with bytes of thread t after it: all its bytes up to number top    *)
(* have arrived, in order, and nothing of another thread is disturbed.       *)
GrownBy(o, o2, t, way, top) ==
  /\ o2 \in Seq(ByteSet)
  /\ P!Arrived(o2, t, way, top) /\ P!NoOthers(o2, t, way, top)
  /\ P!InOrder(o2)
  /\ \A u \in Thread, v \in P!Ways : \A m \in Nat :
       /\ P!Arrived(o, u, v, m) => P!Arrived(o2, u, v, m)
       /\ <<u, v>> # <<t, way>> /\ P!NoOthers(o, u, v, m) => P!NoOthers(o2, u, v, m)

(* What stdout receives when the next bytes of a thread are written.         *)
LEMMA OutGrows ==
  ASSUME NEW o \in Seq(ByteSet), NEW o2, NEW t \in Thread, NEW way \in P!Ways,
         NEW n \in Nat, NEW k \in Nat,
         P!Arrived(o, t, way, n), P!NoOthers(o, t, way, n), P!InOrder(o),
         o2 = o \o P!Bytes(t, way, n, k)
  PROVE  GrownBy(o, o2, t, way, n + k)
<1>1. PICK b : b = P!Bytes(t, way, n, k)
  OBVIOUS
<1>2. /\ b \in Seq(ByteSet) /\ Len(b) = k
      /\ \A i \in 1 .. k : b[i] = <<t, way, n + i>>
  <2> HIDE DEF ByteSet
  <2> QED BY <1>1, BytesAre
<1>3. /\ o2 \in Seq(ByteSet) /\ Len(o2) = Len(o) + k /\ Len(o) \in Nat
      /\ \A i \in 1 .. Len(o) : o2[i] = o[i]
      /\ \A i \in 1 .. k : o2[Len(o) + i] = b[i]
  <2>1. b \in Seq(ByteSet) /\ Len(b) = k
    BY <1>2
  <2>2. o2 = o \o b /\ Len(o) \in Nat
    BY <1>1
  <2>3. \A i \in 1 .. Len(o) : (o \o b)[i] = o[i]
    BY <2>1
  <2>4. \A i \in 1 .. k : (o \o b)[Len(o) + i] = b[i]
    BY <2>1
  <2> QED BY <2>1, <2>2, <2>3, <2>4, ConcatProperties
<1>4. \A i \in 1 .. k :
        /\ o2[Len(o) + i] = <<t, way, n + i>> /\ o2[Len(o) + i][1] = t
        /\ o2[Len(o) + i][2] = way /\ o2[Len(o) + i][3] = n + i
  <2> TAKE i \in 1 .. k
  <2>1. PICK x : x = o2[Len(o) + i]
    OBVIOUS
  <2>2. x = <<t, way, n + i>>
    BY <1>2, <1>3, <2>1
  <2>3. x[1] = t /\ x[2] = way /\ x[3] = n + i
    BY <2>2
  <2> QED BY <2>1, <2>2, <2>3
<1>5. ASSUME NEW i \in 1 .. Len(o2), i \notin 1 .. Len(o)
      PROVE  \E j \in 1 .. k : i = Len(o) + j
  <2>1. i - Len(o) \in 1 .. k /\ i = Len(o) + (i - Len(o))
    BY <1>3, <1>5
  <2> QED BY <2>1
<1>6. \A i \in 1 .. Len(o) : i \in 1 .. Len(o2)
  BY <1>3
<1>7. \A i \in 1 .. k : Len(o) + i \in 1 .. Len(o2)
  BY <1>3
<1>8. ASSUME NEW u \in Thread, NEW v \in P!Ways, NEW m \in Nat, P!Arrived(o, u, v, m)
      PROVE  P!Arrived(o2, u, v, m)
  BY <1>3, <1>6, <1>8 DEF P!Arrived
<1>9. P!Arrived(o2, t, way, n + k)
  <2> SUFFICES ASSUME NEW m \in 1 .. n + k
               PROVE  \E i \in 1 .. Len(o2) : o2[i] = <<t, way, m>>
    BY DEF P!Arrived
  <2>1. CASE m \in 1 .. n
    BY <1>3, <1>6, <2>1 DEF P!Arrived
  <2>2. CASE m \notin 1 .. n
    <3>1. PICK j \in 1 .. k : m = n + j
      <4>1. m - n \in 1 .. k /\ m = n + (m - n)
        BY <2>2
      <4> QED BY <4>1
    <3> QED BY <1>4, <1>7, <3>1
  <2> QED BY <2>1, <2>2
<1>10. P!NoOthers(o2, t, way, n + k)
  <2> SUFFICES ASSUME NEW i \in 1 .. Len(o2), o2[i][1] = t, o2[i][2] = way
               PROVE  o2[i][3] \in 1 .. n + k
    BY DEF P!NoOthers
  <2>1. CASE i \in 1 .. Len(o)
    <3>1. o2[i][3] \in 1 .. n
      BY <1>3, <2>1 DEF P!NoOthers
    <3> QED BY <3>1
  <2>2. CASE i \notin 1 .. Len(o)
    <3>1. PICK j \in 1 .. k : i = Len(o) + j
      BY <1>5, <2>2
    <3>2. o2[i][3] = n + j
      BY <1>4, <3>1
    <3> QED BY <3>2
  <2> QED BY <2>1, <2>2
<1>11. ASSUME NEW u \in Thread, NEW v \in P!Ways, NEW m \in Nat,
              <<u, v>> # <<t, way>>, P!NoOthers(o, u, v, m)
       PROVE  P!NoOthers(o2, u, v, m)
  <2> SUFFICES ASSUME NEW i \in 1 .. Len(o2), o2[i][1] = u, o2[i][2] = v
               PROVE  o2[i][3] \in 1 .. m
    BY DEF P!NoOthers
  <2>1. i \in 1 .. Len(o)
    BY <1>4, <1>5, <1>11
  <2> QED BY <1>3, <1>11, <2>1 DEF P!NoOthers
<1>12. P!InOrder(o2)
  <2> SUFFICES ASSUME NEW j \in 1 .. Len(o2), NEW i \in 1 .. j - 1,
                      o2[i][1] = o2[j][1], o2[i][2] = o2[j][2]
               PROVE  o2[i][3] < o2[j][3]
    BY DEF P!InOrder
  <2>1. i \in 1 .. Len(o2) /\ i < j
    BY <1>3
  <2>2. CASE j \in 1 .. Len(o)
    <3>1. i \in 1 .. Len(o)
      BY <2>1, <2>2, <1>3
    <3> QED BY <1>3, <2>2, <3>1 DEF P!InOrder
  <2>3. CASE j \notin 1 .. Len(o) /\ i \in 1 .. Len(o)
    <3>1. PICK b2 \in 1 .. k : j = Len(o) + b2
      BY <1>5, <2>3
    <3>2. o2[i][3] \in 1 .. n
      <4>1. o2[i] = o[i] /\ o2[j][1] = t /\ o2[j][2] = way
        BY <1>3, <1>4, <2>3, <3>1
      <4> QED BY <2>3, <4>1 DEF P!NoOthers
    <3>3. o2[j][3] = n + b2
      BY <1>4, <3>1
    <3>4. \A x \in 1 .. n, y \in 1 .. k : x < n + y
      OBVIOUS
    <3> QED BY <3>2, <3>3, <3>4
  <2>4. CASE j \notin 1 .. Len(o) /\ i \notin 1 .. Len(o)
    <3>1. PICK b2 \in 1 .. k : j = Len(o) + b2
      BY <1>5, <2>4
    <3>2. PICK b1 \in 1 .. k : i = Len(o) + b1
      BY <1>5, <2>1, <2>4
    <3>3. b1 < b2
      BY <1>3, <2>1, <3>1, <3>2
    <3>4. o2[i][3] = n + b1 /\ o2[j][3] = n + b2
      BY <1>4, <3>1, <3>2
    <3> QED BY <3>3, <3>4
  <2> QED BY <2>2, <2>3, <2>4
<1> QED BY <1>3, <1>8, <1>9, <1>10, <1>11, <1>12 DEF GrownBy

(* A buffer to which the next block is added.                                *)
LEMMA BufferGrows ==
  ASSUME NEW o, NEW t \in Thread, NEW way \in P!Ways, NEW w \in Seq(ByteSet),
         NEW p \in Nat, NEW k \in Nat, Fits(o, t, way, w, p)
  PROVE  LET longer == w \o P!Bytes(t, way, p, k) IN
         /\ longer \in Seq(ByteSet) /\ Len(longer) = Len(w) + k
         /\ Fits(o, t, way, longer, p + k)
<1>1. PICK n \in Nat, m \in Nat : n = p - Len(w) /\ m = Len(w) /\ p = n + m
  <2>1. Len(w) \in Nat /\ p - Len(w) \in Nat
    BY DEF Fits
  <2>2. p = (p - Len(w)) + Len(w)
    BY <2>1
  <2> QED BY <2>1, <2>2
<1>2. PICK b \in Seq(ByteSet) : b = P!Bytes(t, way, p, k) /\ Len(b) = k
  <2>1. P!Bytes(t, way, p, k) \in Seq(ByteSet) /\ Len(P!Bytes(t, way, p, k)) = k
    BY BytesAre
  <2> QED BY <2>1
<1>3. w = P!Bytes(t, way, n, m)
  BY <1>1 DEF Fits
<1>4. w \o b = P!Bytes(t, way, n, m + k)
  <2>1. b = P!Bytes(t, way, n + m, k)
    BY <1>1, <1>2
  <2>2. P!Bytes(t, way, n, m) \o P!Bytes(t, way, n + m, k) = P!Bytes(t, way, n, m + k)
    BY BytesJoin
  <2> QED BY <1>3, <2>1, <2>2
<1>5. w \o b \in Seq(ByteSet) /\ Len(w \o b) = m + k
  BY <1>1, <1>2
<1>6. p + k - Len(w \o b) = n
  BY <1>1, <1>5
<1>7. P!Arrived(o, t, way, n) /\ P!NoOthers(o, t, way, n)
  BY <1>1 DEF Fits
<1>8. Fits(o, t, way, w \o b, p + k)
  <2>1. PICK longer, number, len :
          longer = w \o b /\ number = p + k /\ len = m + k
    OBVIOUS
  <2>2. Len(longer) = len /\ number - len = n
    BY <1>5, <1>6, <2>1
  <2>3. longer = P!Bytes(t, way, n, len)
    BY <1>4, <2>1
  <2>4. Fits(o, t, way, longer, number)
    BY <1>7, <2>2, <2>3 DEF Fits
  <2> QED BY <2>1, <2>4
<1> QED BY <1>1, <1>2, <1>5, <1>8

(* Bytes that are written: they have arrived, nothing else is disturbed, and *)
(* they stand together.                                                      *)
LEMMA Sends ==
  ASSUME PrintTypeOK, P!InOrder(out), NEW t \in Thread, NEW way \in P!Ways,
         NEW n \in Nat, NEW k \in Nat,
         P!Arrived(out, t, way, n), P!NoOthers(out, t, way, n),
         out' = out \o P!Bytes(t, way, n, k)
  PROVE  /\ out' \in Seq(ByteSet) /\ P!InOrder(out')
         /\ P!Arrived(out', t, way, n + k) /\ P!NoOthers(out', t, way, n + k)
         /\ \A u \in Thread, v \in P!Ways : <<u, v>> # <<t, way>> =>
              \A w, p : Fits(out, u, v, w, p) => Fits(out', u, v, w, p)
         /\ \A s \in SpanSet : P!Adjacent(s) => P!Adjacent(s)'
         /\ \A s \in SpanSet :
              /\ s.thread = t /\ s.way = way /\ s.first = n /\ s.last = n + k
              => P!Adjacent(s)'
<1>1. PICK o \in Seq(ByteSet) : o = out
  BY DEF PrintTypeOK
<1>2. PICK o2 : o2 = out'
  OBVIOUS
<1>3. PICK b \in Seq(ByteSet) :
        /\ b = P!Bytes(t, way, n, k) /\ Len(b) = k
        /\ \A i \in 1 .. k : b[i] = <<t, way, n + i>>
  BY BytesAre
<1>4. GrownBy(o, o2, t, way, n + k)
  <2>1. P!Arrived(o, t, way, n) /\ P!NoOthers(o, t, way, n) /\ P!InOrder(o)
    BY <1>1
  <2>2. o2 = o \o P!Bytes(t, way, n, k)
    BY <1>1, <1>2
  <2> QED BY <2>1, <2>2, OutGrows
<1>5. ASSUME NEW u \in Thread, NEW v \in P!Ways, <<u, v>> # <<t, way>>,
             NEW w, NEW p, Fits(out, u, v, w, p)
      PROVE  Fits(out', u, v, w, p)
  BY <1>1, <1>2, <1>4, <1>5 DEF Fits, GrownBy
<1>6. /\ Len(o2) = Len(o) + k /\ Len(o) \in Nat
      /\ \A i \in 1 .. Len(o) : o2[i] = o[i]
      /\ \A i \in 1 .. k : o2[Len(o) + i] = b[i]
  <2>1. o2 = o \o b
    BY <1>1, <1>2, <1>3
  <2>2. b \in Seq(ByteSet) /\ Len(b) = k
    BY <1>3
  <2>3. \A i \in 1 .. Len(o) : (o \o b)[i] = o[i]
    BY <2>2
  <2>4. \A i \in 1 .. k : (o \o b)[Len(o) + i] = b[i]
    BY <2>2
  <2>5. Len(o \o b) = Len(o) + k /\ Len(o) \in Nat
    BY <2>2
  <2> QED BY <2>1, <2>3, <2>4, <2>5
<1>7. ASSUME NEW s \in SpanSet, P!Adjacent(s) PROVE P!Adjacent(s)'
  <2>1. PICK first \in Nat, last \in Nat : first = s.first /\ last = s.last
    BY DEF SpanSet
  <2>2. PICK i \in 0 .. Len(o) :
          \A j \in 1 .. last - first :
            i + j <= Len(o) /\ o[i + j] = <<s.thread, s.way, first + j>>
    BY <1>1, <1>7, <2>1 DEF P!Adjacent
  <2>3. i \in 0 .. Len(o2)
    BY <1>6
  <2>4. ASSUME NEW j \in 1 .. last - first
        PROVE  i + j <= Len(o2) /\ o2[i + j] = <<s.thread, s.way, first + j>>
    <3>1. i + j \in 1 .. Len(o) /\ i + j <= Len(o2)
      <4>1. Len(o) \in Nat /\ Len(o2) = Len(o) + k
        BY <1>6
      <4>2. i + j <= Len(o)
        BY <2>2
      <4> QED BY <2>1, <4>1, <4>2
    <3> QED BY <1>6, <2>2, <3>1
  <2> QED BY <1>2, <2>1, <2>3, <2>4 DEF P!Adjacent
<1>8. ASSUME NEW s \in SpanSet, s.thread = t, s.way = way, s.first = n, s.last = n + k
      PROVE  P!Adjacent(s)'
  <2>1. Len(o) \in 0 .. Len(o2) /\ n + k - n = k
    BY <1>6
  <2>2. ASSUME NEW j \in 1 .. k
        PROVE  Len(o) + j <= Len(o2) /\ o2[Len(o) + j] = <<t, way, n + j>>
    <3>1. Len(o) + j <= Len(o2)
      <4>1. Len(o) \in Nat /\ Len(o2) = Len(o) + k
        BY <1>6
      <4> QED BY <4>1
    <3>2. o2[Len(o) + j] = b[j] /\ b[j] = <<t, way, n + j>>
      BY <1>3, <1>6
    <3> QED BY <3>1, <3>2
  <2>3. s.last - s.first = k
    BY <1>8
  <2> QED BY <1>2, <1>8, <2>1, <2>2, <2>3 DEF P!Adjacent
<1> QED BY <1>2, <1>4, <1>5, <1>7, <1>8 DEF GrownBy

(* The numbers of what waits in a buffer.                                    *)
LEMMA WhatWaits ==
  ASSUME NEW o, NEW t \in Thread, NEW way \in P!Ways, NEW w \in Seq(ByteSet),
         NEW p \in Nat, Fits(o, t, way, w, p)
  PROVE  \E n \in Nat, k \in Nat :
           /\ k = Len(w) /\ n = p - k /\ p = n + k
           /\ w = P!Bytes(t, way, n, k)
           /\ P!Arrived(o, t, way, n) /\ P!NoOthers(o, t, way, n)
<1>1. PICK k \in Nat : k = Len(w)
  OBVIOUS
<1>2. PICK n \in Nat : n = p - k
  BY <1>1 DEF Fits
<1>3. p = n + k
  BY <1>2
<1>4. /\ w = P!Bytes(t, way, n, k)
      /\ P!Arrived(o, t, way, n) /\ P!NoOthers(o, t, way, n)
  BY <1>1, <1>2 DEF Fits
<1> QED BY <1>1, <1>2, <1>3, <1>4

(* With an empty buffer everything has arrived.                              *)
LEMMA NothingWaits ==
  ASSUME NEW o, NEW t \in Thread, NEW way \in P!Ways, NEW p \in Nat
  PROVE  Fits(o, t, way, <<>>, p) <=>
           P!Arrived(o, t, way, p) /\ P!NoOthers(o, t, way, p)
<1>1. Len(<<>>) = 0 /\ p - 0 = p
  OBVIOUS
<1>2. P!Bytes(t, way, p, 0) = <<>>
  <2>1. PICK b \in Seq(ByteSet) : b = P!Bytes(t, way, p, 0) /\ Len(b) = 0
    BY BytesAre
  <2> QED BY <2>1, EmptySeq
<1> QED BY <1>1, <1>2 DEF Fits

(* A buffer that is handed to stdout whole.                                  *)
LEMMA BufferSent ==
  ASSUME PrintTypeOK, P!InOrder(out), NEW t \in Thread, NEW way \in P!Ways,
         NEW w \in Seq(ByteSet), NEW p \in Nat, Fits(out, t, way, w, p),
         out' = out \o w
  PROVE  /\ out' \in Seq(ByteSet) /\ P!InOrder(out')
         /\ Fits(out', t, way, <<>>, p)
         /\ \A u \in Thread, v \in P!Ways : <<u, v>> # <<t, way>> =>
              \A b, m : Fits(out, u, v, b, m) => Fits(out', u, v, b, m)
         /\ \A s \in SpanSet : P!Adjacent(s) => P!Adjacent(s)'
         /\ \A s \in SpanSet :
              /\ s.thread = t /\ s.way = way /\ s.first = p - Len(w) /\ s.last = p
              => P!Adjacent(s)'
<1>1. PICK n \in Nat, k \in Nat :
        /\ k = Len(w) /\ n = p - k /\ p = n + k
        /\ w = P!Bytes(t, way, n, k)
        /\ P!Arrived(out, t, way, n) /\ P!NoOthers(out, t, way, n)
  BY WhatWaits
<1>2. out' = out \o P!Bytes(t, way, n, k)
  BY <1>1
<1>3. /\ out' \in Seq(ByteSet) /\ P!InOrder(out')
      /\ P!Arrived(out', t, way, n + k) /\ P!NoOthers(out', t, way, n + k)
      /\ \A u \in Thread, v \in P!Ways : <<u, v>> # <<t, way>> =>
           \A b, m : Fits(out, u, v, b, m) => Fits(out', u, v, b, m)
      /\ \A s \in SpanSet : P!Adjacent(s) => P!Adjacent(s)'
      /\ \A s \in SpanSet :
           /\ s.thread = t /\ s.way = way /\ s.first = n /\ s.last = n + k
           => P!Adjacent(s)'
  BY <1>1, <1>2, Sends
<1>4. Fits(out', t, way, <<>>, p)
  BY <1>1, <1>3, NothingWaits
<1> QED BY <1>1, <1>3, <1>4

(* What a step does to one thread's bytes of one way leaves the others' as   *)
(* they are.                                                                 *)
LEMMA HeldAfter ==
  ASSUME PrintTypeOK, Held, NEW t \in Thread, NEW way \in P!Ways,
         P!InOrder(out'),
         \A u \in Thread, v \in P!Ways : <<u, v>> # <<t, way>> =>
           \A b, m : Fits(out, u, v, b, m) => Fits(out', u, v, b, m),
         \A u \in Thread : <<u, "now">> # <<t, way>> =>
           flushBuf'[u] = flushBuf[u] /\ printed'[u].now = printed[u].now,
         \A u \in Thread : <<u, "line">> # <<t, way>> =>
           Collected(u)' = Collected(u) /\ printed'[u].line = printed[u].line,
         way = "now" => Fits(out', t, "now", flushBuf'[t], printed'[t].now),
         way = "line" => Fits(out', t, "line", Collected(t)', printed'[t].line)
  PROVE  Held'
<1>1. "now" \in P!Ways /\ "line" \in P!Ways
  BY DEF P!Ways
<1>2. ASSUME NEW u \in Thread
      PROVE  Fits(out', u, "now", flushBuf'[u], printed'[u].now)
  <2>1. CASE <<u, "now">> = <<t, way>>
    BY <2>1
  <2>2. CASE <<u, "now">> # <<t, way>>
    BY <1>1, <2>2 DEF Held
  <2> QED BY <2>1, <2>2
<1>3. ASSUME NEW u \in Thread
      PROVE  Fits(out', u, "line", Collected(u)', printed'[u].line)
  <2>1. CASE <<u, "line">> = <<t, way>>
    BY <2>1
  <2>2. CASE <<u, "line">> # <<t, way>>
    BY <1>1, <2>2 DEF Held
  <2> QED BY <2>1, <2>2
<1> QED BY <1>2, <1>3 DEF Held

(* A step that moves no byte.                                                *)
LEMMA HeldStill ==
  ASSUME Held, UNCHANGED <<out, flushBuf, printed>>,
         \A u \in Thread : Collected(u)' = Collected(u)
  PROVE  Held'
BY DEF Held

(* What was printed together stays together.                                 *)
LEMMA SpansKeep ==
  ASSUME PrintTypeOK, P!KeptTogether, spans' = spans,
         \A s \in SpanSet : P!Adjacent(s) => P!Adjacent(s)'
  PROVE  P!KeptTogether'
BY DEF P!KeptTogether, PrintTypeOK

(* A span that joins.                                                        *)
LEMMA SpanJoins ==
  ASSUME PrintTypeOK, P!KeptTogether, NEW new \in SpanSet, spans' = spans \cup {new},
         \A s \in SpanSet : P!Adjacent(s) => P!Adjacent(s)',
         new.way = "line" \/ new.last - new.first < FlushCap => P!Adjacent(new)'
  PROVE  P!KeptTogether'
BY DEF P!KeptTogether, PrintTypeOK

(* stdout and the spans stay as they are.                                    *)
LEMMA SpansStill ==
  ASSUME P!KeptTogether, UNCHANGED <<out, spans>>
  PROVE  P!KeptTogether'
BY DEF P!KeptTogether, P!Adjacent

(* The record of what is printed together.                                   *)
LEMMA SpanIs ==
  ASSUME NEW t \in Thread, NEW way \in P!Ways, NEW first \in Nat, NEW last \in Nat
  PROVE  LET s == P!Span(t, way, first, last) IN
         /\ s \in SpanSet
         /\ s.thread = t /\ s.way = way /\ s.first = first /\ s.last = last
BY DEF P!Span, SpanSet

(* The steps of zmm_printf and zmm_lprintf, one lemma for each action.       *)
LEMMA FlushFullKeeps ==
  ASSUME PrintInv, NEW t \in Thread, P!FlushFull(t)
  PROVE  PrintInv'
<1>1. /\ pc[t] = "printf" /\ blocks[t] # <<>>
      /\ Len(flushBuf[t]) + Head(blocks[t]) >= FlushCap
      /\ out' = out \o flushBuf[t]
      /\ flushBuf' = [flushBuf EXCEPT ![t] = <<>>]
      /\ UNCHANGED <<pc, blocks, line, begun, printed, spans>>
  BY DEF P!FlushFull, P!Writing, P!Overflows
<1>2. /\ "now" \in P!Ways /\ flushBuf[t] \in Seq(ByteSet) /\ printed[t].now \in Nat
      /\ Fits(out, t, "now", flushBuf[t], printed[t].now)
      /\ PrintTypeOK /\ Held /\ P!InOrder(out)
  BY DEF PrintInv, PrintTypeOK, Held, P!Ways
<1>3. /\ out' \in Seq(ByteSet) /\ P!InOrder(out')
      /\ Fits(out', t, "now", <<>>, printed[t].now)
      /\ \A u \in Thread, v \in P!Ways : <<u, v>> # <<t, "now">> =>
           \A b, m : Fits(out, u, v, b, m) => Fits(out', u, v, b, m)
      /\ \A s \in SpanSet : P!Adjacent(s) => P!Adjacent(s)'
  BY <1>1, <1>2, BufferSent
<1>4. /\ flushBuf' \in [Thread -> Seq(ByteSet)] /\ flushBuf'[t] = <<>>
      /\ \A u \in Thread : u # t => flushBuf'[u] = flushBuf[u]
  BY <1>1, <1>2 DEF PrintTypeOK
<1>5. Held'
  <2>1. \A u \in Thread : Collected(u)' = Collected(u)
    BY <1>1 DEF Collected
  <2> QED BY <1>1, <1>2, <1>3, <1>4, <2>1, HeldAfter
<1>6. PrintTypeOK'
  BY <1>1, <1>2, <1>3, <1>4 DEF PrintTypeOK
<1>7. BuffersMatch'
  BY <1>1, <1>4 DEF PrintInv, BuffersMatch
<1>8. SentOnlyWhenFull'
  <2> SUFFICES ASSUME NEW u \in Thread, pc[u] = "printf"
               PROVE  /\ begun[u] <= printed[u].now
                      /\ \/ Len(flushBuf'[u]) = printed[u].now - begun[u]
                         \/ printed[u].now - begun[u] + NextLen(u) >= FlushCap
    BY <1>1 DEF SentOnlyWhenFull, NextLen
  <2>1. CASE u = t
    <3>1. NextLen(t) = Head(blocks[t])
      BY <1>1 DEF NextLen
    <3>2. begun[t] <= printed[t].now
      BY <1>1 DEF PrintInv, SentOnlyWhenFull
    <3>3. \/ Len(flushBuf[t]) = printed[t].now - begun[t]
          \/ printed[t].now - begun[t] + NextLen(t) >= FlushCap
      BY <1>1 DEF PrintInv, SentOnlyWhenFull
    <3>4. printed[t].now - begun[t] + NextLen(t) >= FlushCap
      BY <1>1, <3>1, <3>3
    <3> QED BY <2>1, <3>2, <3>4
  <2>2. CASE u # t
    BY <1>4, <2>2 DEF PrintInv, SentOnlyWhenFull
  <2> QED BY <2>1, <2>2
<1>9. P!KeptTogether'
  BY <1>1, <1>2, <1>3, SpansKeep DEF PrintInv
<1> QED BY <1>5, <1>6, <1>7, <1>8, <1>9 DEF PrintInv

(* What zmm_write_block has written when the block is done.                  *)
LEMMA BlockIsDone ==
  ASSUME PrintTypeOK, NEW t \in Thread, NEW way \in P!Ways, blocks[t] # <<>>,
         P!BlockDone(t, way)
  PROVE  /\ blocks' \in [Thread -> Seq(Nat)]
         /\ printed' \in [Thread -> [P!Ways -> Nat]]
         /\ Head(blocks[t]) \in Nat
         /\ printed'[t][way] = printed[t][way] + Head(blocks[t])
         /\ \A u \in Thread, v \in P!Ways : <<u, v>> # <<t, way>> =>
              printed'[u][v] = printed[u][v]
         /\ \A u \in Thread : u # t => blocks'[u] = blocks[u]
<1>1. blocks \in [Thread -> Seq(Nat)] /\ printed \in [Thread -> [P!Ways -> Nat]]
  BY DEF PrintTypeOK
<1>2. /\ blocks' = [blocks EXCEPT ![t] = Tail(@)]
      /\ printed' = [printed EXCEPT ![t][way] = @ + Head(blocks[t])]
  BY DEF P!BlockDone
<1>3. Head(blocks[t]) \in Nat /\ Tail(blocks[t]) \in Seq(Nat)
  BY <1>1, HeadTailProperties
<1>4. PICK h \in Nat : h = Head(blocks[t])
  BY <1>3
<1>5. printed' = [printed EXCEPT ![t] = [printed[t] EXCEPT ![way] = @ + h]]
  BY <1>2, <1>4
<1>6. printed[t] \in [P!Ways -> Nat] /\ printed[t][way] + h \in Nat
  BY <1>1
<1>7. [printed[t] EXCEPT ![way] = @ + h] \in [P!Ways -> Nat]
  BY <1>6
<1>8. printed' \in [Thread -> [P!Ways -> Nat]]
  BY <1>1, <1>5, <1>7
<1>9. printed'[t] = [printed[t] EXCEPT ![way] = @ + h]
  BY <1>1, <1>5
<1>10. /\ printed'[t][way] = printed[t][way] + h
       /\ \A v \in P!Ways : v # way => printed'[t][v] = printed[t][v]
  BY <1>6, <1>9
<1>11. \A u \in Thread : u # t => printed'[u] = printed[u]
  BY <1>1, <1>5
<1>12. /\ blocks' \in [Thread -> Seq(Nat)]
       /\ \A u \in Thread : u # t => blocks'[u] = blocks[u]
  BY <1>1, <1>2, <1>3
<1> QED BY <1>3, <1>4, <1>8, <1>10, <1>11, <1>12

LEMMA WriteLargeKeeps ==
  ASSUME PrintInv, NEW t \in Thread, P!WriteLarge(t)
  PROVE  PrintInv'
<1>1. /\ pc[t] = "printf" /\ blocks[t] # <<>> /\ flushBuf[t] = <<>>
      /\ Head(blocks[t]) >= FlushCap
      /\ out' = out \o P!Bytes(t, "now", printed[t].now, Head(blocks[t]))
      /\ P!BlockDone(t, "now")
      /\ UNCHANGED <<pc, flushBuf, line, begun, spans>>
  BY DEF P!WriteLarge, P!Writing, P!Block
<1>2. /\ "now" \in P!Ways /\ "line" \in P!Ways /\ printed[t].now \in Nat
      /\ Fits(out, t, "now", <<>>, printed[t].now)
      /\ PrintTypeOK /\ Held /\ P!InOrder(out)
  BY <1>1 DEF PrintInv, PrintTypeOK, Held, P!Ways
<1>3. PICK n \in Nat, h \in Nat :
        /\ n = printed[t].now /\ h = Head(blocks[t])
        /\ n + h = printed'[t].now
  BY <1>1, <1>2, BlockIsDone
<1>4. /\ blocks' \in [Thread -> Seq(Nat)]
      /\ printed' \in [Thread -> [P!Ways -> Nat]]
      /\ \A u \in Thread, v \in P!Ways : <<u, v>> # <<t, "now">> =>
           printed'[u][v] = printed[u][v]
      /\ \A u \in Thread : u # t => blocks'[u] = blocks[u]
  BY <1>1, <1>2, BlockIsDone
<1>5. P!Arrived(out, t, "now", n) /\ P!NoOthers(out, t, "now", n)
  BY <1>2, <1>3, NothingWaits
<1>6. out' = out \o P!Bytes(t, "now", n, h)
  BY <1>1, <1>3
<1>7. /\ out' \in Seq(ByteSet) /\ P!InOrder(out')
      /\ P!Arrived(out', t, "now", n + h) /\ P!NoOthers(out', t, "now", n + h)
      /\ \A u \in Thread, v \in P!Ways : <<u, v>> # <<t, "now">> =>
           \A b, m : Fits(out, u, v, b, m) => Fits(out', u, v, b, m)
      /\ \A s \in SpanSet : P!Adjacent(s) => P!Adjacent(s)'
  BY <1>2, <1>5, <1>6, Sends
<1>8. Held'
  <2>1. PICK q \in Nat : q = n + h
    OBVIOUS
  <2>2. Fits(out', t, "now", <<>>, q)
    BY <1>2, <1>7, <2>1, NothingWaits
  <2>3. Fits(out', t, "now", flushBuf'[t], printed'[t].now)
    BY <1>1, <1>3, <2>1, <2>2
  <2>4. \A u \in Thread : Collected(u)' = Collected(u)
    BY <1>1 DEF Collected
  <2>5. \A u \in Thread : <<u, "line">> # <<t, "now">>
    OBVIOUS
  <2>6. \A u \in Thread : printed'[u].line = printed[u].line
    BY <1>2, <1>4, <2>5
  <2>7. \A u \in Thread : <<u, "now">> # <<t, "now">> => printed'[u].now = printed[u].now
    BY <1>2, <1>4
  <2> QED BY <1>1, <1>2, <1>7, <2>3, <2>4, <2>6, <2>7, HeldAfter
<1>9. PrintTypeOK'
  BY <1>1, <1>2, <1>4, <1>7 DEF PrintTypeOK
<1>10. BuffersMatch'
  BY <1>1 DEF PrintInv, BuffersMatch
<1>11. SentOnlyWhenFull'
  <2> SUFFICES ASSUME NEW u \in Thread, pc[u] = "printf"
               PROVE  /\ begun[u] <= printed'[u].now
                      /\ \/ Len(flushBuf[u]) = printed'[u].now - begun[u]
                         \/ printed'[u].now - begun[u] + NextLen(u)' >= FlushCap
    BY <1>1 DEF SentOnlyWhenFull
  <2>1. CASE u = t
    <3>1. PICK b \in Nat : b = begun[t] /\ b <= n
      BY <1>1, <1>2, <1>3 DEF PrintInv, SentOnlyWhenFull, PrintTypeOK
    <3>2. PICK next \in Nat : next = NextLen(t)'
      BY <1>4, HeadTailProperties DEF NextLen
    <3>3. FlushCap \in Nat /\ h >= FlushCap
      BY <1>1, <1>3, PrinterAssumption
    <3>4. n + h - b + next >= FlushCap /\ b <= n + h
      BY <3>1, <3>3
    <3>5. begun[u] = b /\ printed'[u].now = n + h /\ NextLen(u)' = next
      BY <1>3, <2>1, <3>1, <3>2
    <3> QED BY <3>4, <3>5
  <2>2. CASE u # t
    <3>1. printed'[u].now = printed[u].now /\ NextLen(u)' = NextLen(u)
      BY <1>2, <1>4, <2>2 DEF NextLen
    <3> QED BY <3>1 DEF PrintInv, SentOnlyWhenFull
  <2> QED BY <2>1, <2>2
<1>12. P!KeptTogether'
  BY <1>1, <1>2, <1>7, SpansKeep DEF PrintInv
<1> QED BY <1>8, <1>9, <1>10, <1>11, <1>12 DEF PrintInv

LEMMA WriteSmallKeeps ==
  ASSUME PrintInv, NEW t \in Thread, P!WriteSmall(t)
  PROVE  PrintInv'
<1>1. /\ pc[t] = "printf" /\ blocks[t] # <<>>
      /\ flushBuf' = [flushBuf EXCEPT
                        ![t] = @ \o P!Bytes(t, "now", printed[t].now, Head(blocks[t]))]
      /\ P!BlockDone(t, "now")
      /\ UNCHANGED <<pc, line, begun, out, spans>>
  BY DEF P!WriteSmall, P!Writing, P!Block
<1>2. /\ "now" \in P!Ways /\ "line" \in P!Ways /\ printed[t].now \in Nat
      /\ flushBuf[t] \in Seq(ByteSet)
      /\ Fits(out, t, "now", flushBuf[t], printed[t].now)
      /\ PrintTypeOK /\ Held /\ P!InOrder(out)
  BY <1>1 DEF PrintInv, PrintTypeOK, Held, P!Ways
<1>3. PICK n \in Nat, h \in Nat :
        /\ n = printed[t].now /\ h = Head(blocks[t])
        /\ n + h = printed'[t].now
  BY <1>1, <1>2, BlockIsDone
<1>4. /\ blocks' \in [Thread -> Seq(Nat)]
      /\ printed' \in [Thread -> [P!Ways -> Nat]]
      /\ \A u \in Thread, v \in P!Ways : <<u, v>> # <<t, "now">> =>
           printed'[u][v] = printed[u][v]
      /\ \A u \in Thread : u # t => blocks'[u] = blocks[u]
  BY <1>1, <1>2, BlockIsDone
<1>5. PICK more \in Seq(ByteSet) :
        /\ more = flushBuf[t] \o P!Bytes(t, "now", n, h)
        /\ Len(more) = Len(flushBuf[t]) + h
        /\ Fits(out, t, "now", more, n + h)
  BY <1>2, <1>3, BufferGrows
<1>6. /\ flushBuf' \in [Thread -> Seq(ByteSet)] /\ flushBuf'[t] = more
      /\ \A u \in Thread : u # t => flushBuf'[u] = flushBuf[u]
  BY <1>1, <1>2, <1>3, <1>5 DEF PrintTypeOK
<1>7. Held'
  <2>1. Fits(out', t, "now", flushBuf'[t], printed'[t].now)
    BY <1>1, <1>3, <1>5, <1>6
  <2>2. \A u \in Thread : Collected(u)' = Collected(u)
    BY <1>1 DEF Collected
  <2>3. \A u \in Thread : <<u, "line">> # <<t, "now">>
    OBVIOUS
  <2>4. \A u \in Thread : printed'[u].line = printed[u].line
    BY <1>2, <1>4, <2>3
  <2>5. \A u \in Thread : <<u, "now">> # <<t, "now">> =>
          flushBuf'[u] = flushBuf[u] /\ printed'[u].now = printed[u].now
    BY <1>2, <1>4, <1>6
  <2> QED BY <1>1, <1>2, <2>1, <2>2, <2>4, <2>5, HeldAfter
<1>8. PrintTypeOK'
  BY <1>1, <1>2, <1>4, <1>6 DEF PrintTypeOK
<1>9. BuffersMatch'
  BY <1>1, <1>6 DEF PrintInv, BuffersMatch
<1>10. SentOnlyWhenFull'
  <2> SUFFICES ASSUME NEW u \in Thread, pc[u] = "printf"
               PROVE  /\ begun[u] <= printed'[u].now
                      /\ \/ Len(flushBuf'[u]) = printed'[u].now - begun[u]
                         \/ printed'[u].now - begun[u] + NextLen(u)' >= FlushCap
    BY <1>1 DEF SentOnlyWhenFull
  <2>1. CASE u = t
    <3>1. PICK f \in Nat, b \in Nat :
            /\ f = Len(flushBuf[t]) /\ b = begun[t] /\ b <= n
            /\ f = n - b \/ n - b + h >= FlushCap
      <4>1. Len(flushBuf[t]) \in Nat /\ begun[t] \in Nat
        BY DEF PrintInv, PrintTypeOK
      <4>2. /\ begun[t] <= n
            /\ Len(flushBuf[t]) = n - begun[t] \/ n - begun[t] + h >= FlushCap
        BY <1>1, <1>2, <1>3 DEF PrintInv, SentOnlyWhenFull, NextLen
      <4> QED BY <4>1, <4>2
    <3>2. PICK next \in Nat : next = NextLen(t)'
      BY <1>4, HeadTailProperties DEF NextLen
    <3>3. FlushCap \in Nat
      BY PrinterAssumption
    <3>4. b <= n + h /\ (f + h = n + h - b \/ n + h - b + next >= FlushCap)
      <4>1. b <= n /\ (f = n - b \/ n - b + h >= FlushCap)
        BY <3>1
      <4>2. CASE f = n - b
        BY <4>1, <4>2
      <4>3. CASE n - b + h >= FlushCap
        BY <3>3, <4>1, <4>3
      <4> QED BY <4>1, <4>2, <4>3
    <3>5. /\ begun[u] = b /\ printed'[u].now = n + h /\ NextLen(u)' = next
          /\ Len(flushBuf'[u]) = f + h
      BY <1>3, <1>5, <1>6, <2>1, <3>1, <3>2
    <3> QED BY <3>4, <3>5
  <2>2. CASE u # t
    <3>1. printed'[u].now = printed[u].now /\ NextLen(u)' = NextLen(u)
      BY <1>2, <1>4, <2>2 DEF NextLen
    <3> QED BY <1>6, <2>2, <3>1 DEF PrintInv, SentOnlyWhenFull
  <2> QED BY <2>1, <2>2
<1>11. P!KeptTogether'
  BY <1>1, SpansStill DEF PrintInv
<1> QED BY <1>7, <1>8, <1>9, <1>10, <1>11 DEF PrintInv

LEMMA WriteLineKeeps ==
  ASSUME PrintInv, NEW t \in Thread, P!WriteLine(t)
  PROVE  PrintInv'
<1>1. /\ pc[t] = "lprintf" /\ blocks[t] # <<>>
      /\ line' = [line EXCEPT
                    ![t] = @ \o P!Bytes(t, "line", printed[t].line, Head(blocks[t]))]
      /\ P!BlockDone(t, "line")
      /\ UNCHANGED <<pc, flushBuf, begun, out, spans>>
  BY DEF P!WriteLine, P!Writing, P!Block
<1>2. /\ "now" \in P!Ways /\ "line" \in P!Ways /\ printed[t].line \in Nat
      /\ line[t] \in Seq(ByteSet)
      /\ PrintTypeOK /\ Held /\ P!InOrder(out)
  BY <1>1 DEF PrintInv, PrintTypeOK, Held, P!Ways
<1>3. Fits(out, t, "line", line[t], printed[t].line)
  BY <1>1, <1>2 DEF Held, Collected
<1>4. PICK n \in Nat, h \in Nat :
        /\ n = printed[t].line /\ h = Head(blocks[t])
        /\ n + h = printed'[t].line
  BY <1>1, <1>2, BlockIsDone
<1>5. /\ blocks' \in [Thread -> Seq(Nat)]
      /\ printed' \in [Thread -> [P!Ways -> Nat]]
      /\ \A u \in Thread, v \in P!Ways : <<u, v>> # <<t, "line">> =>
           printed'[u][v] = printed[u][v]
      /\ \A u \in Thread : u # t => blocks'[u] = blocks[u]
  BY <1>1, <1>2, BlockIsDone
<1>6. PICK more \in Seq(ByteSet) :
        /\ more = line[t] \o P!Bytes(t, "line", n, h)
        /\ Fits(out, t, "line", more, n + h)
  BY <1>2, <1>3, <1>4, BufferGrows
<1>7. /\ line' \in [Thread -> Seq(ByteSet)] /\ line'[t] = more
      /\ \A u \in Thread : u # t => line'[u] = line[u]
  BY <1>1, <1>2, <1>4, <1>6 DEF PrintTypeOK
<1>8. Held'
  <2>1. Fits(out', t, "line", Collected(t)', printed'[t].line)
    BY <1>1, <1>4, <1>6, <1>7 DEF Collected
  <2>2. \A u \in Thread : u # t => Collected(u)' = Collected(u)
    BY <1>1, <1>7 DEF Collected
  <2>3. \A u \in Thread : <<u, "now">> # <<t, "line">>
    OBVIOUS
  <2>4. \A u \in Thread : printed'[u].now = printed[u].now
    BY <1>2, <1>5, <2>3
  <2>5. \A u \in Thread : <<u, "line">> # <<t, "line">> =>
          Collected(u)' = Collected(u) /\ printed'[u].line = printed[u].line
    BY <1>2, <1>5, <2>2
  <2> QED BY <1>1, <1>2, <2>1, <2>4, <2>5, HeldAfter
<1>9. PrintTypeOK'
  BY <1>1, <1>2, <1>5, <1>7 DEF PrintTypeOK
<1>10. BuffersMatch'
  <2>1. \A u \in Thread : pc[u] = "emit" => u # t
    BY <1>1
  <2> QED BY <1>1, <1>7, <2>1 DEF PrintInv, BuffersMatch
<1>11. SentOnlyWhenFull'
  <2> SUFFICES ASSUME NEW u \in Thread, pc[u] = "printf"
               PROVE  /\ begun[u] <= printed'[u].now
                      /\ \/ Len(flushBuf[u]) = printed'[u].now - begun[u]
                         \/ printed'[u].now - begun[u] + NextLen(u)' >= FlushCap
    BY <1>1 DEF SentOnlyWhenFull
  <2>1. u # t
    BY <1>1
  <2>2. printed'[u].now = printed[u].now /\ NextLen(u)' = NextLen(u)
    BY <1>2, <1>5, <2>1 DEF NextLen
  <2> QED BY <2>2 DEF PrintInv, SentOnlyWhenFull
<1>12. P!KeptTogether'
  BY <1>1, SpansStill DEF PrintInv
<1> QED BY <1>8, <1>9, <1>10, <1>11, <1>12 DEF PrintInv

LEMMA DropBlockKeeps ==
  ASSUME PrintInv, NEW t \in Thread, P!DropBlock(t)
  PROVE  PrintInv'
<1>1. /\ pc[t] = "lprintf" /\ blocks[t] # <<>>
      /\ blocks' = [blocks EXCEPT ![t] = Tail(@)]
      /\ UNCHANGED <<pc, flushBuf, line, begun, out, printed, spans>>
  BY DEF P!DropBlock, P!Writing
<1>2. /\ blocks' \in [Thread -> Seq(Nat)]
      /\ \A u \in Thread : u # t => blocks'[u] = blocks[u]
  BY <1>1, HeadTailProperties DEF PrintInv, PrintTypeOK
<1>3. PrintTypeOK'
  BY <1>1, <1>2 DEF PrintInv, PrintTypeOK
<1>4. Held'
  BY <1>1, HeldStill DEF PrintInv, Collected
<1>5. BuffersMatch'
  BY <1>1 DEF PrintInv, BuffersMatch
<1>6. SentOnlyWhenFull'
  <2> SUFFICES ASSUME NEW u \in Thread, pc[u] = "printf"
               PROVE  /\ begun[u] <= printed[u].now
                      /\ \/ Len(flushBuf[u]) = printed[u].now - begun[u]
                         \/ printed[u].now - begun[u] + NextLen(u)' >= FlushCap
    BY <1>1 DEF SentOnlyWhenFull
  <2>1. NextLen(u)' = NextLen(u)
    BY <1>1, <1>2 DEF NextLen
  <2> QED BY <2>1 DEF PrintInv, SentOnlyWhenFull
<1>7. P!KeptTogether'
  BY <1>1, SpansStill DEF PrintInv
<1> QED BY <1>3, <1>4, <1>5, <1>6, <1>7 DEF PrintInv

LEMMA BeginKeeps ==
  ASSUME PrintInv, NEW t \in Thread, P!Printf(t) \/ P!Lprintf(t)
  PROVE  PrintInv'
<1>1. PICK call \in {"printf", "lprintf"}, m \in Messages :
        /\ pc[t] = "idle" /\ pc' = [pc EXCEPT ![t] = call]
        /\ blocks' = [blocks EXCEPT ![t] = m]
        /\ begun' = [begun EXCEPT ![t] = printed[t].now]
        /\ UNCHANGED <<flushBuf, line, out, printed, spans>>
  BY DEF P!Printf, P!Lprintf, P!Begin, P!Call
<1>2. PrintTypeOK'
  <2>1. m \in Seq(Nat)
    BY PrinterAssumption
  <2>2. printed[t].now \in Nat
    BY DEF PrintInv, PrintTypeOK, P!Ways
  <2> QED BY <1>1, <2>1, <2>2 DEF PrintInv, PrintTypeOK
<1>3. pc'[t] = call /\ \A u \in Thread : u # t => pc'[u] = pc[u]
  BY <1>1 DEF PrintInv, PrintTypeOK
<1>4. Held'
  <2>1. \A u \in Thread : Collected(u)' = Collected(u)
    BY <1>1, <1>3 DEF Collected
  <2> QED BY <1>1, <2>1, HeldStill DEF PrintInv
<1>5. flushBuf[t] = <<>>
  BY <1>1 DEF PrintInv, BuffersMatch
<1>6. BuffersMatch'
  <2>1. ASSUME NEW u \in Thread
        PROVE  /\ pc'[u] # "printf" => flushBuf[u] = <<>>
               /\ pc'[u] = "emit" => line[u] # <<>>
    <3>1. CASE u = t
      BY <1>3, <1>5, <3>1
    <3>2. CASE u # t
      BY <1>3, <3>2 DEF PrintInv, BuffersMatch
    <3> QED BY <3>1, <3>2
  <2> QED BY <1>1, <2>1 DEF BuffersMatch
<1>7. SentOnlyWhenFull'
  <2> SUFFICES ASSUME NEW u \in Thread, pc'[u] = "printf"
               PROVE  /\ begun'[u] <= printed[u].now
                      /\ \/ Len(flushBuf[u]) = printed[u].now - begun'[u]
                         \/ printed[u].now - begun'[u] + NextLen(u)' >= FlushCap
    BY <1>1 DEF SentOnlyWhenFull
  <2>1. CASE u = t
    <3>1. PICK n \in Nat : n = printed[t].now
      BY DEF PrintInv, PrintTypeOK, P!Ways
    <3>2. begun'[u] = n
      BY <1>1, <2>1, <3>1 DEF PrintInv, PrintTypeOK
    <3>3. Len(flushBuf[u]) = 0
      BY <1>5, <2>1
    <3>4. n <= n /\ 0 = n - n
      OBVIOUS
    <3> QED BY <2>1, <3>1, <3>2, <3>3, <3>4
  <2>2. CASE u # t
    <3>1. begun'[u] = begun[u] /\ blocks'[u] = blocks[u] /\ pc[u] = "printf"
      BY <1>1, <1>3, <2>2 DEF PrintInv, PrintTypeOK
    <3>2. NextLen(u)' = NextLen(u)
      BY <3>1 DEF NextLen
    <3> QED BY <3>1, <3>2 DEF PrintInv, SentOnlyWhenFull
  <2> QED BY <2>1, <2>2
<1>8. P!KeptTogether'
  BY <1>1, SpansStill DEF PrintInv
<1> QED BY <1>2, <1>4, <1>6, <1>7, <1>8 DEF PrintInv

LEMMA PrintfEndKeeps ==
  ASSUME PrintInv, NEW t \in Thread, P!PrintfEnd(t)
  PROVE  PrintInv'
<1>1. /\ pc[t] = "printf" /\ blocks[t] = <<>>
      /\ out' = out \o flushBuf[t]
      /\ flushBuf' = [flushBuf EXCEPT ![t] = <<>>]
      /\ pc' = [pc EXCEPT ![t] = "idle"]
      /\ spans' = spans \cup {P!Span(t, "now", begun[t], printed[t].now)}
      /\ UNCHANGED <<blocks, line, begun, printed>>
  BY DEF P!PrintfEnd
<1>2. /\ "now" \in P!Ways /\ flushBuf[t] \in Seq(ByteSet) /\ printed[t].now \in Nat
      /\ Fits(out, t, "now", flushBuf[t], printed[t].now)
      /\ PrintTypeOK /\ Held /\ P!InOrder(out)
  BY DEF PrintInv, PrintTypeOK, Held, P!Ways
<1>3. /\ out' \in Seq(ByteSet) /\ P!InOrder(out')
      /\ Fits(out', t, "now", <<>>, printed[t].now)
      /\ \A u \in Thread, v \in P!Ways : <<u, v>> # <<t, "now">> =>
           \A b, m : Fits(out, u, v, b, m) => Fits(out', u, v, b, m)
      /\ \A s \in SpanSet : P!Adjacent(s) => P!Adjacent(s)'
      /\ \A s \in SpanSet :
           /\ s.thread = t /\ s.way = "now"
           /\ s.first = printed[t].now - Len(flushBuf[t]) /\ s.last = printed[t].now
           => P!Adjacent(s)'
  BY <1>1, <1>2, BufferSent
<1>4. /\ flushBuf' \in [Thread -> Seq(ByteSet)] /\ flushBuf'[t] = <<>>
      /\ \A u \in Thread : u # t => flushBuf'[u] = flushBuf[u]
  BY <1>1, <1>2 DEF PrintTypeOK
<1>5. pc'[t] = "idle" /\ \A u \in Thread : u # t => pc'[u] = pc[u]
  BY <1>1, <1>2 DEF PrintTypeOK
<1>6. Held'
  <2>1. \A u \in Thread : Collected(u)' = Collected(u)
    BY <1>1, <1>5 DEF Collected
  <2> QED BY <1>1, <1>2, <1>3, <1>4, <2>1, HeldAfter
<1>7. PICK b \in Nat, n \in Nat, f \in Nat :
        /\ b = begun[t] /\ n = printed[t].now /\ f = Len(flushBuf[t])
        /\ f = n - b \/ n - b >= FlushCap
  <2>1. NextLen(t) = 0
    BY <1>1 DEF NextLen
  <2>2. PICK b \in Nat, n \in Nat, f \in Nat :
          b = begun[t] /\ n = printed[t].now /\ f = Len(flushBuf[t])
    BY <1>2 DEF PrintTypeOK
  <2>3. f = n - b \/ n - b + 0 >= FlushCap
    BY <1>1, <2>1, <2>2 DEF PrintInv, SentOnlyWhenFull
  <2>4. n - b + 0 = n - b
    OBVIOUS
  <2> QED BY <2>2, <2>3, <2>4
<1>8. PICK new \in SpanSet :
        /\ new = P!Span(t, "now", begun[t], printed[t].now)
        /\ new.thread = t /\ new.way = "now" /\ new.first = b /\ new.last = n
  BY <1>2, <1>7, SpanIs
<1>9. PrintTypeOK'
  BY <1>1, <1>2, <1>3, <1>4, <1>8 DEF PrintTypeOK
<1>10. BuffersMatch'
  <2>1. ASSUME NEW u \in Thread
        PROVE  /\ pc'[u] # "printf" => flushBuf'[u] = <<>>
               /\ pc'[u] = "emit" => line[u] # <<>>
    <3>1. CASE u = t
      BY <1>4, <1>5, <3>1
    <3>2. CASE u # t
      BY <1>4, <1>5, <3>2 DEF PrintInv, BuffersMatch
    <3> QED BY <3>1, <3>2
  <2> QED BY <1>1, <2>1 DEF BuffersMatch
<1>11. SentOnlyWhenFull'
  <2> SUFFICES ASSUME NEW u \in Thread, pc'[u] = "printf"
               PROVE  /\ begun[u] <= printed[u].now
                      /\ \/ Len(flushBuf'[u]) = printed[u].now - begun[u]
                         \/ printed[u].now - begun[u] + NextLen(u) >= FlushCap
    BY <1>1 DEF SentOnlyWhenFull, NextLen
  <2>1. u # t
    BY <1>5
  <2> QED BY <1>4, <1>5, <2>1 DEF PrintInv, SentOnlyWhenFull
<1>12. P!KeptTogether'
  <2>1. ASSUME n - b < FlushCap PROVE P!Adjacent(new)'
    <3>1. f = n - b
      BY <1>7, <2>1, PrinterAssumption
    <3>2. b = n - f
      BY <3>1
    <3> QED BY <1>3, <1>7, <1>8, <3>2
  <2>2. new.way # "line" /\ (new.last - new.first < FlushCap => P!Adjacent(new)')
    BY <1>8, <2>1
  <2> QED BY <1>1, <1>2, <1>3, <1>8, <2>2, SpanJoins DEF PrintInv
<1> QED BY <1>6, <1>9, <1>10, <1>11, <1>12 DEF PrintInv

LEMMA LprintfEndKeeps ==
  ASSUME PrintInv, NEW t \in Thread, P!LprintfEnd(t)
  PROVE  PrintInv'
<1>1. /\ pc[t] = "lprintf" /\ pc' = [pc EXCEPT ![t] = "idle"]
      /\ UNCHANGED <<blocks, flushBuf, line, begun, out, printed, spans>>
  BY DEF P!LprintfEnd
<1>2. PrintTypeOK'
  BY <1>1 DEF PrintInv, PrintTypeOK
<1>3. pc'[t] = "idle" /\ \A u \in Thread : u # t => pc'[u] = pc[u]
  BY <1>1 DEF PrintInv, PrintTypeOK
<1>4. Held'
  <2>1. \A u \in Thread : Collected(u)' = Collected(u)
    BY <1>1, <1>3 DEF Collected
  <2> QED BY <1>1, <2>1, HeldStill DEF PrintInv
<1>5. BuffersMatch'
  BY <1>1, <1>3 DEF PrintInv, BuffersMatch
<1>6. SentOnlyWhenFull'
  BY <1>1, <1>3 DEF PrintInv, SentOnlyWhenFull, NextLen
<1>7. P!KeptTogether'
  BY <1>1, SpansStill DEF PrintInv
<1> QED BY <1>2, <1>4, <1>5, <1>6, <1>7 DEF PrintInv

LEMMA LemitKeeps ==
  ASSUME PrintInv, NEW t \in Thread, P!Lemit(t)
  PROVE  PrintInv'
<1>1. /\ pc[t] = "idle" /\ line[t] # <<>> /\ pc' = [pc EXCEPT ![t] = "emit"]
      /\ UNCHANGED <<blocks, flushBuf, line, begun, out, printed, spans>>
  BY DEF P!Lemit, P!Call
<1>2. PrintTypeOK'
  BY <1>1 DEF PrintInv, PrintTypeOK
<1>3. pc'[t] = "emit" /\ \A u \in Thread : u # t => pc'[u] = pc[u]
  BY <1>1 DEF PrintInv, PrintTypeOK
<1>4. Held'
  <2>1. \A u \in Thread : Collected(u)' = Collected(u)
    BY <1>1, <1>3 DEF Collected
  <2> QED BY <1>1, <2>1, HeldStill DEF PrintInv
<1>5. BuffersMatch'
  BY <1>1, <1>3 DEF PrintInv, BuffersMatch
<1>6. SentOnlyWhenFull'
  BY <1>1, <1>3 DEF PrintInv, SentOnlyWhenFull, NextLen
<1>7. P!KeptTogether'
  BY <1>1, SpansStill DEF PrintInv
<1> QED BY <1>2, <1>4, <1>5, <1>6, <1>7 DEF PrintInv

LEMMA EmitWriteKeeps ==
  ASSUME PrintInv, NEW t \in Thread, P!EmitWrite(t)
  PROVE  PrintInv'
<1>1. /\ pc[t] = "emit"
      /\ out' = out \o line[t]
      /\ pc' = [pc EXCEPT ![t] = "unlock"]
      /\ spans' = spans \cup {P!Span(t, "line", line[t][1][3] - 1, printed[t].line)}
      /\ UNCHANGED <<blocks, flushBuf, line, begun, printed>>
  BY DEF P!EmitWrite
<1>2. /\ "line" \in P!Ways /\ line[t] \in Seq(ByteSet) /\ line[t] # <<>>
      /\ printed[t].line \in Nat
      /\ PrintTypeOK /\ Held /\ P!InOrder(out)
  BY <1>1 DEF PrintInv, PrintTypeOK, Held, BuffersMatch, P!Ways
<1>3. Fits(out, t, "line", line[t], printed[t].line)
  BY <1>1, <1>2 DEF Held, Collected
<1>4. /\ out' \in Seq(ByteSet) /\ P!InOrder(out')
      /\ Fits(out', t, "line", <<>>, printed[t].line)
      /\ \A u \in Thread, v \in P!Ways : <<u, v>> # <<t, "line">> =>
           \A b, m : Fits(out, u, v, b, m) => Fits(out', u, v, b, m)
      /\ \A s \in SpanSet : P!Adjacent(s) => P!Adjacent(s)'
      /\ \A s \in SpanSet :
           /\ s.thread = t /\ s.way = "line"
           /\ s.first = printed[t].line - Len(line[t]) /\ s.last = printed[t].line
           => P!Adjacent(s)'
  BY <1>1, <1>2, <1>3, BufferSent
<1>5. pc'[t] = "unlock" /\ \A u \in Thread : u # t => pc'[u] = pc[u]
  BY <1>1, <1>2 DEF PrintTypeOK
<1>6. Held'
  <2>1. Fits(out', t, "line", Collected(t)', printed'[t].line)
    BY <1>1, <1>4, <1>5 DEF Collected
  <2>2. \A u \in Thread : u # t => Collected(u)' = Collected(u)
    BY <1>1, <1>5 DEF Collected
  <2>3. \A u \in Thread : <<u, "line">> # <<t, "line">> => u # t
    OBVIOUS
  <2> QED BY <1>1, <1>2, <1>4, <2>1, <2>2, <2>3, HeldAfter
<1>7. PICK n \in Nat, k \in Nat :
        /\ k = Len(line[t]) /\ n = printed[t].line - k /\ printed[t].line = n + k
        /\ line[t] = P!Bytes(t, "line", n, k)
  BY <1>2, <1>3, WhatWaits
<1>8. line[t][1][3] - 1 = n
  <2>1. k # 0
    BY <1>2, <1>7, EmptySeq
  <2>2. line[t][1] = <<t, "line", n + 1>>
    <3>1. \A i \in 1 .. k : P!Bytes(t, "line", n, k)[i] = <<t, "line", n + i>>
      BY <1>2, BytesAre
    <3>2. 1 \in 1 .. k
      BY <2>1
    <3>3. line[t][1] = P!Bytes(t, "line", n, k)[1]
      BY <1>7
    <3> QED BY <3>1, <3>2, <3>3
  <2> QED BY <2>2
<1>9. PICK new \in SpanSet :
        /\ new = P!Span(t, "line", n, n + k)
        /\ new.thread = t /\ new.way = "line" /\ new.first = n /\ new.last = n + k
  BY <1>2, SpanIs
<1>10. spans' = spans \cup {new}
  BY <1>1, <1>7, <1>8, <1>9
<1>11. PrintTypeOK'
  BY <1>1, <1>2, <1>4, <1>10 DEF PrintTypeOK
<1>12. BuffersMatch'
  BY <1>1, <1>5 DEF PrintInv, BuffersMatch
<1>13. SentOnlyWhenFull'
  BY <1>1, <1>5 DEF PrintInv, SentOnlyWhenFull, NextLen
<1>14. P!KeptTogether'
  <2>1. P!Adjacent(new)'
    BY <1>4, <1>7, <1>9
  <2> QED BY <1>2, <1>4, <1>10, <2>1, SpanJoins DEF PrintInv
<1> QED BY <1>6, <1>11, <1>12, <1>13, <1>14 DEF PrintInv

LEMMA EmitUnlockKeeps ==
  ASSUME PrintInv, NEW t \in Thread, P!EmitUnlock(t)
  PROVE  PrintInv'
<1>1. /\ pc[t] = "unlock" /\ pc' = [pc EXCEPT ![t] = "idle"]
      /\ line' = [line EXCEPT ![t] = <<>>]
      /\ UNCHANGED <<blocks, flushBuf, begun, out, printed, spans>>
  BY DEF P!EmitUnlock
<1>2. /\ line' \in [Thread -> Seq(ByteSet)] /\ line'[t] = <<>>
      /\ \A u \in Thread : u # t => line'[u] = line[u]
  BY <1>1, EmptySeq DEF PrintInv, PrintTypeOK
<1>3. pc'[t] = "idle" /\ \A u \in Thread : u # t => pc'[u] = pc[u]
  BY <1>1 DEF PrintInv, PrintTypeOK
<1>4. PrintTypeOK'
  BY <1>1, <1>2 DEF PrintInv, PrintTypeOK
<1>5. Held'
  <2>1. \A u \in Thread : Collected(u)' = Collected(u)
    BY <1>1, <1>2, <1>3 DEF Collected
  <2> QED BY <1>1, <2>1, HeldStill DEF PrintInv
<1>6. BuffersMatch'
  BY <1>1, <1>2, <1>3 DEF PrintInv, BuffersMatch
<1>7. SentOnlyWhenFull'
  BY <1>1, <1>3 DEF PrintInv, SentOnlyWhenFull, NextLen
<1>8. P!KeptTogether'
  BY <1>1, SpansStill DEF PrintInv
<1> QED BY <1>4, <1>5, <1>6, <1>7, <1>8 DEF PrintInv

(* Nothing has been printed at the start.                                    *)
LEMMA PrintInit == ASSUME P!Init PROVE PrintInv
<1> USE DEF P!Init
<1>1. PrintTypeOK
  BY EmptySeq DEF PrintTypeOK, P!Ways
<1>2. Held
  <2>1. ASSUME NEW t \in Thread, NEW way \in P!Ways
        PROVE  P!Arrived(out, t, way, 0) /\ P!NoOthers(out, t, way, 0)
    BY DEF P!Arrived, P!NoOthers
  <2>2. \A t \in Thread : \A way \in P!Ways : Fits(out, t, way, <<>>, 0)
    BY <2>1, NothingWaits
  <2>3. P!InOrder(out)
    BY DEF P!InOrder
  <2> QED BY <2>2, <2>3 DEF Held, Collected, P!Ways
<1>3. BuffersMatch
  BY DEF BuffersMatch
<1>4. SentOnlyWhenFull
  BY DEF SentOnlyWhenFull
<1>5. P!KeptTogether
  BY DEF P!KeptTogether
<1> QED BY <1>1, <1>2, <1>3, <1>4, <1>5 DEF PrintInv

(* Every step of the printing threads keeps the invariant.                   *)
LEMMA PrintStep == PrintInv /\ [P!Next]_(P!vars) => PrintInv'
<1> SUFFICES ASSUME PrintInv, [P!Next]_(P!vars) PROVE PrintInv'
  OBVIOUS
<1>1. ASSUME NEW t \in Thread, P!Step(t) PROVE PrintInv'
  <2>1. CASE P!Printf(t) \/ P!Lprintf(t)
    BY <2>1, BeginKeeps
  <2>2. CASE P!Lemit(t)
    BY <2>2, LemitKeeps
  <2>3. CASE P!FlushFull(t)
    BY <2>3, FlushFullKeeps
  <2>4. CASE P!WriteLarge(t)
    BY <2>4, WriteLargeKeeps
  <2>5. CASE P!WriteSmall(t)
    BY <2>5, WriteSmallKeeps
  <2>6. CASE P!PrintfEnd(t)
    BY <2>6, PrintfEndKeeps
  <2>7. CASE P!WriteLine(t)
    BY <2>7, WriteLineKeeps
  <2>8. CASE P!DropBlock(t)
    BY <2>8, DropBlockKeeps
  <2>9. CASE P!LprintfEnd(t)
    BY <2>9, LprintfEndKeeps
  <2>10. CASE P!EmitWrite(t)
    BY <2>10, EmitWriteKeeps
  <2>11. CASE P!EmitUnlock(t)
    BY <2>11, EmitUnlockKeeps
  <2> QED BY <1>1, <2>1, <2>2, <2>3, <2>4, <2>5, <2>6, <2>7, <2>8, <2>9, <2>10,
             <2>11 DEF P!Step
<1>2. CASE UNCHANGED P!vars
  <2>1. UNCHANGED <<pc, blocks, flushBuf, line, begun, out, printed, spans>>
    BY <1>2 DEF P!vars
  <2>2. PrintTypeOK'
    BY <2>1 DEF PrintInv, PrintTypeOK
  <2>3. Held'
    BY <2>1, HeldStill DEF PrintInv, Collected
  <2>4. BuffersMatch' /\ SentOnlyWhenFull'
    BY <2>1 DEF PrintInv, BuffersMatch, SentOnlyWhenFull, NextLen
  <2>5. P!KeptTogether'
    BY <2>1, SpansStill DEF PrintInv
  <2> QED BY <2>2, <2>3, <2>4, <2>5 DEF PrintInv
<1> QED BY <1>1, <1>2 DEF P!Next, P!Finished

(* Nothing is lost and what belongs together stays together.                 *)
LEMMA PrintedWhole == ASSUME PrintInv PROVE P!NothingLost /\ P!KeptTogether
<1>1. ASSUME NEW t \in Thread, NEW way \in P!Ways
      PROVE  Fits(out, t, way, P!Waiting(t, way), printed[t][way])
  <2>1. CASE way = "now"
    BY <2>1 DEF PrintInv, Held, P!Waiting
  <2>2. CASE way = "line"
    <3>1. P!Waiting(t, "line") = Collected(t)
      BY DEF P!Waiting, Collected
    <3> QED BY <2>2, <3>1 DEF PrintInv, Held
  <2> QED BY <2>1, <2>2 DEF P!Ways
<1>2. ASSUME NEW t \in Thread, NEW way \in P!Ways
      PROVE  /\ P!Sent(t, way) >= 0
             /\ P!Waiting(t, way)
                  = P!Bytes(t, way, P!Sent(t, way), Len(P!Waiting(t, way)))
             /\ P!Arrived(out, t, way, P!Sent(t, way))
             /\ P!NoOthers(out, t, way, P!Sent(t, way))
  BY <1>1 DEF Fits, P!Sent
<1> QED BY <1>2 DEF PrintInv, Held, P!NothingLost
-----------------------------------------------------------------------------
(* Trees: paths                                                              *)

(* The first k names of a path, and the first name of all that links lead to.*)
Upto(p, k) == SubSeq(p, 1, k)
Home == Target[1]

(* Target is a directory at the top (TargetAssumption).                      *)
LEMMA HomeIs == Home \in Name /\ Target = <<Home>> /\ Len(Target) = 1
BY TargetAssumption DEF Home

LEMMA OtherIs == T!Other \in Name /\ T!Other # Home
<1>1. T!Other \in Name /\ <<T!Other>> # Target
  BY TargetAssumption DEF T!Other
<1> QED BY <1>1, HomeIs

(* A name and three more.                                                    *)
LEMMA FourNames ==
  ASSUME NEW w \in Seq(Name), Len(w) = 1,
         NEW n1 \in Name, NEW n2 \in Name, NEW n3 \in Name
  PROVE  LET q == w \o <<n1, n2, n3>> IN
         /\ Len(q) = 4 /\ q \in Seq(Name)
         /\ q[1] = w[1] /\ q[2] = n1 /\ q[3] = n2 /\ q[4] = n3
<1>1. /\ <<n1, n2, n3>> \in Seq(Name) /\ Len(<<n1, n2, n3>>) = 3
      /\ <<n1, n2, n3>>[1] = n1 /\ <<n1, n2, n3>>[2] = n2 /\ <<n1, n2, n3>>[3] = n3
  OBVIOUS
<1>2. ASSUME NEW v \in Seq(Name), Len(v) = 3
      PROVE  /\ w \o v \in Seq(Name) /\ Len(w \o v) = 4 /\ (w \o v)[1] = w[1]
             /\ (w \o v)[2] = v[1] /\ (w \o v)[3] = v[2] /\ (w \o v)[4] = v[3]
  <2>1. ASSUME NEW a \in Seq(Name), NEW b \in Seq(Name)
        PROVE  /\ a \o b \in Seq(Name) /\ Len(a \o b) = Len(a) + Len(b)
               /\ \A i \in 1 .. Len(a) : (a \o b)[i] = a[i]
               /\ \A i \in 1 .. Len(b) : (a \o b)[Len(a) + i] = b[i]
    OBVIOUS
  <2>2. PICK u : u = w \o v
    OBVIOUS
  <2>3. /\ u \in Seq(Name) /\ Len(u) = 1 + 3
        /\ \A i \in 1 .. 1 : u[i] = w[i]
        /\ \A i \in 1 .. 3 : u[1 + i] = v[i]
    <3>1. /\ u \in Seq(Name) /\ Len(u) = Len(w) + Len(v)
          /\ \A i \in 1 .. Len(w) : u[i] = w[i]
          /\ \A i \in 1 .. Len(v) : u[Len(w) + i] = v[i]
      BY <2>1, <2>2, Zenon
    <3>2. PICK m, k : m = Len(w) /\ k = Len(v) /\ m = 1 /\ k = 3
      BY <1>2
    <3> QED BY <3>1, <3>2, Zenon
  <2>4. u[1] = w[1] /\ u[1 + 1] = v[1] /\ u[1 + 2] = v[2] /\ u[1 + 3] = v[3]
    BY <2>3
  <2> QED BY <2>2, <2>3, <2>4
<1> QED BY <1>1, <1>2

(* The paths are sequences of names: all up to the third level, and some of  *)
(* the fourth, where no links are.                                           *)
LEMMA PathFacts ==
  ASSUME NEW p \in T!Path
  PROVE  /\ p \in Seq(Name) /\ (Len(p) \in Nat /\ 1 <= Len(p) /\ Len(p) <= 4)
         /\ Len(p) = 4 => p[1] = Home
         /\ p[1] \in Name /\ p[Len(p)] \in Name
<1>1. CASE p \in T!SeqOf(Name, 3) /\ p # <<>>
  <2>1. PICK m \in 0 .. 3 : p \in [1 .. m -> Name]
    BY <1>1 DEF T!SeqOf
  <2>2. p \in Seq(Name) /\ Len(p) = m
    BY <2>1
  <2>3. Len(p) # 0
    BY <1>1, <2>2, EmptySeq
  <2> QED BY <2>1, <2>2, <2>3
<1>2. CASE \E n \in Name : p = Target \o <<n, T!Other, T!Other>>
  <2>1. PICK n \in Name : p = Target \o <<n, T!Other, T!Other>>
    BY <1>2
  <2>2. p = <<Home, n, T!Other, T!Other>>
    <3>1. /\ Target \in Seq(Name) /\ Len(Target) = 1 /\ Target[1] = Home
          /\ <<n, T!Other, T!Other>> \in Seq(Name)
      BY HomeIs, OtherIs
    <3>2. /\ Len(p) = 4 /\ p \in Seq(Name) /\ p[1] = Home
          /\ p[2] = n /\ p[3] = T!Other /\ p[4] = T!Other
      BY <2>1, <3>1, OtherIs, FourNames
    <3> QED BY <3>2
  <2> QED BY <2>2, HomeIs, OtherIs
<1> QED BY <1>1, <1>2 DEF T!Path

(* Arithmetic about a length that the provers do not do about Len(p).        *)
LEMMA UpToFour ==
  ASSUME NEW l \in Nat, 1 <= l, l <= 4
  PROVE  /\ l \in 1 .. 4
         /\ l # 4 => l <= 3
         /\ l = 1 \/ l > 1
         /\ 1 \in 1 .. l
         /\ \A k \in 1 .. l : k \in 1 .. 4 /\ k \in Nat /\ (k = 4 => k = l)
OBVIOUS

(* Every sequence of one to three names is a path of the model.              *)
LEMMA ShortPath ==
  ASSUME NEW p \in Seq(Name), (Len(p) \in Nat /\ 1 <= Len(p) /\ Len(p) <= 3)
  PROVE  p \in T!Path
<1>1. p \in [1 .. Len(p) -> Name] /\ p # <<>>
  BY LenProperties
<1>2. p \in T!SeqOf(Name, 3)
  BY <1>1 DEF T!SeqOf
<1> QED BY <1>1, <1>2 DEF T!Path

(* The beginnings of a path are paths.                                       *)
LEMMA UptoFacts ==
  ASSUME NEW p \in T!Path, NEW k \in 1 .. Len(p)
  PROVE  /\ Upto(p, k) \in T!Path /\ Len(Upto(p, k)) = k
         /\ Upto(p, k)[1] = p[1]
         /\ k > 1 => T!Parent(Upto(p, k)) = Upto(p, k - 1)
         /\ Upto(p, Len(p)) = p
<1>0. k \in 1 .. 4 /\ k <= Len(p) /\ Len(p) <= 4
  BY PathFacts
<1>1. p \in Seq(Name) /\ (Len(p) \in Nat /\ 1 <= Len(p) /\ Len(p) <= 4)
  BY PathFacts
<1>2. /\ Upto(p, k) \in Seq(Name) /\ Len(Upto(p, k)) = k
      /\ \A i \in 1 .. k : Upto(p, k)[i] = p[i]
  BY <1>0, <1>1, SubSeqProperties DEF Upto
<1>3. Upto(p, Len(p)) = p
  BY <1>1 DEF Upto
<1>4. Upto(p, k) \in T!Path
  <2>1. CASE k < 4
    <3>1. (Len(Upto(p, k)) \in Nat /\ 1 <= Len(Upto(p, k)) /\ Len(Upto(p, k)) <= 3)
      BY <1>0, <1>1, <1>2, <2>1
    <3> QED BY <1>2, <3>1, ShortPath
  <2>2. CASE k = 4
    <3>1. k = Len(p)
      BY <1>1, <2>2, UpToFour
    <3> QED BY <1>3, <3>1
  <2> QED BY <1>0, <2>1, <2>2
<1>5. ASSUME k > 1 PROVE T!Parent(Upto(p, k)) = Upto(p, k - 1)
  BY <1>1, <1>2, <1>5, <1>0 DEF T!Parent, Upto
<1> QED BY <1>1, <1>2, <1>3, <1>4, <1>5
(* A name is added to a path.                                                *)
LEMMA EntryFacts ==
  ASSUME NEW p \in T!Path, NEW n \in Name, Append(p, n) \in T!Path
  PROVE  /\ T!Parent(Append(p, n)) = p
         /\ Len(Append(p, n)) = Len(p) + 1
         /\ Append(p, n)[Len(p) + 1] = n
         /\ Append(p, n)[1] = p[1]
         /\ \A k \in 1 .. Len(p) : Upto(Append(p, n), k) = Upto(p, k)
<1>1. p \in Seq(Name) /\ Len(p) \in Nat /\ Len(p) >= 1
  BY PathFacts
<1>2. /\ Append(p, n) \in Seq(Name) /\ Len(Append(p, n)) = Len(p) + 1
      /\ Append(p, n)[Len(p) + 1] = n
      /\ \A i \in 1 .. Len(p) : Append(p, n)[i] = p[i]
  BY <1>1, AppendProperties
<1>3. ASSUME NEW k \in 1 .. Len(p) PROVE Upto(Append(p, n), k) = Upto(p, k)
  BY <1>1, <1>2 DEF Upto
<1>4. T!Parent(Append(p, n)) = p
  BY <1>1, <1>2, <1>3 DEF T!Parent, Upto
<1> QED BY <1>1, <1>2, <1>3, <1>4

-----------------------------------------------------------------------------
(* Trees: where paths lead                                                   *)

(* What is below a path is nothing unless the path is a directory; nothing   *)
(* in Target is a link.                                                      *)
Kinds == {"none", "dir", "link"} \cup T!Content

Sound(d) ==
  /\ d \in [T!Path -> Kinds]
  /\ \A p \in T!Path : Len(p) > 1 /\ d[p] # "none" => d[T!Parent(p)] = "dir"
  /\ \A p \in T!Path : p[1] = Home => d[p] # "link"

LinkAt(d, p, k) == k \in 1 .. Len(p) /\ d[Upto(p, k)] = "link"

(* Where a link at the k-th name takes a path. *)
Via(p, k) == Target \o SubSeq(p, k + 1, Len(p))

(* All above what is there are directories.                                  *)
LEMMA AllAboveAreDirs ==
  ASSUME NEW d, Sound(d), NEW p \in T!Path, NEW k \in 1 .. Len(p),
         d[Upto(p, k)] # "none", NEW j \in 1 .. k - 1
  PROVE  d[Upto(p, j)] = "dir"
<1>1. (Len(p) \in Nat /\ 1 <= Len(p) /\ Len(p) <= 4) /\ k \in 1 .. 4 /\ k <= Len(p) /\ j \in 1 .. 3 /\ j < k
  BY PathFacts
<1>2. ASSUME NEW i \in 2 .. Len(p), d[Upto(p, i)] # "none"
      PROVE  d[Upto(p, i - 1)] = "dir"
  <2>1. i \in 1 .. Len(p) /\ i > 1
    BY <1>1
  <2>2. /\ Upto(p, i) \in T!Path /\ Len(Upto(p, i)) = i
        /\ T!Parent(Upto(p, i)) = Upto(p, i - 1)
    BY <2>1, UptoFacts
  <2> QED BY <1>2, <2>1, <2>2 DEF Sound
<1>3. /\ 4 \in 2 .. Len(p) /\ d[Upto(p, 4)] # "none" => d[Upto(p, 3)] = "dir"
      /\ 3 \in 2 .. Len(p) /\ d[Upto(p, 3)] # "none" => d[Upto(p, 2)] = "dir"
      /\ 2 \in 2 .. Len(p) /\ d[Upto(p, 2)] # "none" => d[Upto(p, 1)] = "dir"
  <2>1. 4 - 1 = 3 /\ 3 - 1 = 2 /\ 2 - 1 = 1
    OBVIOUS
  <2> QED BY <1>2, <2>1
<1> QED BY <1>1, <1>3

(* A path goes through one link at most.                                     *)
LEMMA OneLink ==
  ASSUME NEW d, Sound(d), NEW p \in T!Path, NEW k, LinkAt(d, p, k)
  PROVE  /\ p[1] # Home /\ (Len(p) \in Nat /\ 1 <= Len(p) /\ Len(p) <= 3) /\ k \in 1 .. Len(p)
         /\ \A j \in 1 .. Len(p) : LinkAt(d, p, j) => j = k
         /\ Via(p, k) \in T!Path /\ Len(Via(p, k)) = Len(p) - k + 1
         /\ Via(p, k)[1] = Home
<1>1. k \in 1 .. Len(p) /\ d[Upto(p, k)] = "link"
  BY DEF LinkAt
<1>2. (Len(p) \in Nat /\ 1 <= Len(p) /\ Len(p) <= 4) /\ (Len(p) = 4 => p[1] = Home) /\ p \in Seq(Name)
  BY PathFacts
<1>3. p[1] # Home
  BY <1>1, UptoFacts DEF Sound
<1>4. (Len(p) \in Nat /\ 1 <= Len(p) /\ Len(p) <= 3)
  <2>1. Len(p) # 4
    BY <1>2, <1>3
  <2> QED BY <1>2, <2>1, UpToFour
<1>5. ASSUME NEW j \in 1 .. Len(p), LinkAt(d, p, j) PROVE j = k
  <2>1. d[Upto(p, j)] = "link"
    BY <1>5 DEF LinkAt
  <2>2. ~(j < k)
    <3> SUFFICES ASSUME j < k PROVE FALSE
      OBVIOUS
    <3>1. j \in 1 .. k - 1
      BY <1>1, <1>4
    <3>2. d[Upto(p, j)] = "dir"
      BY <1>1, <3>1, AllAboveAreDirs
    <3> QED BY <2>1, <3>2
  <2>3. ~(k < j)
    <3> SUFFICES ASSUME k < j PROVE FALSE
      OBVIOUS
    <3>1. k \in 1 .. j - 1
      BY <1>1, <1>4
    <3>2. d[Upto(p, k)] = "dir"
      BY <2>1, <3>1, AllAboveAreDirs
    <3> QED BY <1>1, <3>2
  <2> QED BY <1>1, <1>4, <2>2, <2>3
<1>6. /\ SubSeq(p, k + 1, Len(p)) \in Seq(Name)
      /\ Len(SubSeq(p, k + 1, Len(p))) = Len(p) - k
  BY <1>1, <1>2, <1>4, SubSeqProperties
<1>7. /\ Via(p, k) \in Seq(Name) /\ Len(Via(p, k)) = Len(p) - k + 1
      /\ Via(p, k)[1] = Home
  BY <1>1, <1>4, <1>6, HomeIs, ConcatProperties DEF Via
<1>8. Via(p, k) \in T!Path
  <2>1. (Len(Via(p, k)) \in Nat /\ 1 <= Len(Via(p, k)) /\ Len(Via(p, k)) <= 3)
    <3>1. k \in 1 .. 3 /\ k <= Len(p)
      BY <1>1, <1>4
    <3> QED BY <1>4, <1>7, <3>1
  <2> QED BY <1>7, <2>1, ShortPath
<1> QED BY <1>1, <1>3, <1>4, <1>5, <1>7, <1>8

(* What T!Leads comes to: the path itself, or behind its one link.           *)
LEMMA LeadsIs ==
  ASSUME NEW d, Sound(d), NEW p \in T!Path
  PROVE  /\ \A k \in 1 .. Len(p) : LinkAt(d, p, k) => T!Leads(d, p) = Via(p, k)
         /\ (\A k \in 1 .. Len(p) : ~LinkAt(d, p, k)) => T!Leads(d, p) = p
         /\ T!Leads(d, p) \in T!Path
<1> DEFINE links == {k \in 1 .. Len(p) : d[SubSeq(p, 1, k)] = "link"}
<1>1. ASSUME NEW k \in 1 .. Len(p), LinkAt(d, p, k) PROVE T!Leads(d, p) = Via(p, k)
  <2>1. links = {k}
    BY <1>1, OneLink DEF LinkAt, Upto
  <2>2. T!Min({k}) = k
    <3>1. k \in Nat
      BY PathFacts
    <3> QED BY <3>1 DEF T!Min
  <2>3. T!Min(links) = k /\ links # {}
    BY <2>1, <2>2
  <2> QED BY <2>3 DEF T!Leads, Via
<1>2. ASSUME \A k \in 1 .. Len(p) : ~LinkAt(d, p, k) PROVE T!Leads(d, p) = p
  <2>1. links = {}
    BY <1>2 DEF LinkAt, Upto
  <2> QED BY <2>1 DEF T!Leads
<1>3. T!Leads(d, p) \in T!Path
  <2>1. CASE \E k \in 1 .. Len(p) : LinkAt(d, p, k)
    BY <1>1, <2>1, OneLink
  <2>2. CASE \A k \in 1 .. Len(p) : ~LinkAt(d, p, k)
    BY <1>2, <2>2
  <2> QED BY <2>1, <2>2
<1> QED BY <1>1, <1>2, <1>3

(* And T!Named: the last name is not followed.                               *)
LEMMA NamedIs ==
  ASSUME NEW d, Sound(d), NEW p \in T!Path
  PROVE  /\ \A k \in 1 .. Len(p) - 1 :
              LinkAt(d, p, k) => T!Named(d, p) = Via(p, k) /\ T!Leads(d, p) = Via(p, k)
         /\ (\A k \in 1 .. Len(p) - 1 : ~LinkAt(d, p, k)) => T!Named(d, p) = p
         /\ T!Named(d, p) \in T!Path
<1> DEFINE r == T!Parent(p)
<1>1. p \in Seq(Name) /\ (Len(p) \in Nat /\ 1 <= Len(p) /\ Len(p) <= 4)
  BY PathFacts
<1>2. CASE Len(p) = 1
  <2>1. r = <<>>
    BY <1>1, <1>2 DEF T!Parent
  <2>2. T!Leads(d, <<>>) = <<>>
    <3>1. {k \in 1 .. Len(<<>>) : d[SubSeq(<<>>, 1, k)] = "link"} = {}
      OBVIOUS
    <3> QED BY <3>1 DEF T!Leads
  <2>3. T!Named(d, p) = p
    <3>1. T!Named(d, p) = Append(<<>>, p[1])
      BY <1>2, <2>1, <2>2 DEF T!Named
    <3>2. Append(<<>>, p[1]) = p
      BY <1>1, <1>2
    <3> QED BY <3>1, <3>2
  <2>4. 1 .. Len(p) - 1 = {}
    BY <1>2
  <2> QED BY <2>3, <2>4
<1>3. CASE Len(p) > 1
  <2>1. Len(p) - 1 \in 1 .. Len(p) /\ Len(p) \in 1 .. Len(p) /\ Len(p) \in Nat
    BY <1>1, <1>3
  <2>2. /\ r = Upto(p, Len(p) - 1) /\ r \in T!Path /\ Len(r) = Len(p) - 1
    BY <2>1, UptoFacts DEF T!Parent, Upto
  <2>3. ASSUME NEW k \in 1 .. Len(p) - 1
        PROVE  /\ LinkAt(d, p, k) <=> LinkAt(d, r, k)
               /\ Append(Via(r, k), p[Len(p)]) = Via(p, k)
    <3>1. k \in 1 .. 3 /\ k <= Len(p) - 1 /\ Len(p) \in Nat
      BY <1>1
    <3>2. Upto(r, k) = Upto(p, k)
      BY <1>1, <3>1, <2>2 DEF Upto
    <3>3. Append(SubSeq(r, k + 1, Len(r)), p[Len(p)]) = SubSeq(p, k + 1, Len(p))
      BY <1>1, <3>1, <2>2 DEF Upto
    <3>4. /\ Target \in Seq(Name) /\ SubSeq(r, k + 1, Len(r)) \in Seq(Name)
          /\ p[Len(p)] \in Name
      <4>1. r \in Seq(Name) /\ p[Len(p)] \in Name
        BY <2>2, PathFacts
      <4> QED BY <3>1, <4>1, <2>2, HomeIs, SubSeqProperties
    <3>5. Append(Target \o SubSeq(r, k + 1, Len(r)), p[Len(p)])
            = Target \o Append(SubSeq(r, k + 1, Len(r)), p[Len(p)])
      BY <3>4
    <3>6. k \in 1 .. Len(r) /\ k \in 1 .. Len(p)
      BY <3>1, <2>2
    <3>7. LinkAt(d, p, k) <=> LinkAt(d, r, k)
      BY <3>2, <3>6 DEF LinkAt
    <3>8. Append(Via(r, k), p[Len(p)]) = Via(p, k)
      BY <3>3, <3>5 DEF Via
    <3> QED BY <3>7, <3>8
  <2>4. T!Named(d, p) = Append(T!Leads(d, r), p[Len(p)])
    BY DEF T!Named
  <2>5. ASSUME NEW k \in 1 .. Len(p) - 1, LinkAt(d, p, k)
        PROVE  /\ T!Named(d, p) = Via(p, k) /\ T!Leads(d, p) = Via(p, k)
               /\ T!Named(d, p) \in T!Path
    <3>1. k \in 1 .. Len(r) /\ LinkAt(d, r, k) /\ k \in 1 .. Len(p)
      BY <2>1, <2>2, <2>3, <2>5 DEF LinkAt
    <3>2. T!Leads(d, r) = Via(r, k) /\ T!Leads(d, p) = Via(p, k)
      BY <2>2, <2>5, <3>1, LeadsIs
    <3>3. Via(p, k) \in T!Path
      BY <2>5, OneLink
    <3>4. T!Named(d, p) = Via(p, k)
      BY <2>3, <2>4, <3>2
    <3> QED BY <3>2, <3>3, <3>4
  <2>6. ASSUME \A k \in 1 .. Len(p) - 1 : ~LinkAt(d, p, k) PROVE T!Named(d, p) = p
    <3>1. \A k \in 1 .. Len(r) : ~LinkAt(d, r, k)
      BY <2>2, <2>3, <2>6
    <3>2. T!Leads(d, r) = r
      BY <2>2, <3>1, LeadsIs
    <3>3. Append(r, p[Len(p)]) = p
      BY <1>1, <1>3, <2>2 DEF Upto
    <3> QED BY <2>4, <3>2, <3>3
  <2> QED BY <2>5, <2>6
<1>4. Len(p) = 1 \/ Len(p) > 1
  BY <1>1, UpToFour
<1> QED BY <1>2, <1>3, <1>4

(* What is there is reached as before, when others have only been removing.  *)
Less(e, d) == \A q \in T!Path : e[q] \in {d[q], "none"}

(* Removing does not move what a path names, unless that is gone already.    *)
LEMMA NamedStays ==
  ASSUME NEW d, NEW e, Sound(d), Sound(e), Less(e, d), NEW p \in T!Path,
         e[T!Named(e, p)] # "none"
  PROVE  T!Named(e, p) = T!Named(d, p) /\ e[T!Named(e, p)] = d[T!Named(d, p)]
<1>1. (Len(p) \in Nat /\ 1 <= Len(p) /\ Len(p) <= 4)
  BY PathFacts
<1>2. T!Named(e, p) = T!Named(d, p)
  <2>1. CASE \E k \in 1 .. Len(p) - 1 : LinkAt(e, p, k)
    <3>1. PICK k \in 1 .. Len(p) - 1 : LinkAt(e, p, k)
      BY <2>1
    <3>2. k \in 1 .. Len(p) /\ e[Upto(p, k)] = "link"
      BY <3>1 DEF LinkAt
    <3>3. Upto(p, k) \in T!Path
      BY <3>2, UptoFacts
    <3>4. LinkAt(d, p, k)
      BY <3>2, <3>3 DEF LinkAt, Less
    <3> QED BY <3>1, <3>4, NamedIs
  <2>2. CASE \A k \in 1 .. Len(p) - 1 : ~LinkAt(e, p, k)
    <3>1. T!Named(e, p) = p
      BY <2>2, NamedIs
    <3>2. Len(p) \in 1 .. Len(p) /\ Upto(p, Len(p)) = p
      BY <1>1, UptoFacts
    <3>3. ASSUME NEW k \in 1 .. Len(p) - 1 PROVE ~LinkAt(d, p, k)
      <4>1. e[Upto(p, k)] = "dir"
        BY <3>1, <3>2, AllAboveAreDirs
      <4>2. k \in 1 .. Len(p)
        BY <1>1
      <4>3. Upto(p, k) \in T!Path
        BY <4>2, UptoFacts
      <4> QED BY <4>1, <4>3 DEF LinkAt, Less
    <3>4. T!Named(d, p) = p
      BY <3>3, NamedIs
    <3> QED BY <3>1, <3>4
  <2> QED BY <2>1, <2>2
<1>3. T!Named(e, p) \in T!Path
  BY NamedIs
<1> QED BY <1>2, <1>3 DEF Less

(* The same where the last name is followed.                                 *)
LEMMA LeadsStays ==
  ASSUME NEW d, NEW e, Sound(d), Sound(e), Less(e, d), NEW p \in T!Path,
         e[T!Leads(e, p)] # "none"
  PROVE  T!Leads(e, p) = T!Leads(d, p) /\ e[T!Leads(e, p)] = d[T!Leads(d, p)]
<1>1. (Len(p) \in Nat /\ 1 <= Len(p) /\ Len(p) <= 4)
  BY PathFacts
<1>2. T!Leads(e, p) = T!Leads(d, p)
  <2>1. CASE \E k \in 1 .. Len(p) : LinkAt(e, p, k)
    <3>1. PICK k \in 1 .. Len(p) : LinkAt(e, p, k)
      BY <2>1
    <3>2. e[Upto(p, k)] = "link" /\ Upto(p, k) \in T!Path
      BY <3>1, UptoFacts DEF LinkAt
    <3>3. LinkAt(d, p, k)
      BY <3>2 DEF LinkAt, Less
    <3> QED BY <3>1, <3>3, LeadsIs
  <2>2. CASE \A k \in 1 .. Len(p) : ~LinkAt(e, p, k)
    <3>1. T!Leads(e, p) = p
      BY <2>2, LeadsIs
    <3>2. Len(p) \in 1 .. Len(p) /\ Upto(p, Len(p)) = p
      BY <1>1, UptoFacts
    <3>3. ASSUME NEW k \in 1 .. Len(p) PROVE ~LinkAt(d, p, k)
      <4>1. e[Upto(p, k)] # "none"
        <5>1. CASE k = Len(p)
          BY <3>1, <3>2, <5>1
        <5>2. CASE k # Len(p)
          <6>1. k \in 1 .. Len(p) - 1
            BY <1>1, <5>2, UpToFour
          <6> QED BY <3>1, <3>2, <6>1, AllAboveAreDirs
        <5> QED BY <5>1, <5>2
      <4>2. Upto(p, k) \in T!Path /\ ~LinkAt(e, p, k)
        BY <2>2, UptoFacts
      <4> QED BY <4>1, <4>2 DEF LinkAt, Less
    <3> QED BY <3>1, <3>3, LeadsIs
  <2> QED BY <2>1, <2>2
<1>3. T!Leads(e, p) \in T!Path
  BY LeadsIs
<1> QED BY <1>2, <1>3 DEF Less

(* Only the last name tells T!Leads from T!Named.                            *)
LEMMA LeadsOfNamed ==
  ASSUME NEW d, Sound(d), NEW p \in T!Path
  PROVE  /\ d[T!Named(d, p)] # "link" => T!Leads(d, p) = T!Named(d, p)
         /\ d[T!Named(d, p)] = "link" => T!Leads(d, p) = Target
<1>1. (Len(p) \in Nat /\ 1 <= Len(p) /\ Len(p) <= 4) /\ p \in Seq(Name)
  BY PathFacts
<1>2. CASE \E k \in 1 .. Len(p) - 1 : LinkAt(d, p, k)
  <2>1. PICK k \in 1 .. Len(p) - 1 : LinkAt(d, p, k)
    BY <1>2
  <2>2. T!Named(d, p) = Via(p, k) /\ T!Leads(d, p) = Via(p, k)
    BY <2>1, NamedIs
  <2>3. Via(p, k) \in T!Path /\ Via(p, k)[1] = Home
    BY <2>1, OneLink
  <2> QED BY <2>2, <2>3 DEF Sound
<1>3. CASE \A k \in 1 .. Len(p) - 1 : ~LinkAt(d, p, k)
  <2>1. T!Named(d, p) = p
    BY <1>3, NamedIs
  <2>2. Len(p) \in 1 .. Len(p) /\ Upto(p, Len(p)) = p
    BY <1>1, UptoFacts
  <2>3. ASSUME d[p] = "link" PROVE T!Leads(d, p) = Target
    <3>1. LinkAt(d, p, Len(p))
      BY <2>2, <2>3 DEF LinkAt
    <3>2. SubSeq(p, Len(p) + 1, Len(p)) = <<>>
      BY <1>1
    <3>3. Target \in Seq(Name)
      BY HomeIs
    <3>4. Via(p, Len(p)) = Target
      BY <3>2, <3>3, ConcatEmptySeq DEF Via
    <3> QED BY <2>2, <3>1, <3>4, LeadsIs
  <2>4. ASSUME d[p] # "link" PROVE T!Leads(d, p) = p
    <3>1. ASSUME NEW k \in 1 .. Len(p) PROVE ~LinkAt(d, p, k)
      <4>1. CASE k = Len(p)
        BY <2>2, <2>4, <4>1 DEF LinkAt
      <4>2. CASE k # Len(p)
        <5>1. k \in 1 .. Len(p) - 1
          BY <1>1, <4>2, UpToFour
        <5> QED BY <1>3, <5>1
      <4> QED BY <4>1, <4>2
    <3> QED BY <3>1, LeadsIs
  <2> QED BY <2>1, <2>3, <2>4
<1> QED BY <1>2, <1>3

(* What an entry is.                                                         *)
LEMMA NamedEntry ==
  ASSUME NEW d, NEW p \in T!Path, NEW n \in Name, Append(p, n) \in T!Path
  PROVE  T!Named(d, Append(p, n)) = Append(T!Leads(d, p), n)
<1>1. /\ T!Parent(Append(p, n)) = p
      /\ Append(p, n)[Len(Append(p, n))] = n
  BY EntryFacts
<1> QED BY <1>1 DEF T!Named

-----------------------------------------------------------------------------
(* Trees: deleting                                                           *)

(* The trees that are made, besides being sound, are of two levels and one   *)
(* file on the third.                                                        *)
Shallow(d) ==
  /\ d[T!Deep] \in {"none", "text"}
  /\ \A p \in T!Path : d[p] # "none" => Len(p) <= 2 \/ p = T!Deep

OnlyRemoved == Sound(orig) /\ Shallow(orig) /\ Sound(tree) /\ Less(tree, orig)

(* Something was removed, or nothing; and nothing that is fixed.             *)
Removing ==
  /\ Sound(tree') /\ Less(tree', tree)
  /\ \A q \in fixed \cap T!Path : tree'[q] = tree[q]
  /\ UNCHANGED <<fixed, dry, job, orig>>

(* Why t may leave something where it was.                                   *)
Reason(t) ==
  \/ T!Blocked(orig, T!Named(orig, job[t].path))
  \/ \E p \in T!Path :
       /\ T!IsPrefix(job[t].path, p)
       /\ LET q == T!Named(orig, p) IN
          \/ q \in fixed /\ tree[q] # "none"
          \/ orig[q] = "link" /\ orig[Target] = "dir"

(* All links on the way are still there.                                     *)
Intact(p) == \A k \in 1 .. Len(p) : LinkAt(orig, p, k) => LinkAt(tree, p, k)

(* What is in the directory p that t has open is yet to be looked at, or is  *)
(* the directory that is open inside of it; or there is a reason.            *)
Covered(t, p, left, inside) ==
  Intact(p) =>
    \A n \in Name :
      LET x == Append(T!Leads(orig, p), n) IN
      x \in T!Path /\ tree[x] # "none" =>
        n \in left \/ Append(p, n) = inside \/ Reason(t)

(* A path whose links are all there leads where it led at first.             *)
LEMMA IntactLeads ==
  ASSUME OnlyRemoved, NEW p \in T!Path, Intact(p)
  PROVE  T!Leads(tree, p) = T!Leads(orig, p)
<1> USE DEF OnlyRemoved
<1>1. CASE \E k \in 1 .. Len(p) : LinkAt(orig, p, k)
  BY <1>1, LeadsIs DEF Intact
<1>2. CASE \A k \in 1 .. Len(p) : ~LinkAt(orig, p, k)
  <2>1. ASSUME NEW k \in 1 .. Len(p) PROVE ~LinkAt(tree, p, k)
    <3>1. Upto(p, k) \in T!Path
      BY UptoFacts
    <3> QED BY <1>2, <3>1 DEF LinkAt, Less
  <2> QED BY <1>2, <2>1, LeadsIs
<1> QED BY <1>1, <1>2

(* What a path leads to can be there only while all its links are.           *)
LEMMA ReachedIntact ==
  ASSUME OnlyRemoved, NEW p \in T!Path, tree[T!Leads(tree, p)] # "none"
  PROVE  Intact(p)
<1> USE DEF OnlyRemoved
<1> SUFFICES ASSUME NEW k \in 1 .. Len(p), LinkAt(orig, p, k)
             PROVE  LinkAt(tree, p, k)
  BY DEF Intact
<1>1. T!Leads(tree, p) = Via(p, k)
  BY LeadsStays, LeadsIs
<1>2. Via(p, k)[1] = Home /\ p[1] # Home
  BY OneLink
<1>3. PICK j \in 1 .. Len(p) : LinkAt(tree, p, j)
  BY <1>1, <1>2, LeadsIs
<1>4. LinkAt(orig, p, j)
  <2>1. Upto(p, j) \in T!Path
    BY UptoFacts
  <2> QED BY <1>3, <2>1 DEF LinkAt, Less
<1>5. j = k
  BY <1>4, OneLink
<1> QED BY <1>3, <1>5

(* A step of removing keeps what was said of the others.                     *)
LEMMA RemovingKeeps ==
  ASSUME OnlyRemoved, Removing
  PROVE  /\ OnlyRemoved'
         /\ \A t : Reason(t) => Reason(t)'
         /\ \A p \in T!Path : Intact(p)' => Intact(p)
<1> USE DEF OnlyRemoved, Removing
<1>1. OnlyRemoved'
  BY DEF Less
<1>2. ASSUME NEW t, Reason(t) PROVE Reason(t)'
  <2>1. CASE T!Blocked(orig, T!Named(orig, job[t].path))
    BY <2>1 DEF Reason
  <2>2. CASE ~T!Blocked(orig, T!Named(orig, job[t].path))
    <3>1. PICK p \in T!Path :
            /\ T!IsPrefix(job[t].path, p)
            /\ \/ T!Named(orig, p) \in fixed /\ tree[T!Named(orig, p)] # "none"
               \/ orig[T!Named(orig, p)] = "link" /\ orig[Target] = "dir"
      BY <1>2, <2>2 DEF Reason
    <3>2. T!Named(orig, p) \in T!Path
      BY NamedIs
    <3> QED BY <3>1, <3>2 DEF Reason
  <2> QED BY <2>1, <2>2
<1>3. ASSUME NEW p \in T!Path, Intact(p)' PROVE Intact(p)
  <2> SUFFICES ASSUME NEW k \in 1 .. Len(p), LinkAt(orig, p, k)
               PROVE  LinkAt(tree, p, k)
    BY DEF Intact
  <2>1. Upto(p, k) \in T!Path
    BY UptoFacts
  <2>2. tree'[Upto(p, k)] = "link"
    BY <1>3 DEF Intact, LinkAt
  <2> QED BY <2>1, <2>2 DEF LinkAt, Less
<1> QED BY <1>1, <1>2, <1>3

(* remove and rmdir are such steps.                                          *)
LEMMA WithoutRemoves ==
  ASSUME OnlyRemoved, NEW q \in T!Path, NEW fails \in BOOLEAN,
         T!RemoveFails(q) => fails, tree' = T!Without(q, fails),
         UNCHANGED <<fixed, dry, job, orig>>
  PROVE  Removing /\ (~fails => tree'[q] = "none")
<1> USE DEF OnlyRemoved
<1>0. tree \in [T!Path -> Kinds] /\ DOMAIN tree = T!Path
  BY DEF Sound
<1>1. CASE fails
  <2>1. tree' = tree
    BY <1>1 DEF T!Without
  <2> QED BY <1>1, <2>1 DEF Removing, Less
<1>2. CASE ~fails
  <2>1. tree' = [tree EXCEPT ![q] = "none"] /\ ~T!RemoveFails(q)
    BY <1>2 DEF T!Without
  <2>2. /\ tree' \in [T!Path -> Kinds] /\ tree'[q] = "none"
        /\ \A r \in T!Path : r # q => tree'[r] = tree[r]
    BY <1>0, <2>1 DEF Kinds
  <2>3. Less(tree', tree)
    BY <2>2 DEF Less
  <2>4. ASSUME NEW r \in fixed \cap T!Path PROVE tree'[r] = tree[r]
    BY <2>1, <2>2 DEF T!RemoveFails
  <2>5. ASSUME NEW p \in T!Path, Len(p) > 1, tree'[p] # "none"
        PROVE  tree'[T!Parent(p)] = "dir"
    <3>1. p # q /\ tree[p] # "none"
      BY <2>2, <2>5
    <3>2. tree[T!Parent(p)] = "dir"
      BY <2>5, <3>1 DEF Sound
    <3>3. T!Parent(p) \in T!Path
      <4>1. Len(p) - 1 \in 1 .. Len(p) /\ Len(p) \in 1 .. Len(p)
        BY <2>5, PathFacts
      <4> QED BY <4>1, UptoFacts DEF T!Parent, Upto
    <3>4. T!Parent(p) # q
      <4> SUFFICES ASSUME T!Parent(p) = q PROVE FALSE
        OBVIOUS
      <4>1. p = Append(q, p[Len(p)]) /\ p[Len(p)] \in Name
        BY <2>5, PathFacts DEF T!Parent
      <4>2. T!Full(q)
        BY <1>0, <3>1, <4>1 DEF T!Full
      <4>3. tree[q] # "none"
        BY <3>2
      <4> QED BY <2>1, <4>2, <4>3 DEF T!RemoveFails
    <3> QED BY <2>2, <3>2, <3>3, <3>4
  <2>6. ASSUME NEW p \in T!Path, p[1] = Home PROVE tree'[p] # "link"
    BY <2>2, <2>6 DEF Sound
  <2>7. Sound(tree')
    BY <2>2, <2>5, <2>6 DEF Sound
  <2> QED BY <2>2, <2>3, <2>4, <2>7 DEF Removing
<1> QED BY <1>1, <1>2

(* Only a directory has something in it.                                     *)
LEMMA FullIsDir ==
  ASSUME NEW q \in T!Path, Sound(tree), T!Full(q)
  PROVE  tree[q] = "dir"
<1>1. PICK n \in Name : Append(q, n) \in T!Path /\ tree[Append(q, n)] # "none"
  BY DEF T!Full, Sound
<1>2. T!Parent(Append(q, n)) = q /\ Len(Append(q, n)) = Len(q) + 1
  BY <1>1, EntryFacts
<1>3. Len(Append(q, n)) > 1
  BY <1>2, PathFacts
<1> QED BY <1>1, <1>2, <1>3 DEF Sound

(* No file is on the way to what is there.                                   *)
LEMMA NotBlocked ==
  ASSUME NEW d, Sound(d), NEW q \in T!Path, d[q] # "none"
  PROVE  ~T!Blocked(d, q)
<1> SUFFICES ASSUME NEW k \in 1 .. Len(q) - 1, d[Upto(q, k)] \in T!Content
             PROVE  FALSE
  BY DEF T!Blocked, Upto
<1>1. Len(q) \in 1 .. Len(q) /\ Upto(q, Len(q)) = q
  BY PathFacts, UpToFour, UptoFacts
<1>2. d[Upto(q, k)] = "dir"
  BY <1>1, AllAboveAreDirs
<1> QED BY <1>2 DEF T!Content

(* Nor to the entries of a directory.                                        *)
LEMMA EntryNotBlocked ==
  ASSUME NEW d, Sound(d), NEW p \in T!Path, NEW n \in Name, Append(p, n) \in T!Path,
         d[p] = "dir"
  PROVE  ~T!Blocked(d, Append(p, n))
<1> DEFINE q == Append(p, n)
<1> SUFFICES ASSUME NEW k \in 1 .. Len(q) - 1, d[Upto(q, k)] \in T!Content
             PROVE  FALSE
  BY DEF T!Blocked, Upto
<1>1. Len(p) \in Nat /\ Len(q) = Len(p) + 1 /\ k \in 1 .. Len(p)
  BY EntryFacts, PathFacts
<1>2. Upto(q, k) = Upto(p, k) /\ Len(p) \in 1 .. Len(p) /\ Upto(p, Len(p)) = p
  BY <1>1, EntryFacts, UptoFacts, PathFacts, UpToFour
<1>3. CASE k = Len(p)
  BY <1>2, <1>3 DEF T!Content
<1>4. CASE k # Len(p)
  <2>1. k \in 1 .. Len(p) - 1
    BY <1>1, <1>4
  <2>2. d[Upto(p, k)] = "dir"
    BY <1>2, <2>1, AllAboveAreDirs
  <2> QED BY <1>2, <2>2 DEF T!Content
<1> QED BY <1>3, <1>4

(* A file that is on the way was there at first.                             *)
LEMMA BlockedAtFirst ==
  ASSUME OnlyRemoved, NEW p \in T!Path, T!Blocked(tree, T!Named(tree, p))
  PROVE  T!Blocked(orig, T!Named(orig, p))
<1> USE DEF OnlyRemoved
<1> DEFINE q == T!Named(tree, p)
<1>1. PICK k \in 1 .. Len(q) - 1 : tree[Upto(q, k)] \in T!Content
  BY DEF T!Blocked, Upto
<1>2. q \in T!Path
  BY NamedIs
<1>3. k \in 1 .. Len(q) /\ Upto(q, k) \in T!Path
  <2>1. k \in 1 .. Len(q)
    BY <1>2, PathFacts
  <2> QED BY <1>2, <2>1, UptoFacts
<1>4. orig[Upto(q, k)] \in T!Content /\ tree[Upto(q, k)] # "none"
  BY <1>1, <1>3 DEF Less, T!Content
<1>5. q = T!Named(orig, p)
  <2>1. CASE \E j \in 1 .. Len(p) - 1 : LinkAt(tree, p, j)
    <3>1. PICK j \in 1 .. Len(p) - 1 : LinkAt(tree, p, j)
      BY <2>1
    <3>2. j \in 1 .. Len(p) /\ tree[Upto(p, j)] = "link"
      BY <3>1 DEF LinkAt
    <3>3. Upto(p, j) \in T!Path
      BY <3>2, UptoFacts
    <3>4. LinkAt(orig, p, j)
      BY <3>2, <3>3 DEF LinkAt, Less
    <3> QED BY <3>1, <3>4, NamedIs
  <2>2. CASE \A j \in 1 .. Len(p) - 1 : ~LinkAt(tree, p, j)
    <3>1. q = p
      BY <2>2, NamedIs
    <3>2. ASSUME NEW j \in 1 .. Len(p) - 1, LinkAt(orig, p, j) PROVE FALSE
      <4>1. j \in 1 .. Len(p) /\ orig[Upto(p, j)] = "link" /\ Len(p) \in Nat
        BY <3>2, PathFacts DEF LinkAt
      <4>2. k \in 1 .. Len(p) /\ orig[Upto(p, k)] \in T!Content
        BY <1>3, <1>4, <3>1
      <4>3. CASE k < j
        <5>1. k \in 1 .. j - 1
          BY <4>1, <4>2, <4>3
        <5>2. orig[Upto(p, k)] = "dir"
          BY <4>1, <5>1, AllAboveAreDirs
        <5> QED BY <4>2, <5>2 DEF T!Content
      <4>4. CASE j < k
        <5>1. j \in 1 .. k - 1 /\ orig[Upto(p, k)] # "none"
          BY <4>1, <4>2, <4>4 DEF T!Content
        <5>2. orig[Upto(p, j)] = "dir"
          BY <4>2, <5>1, AllAboveAreDirs
        <5> QED BY <4>1, <5>2
      <4>5. CASE j = k
        BY <4>1, <4>2, <4>5 DEF T!Content
      <4> QED BY <4>1, <4>2, <4>3, <4>4, <4>5
    <3> QED BY <3>1, <3>2, NamedIs
  <2> QED BY <2>1, <2>2
<1> QED BY <1>1, <1>4, <1>5 DEF T!Blocked, Upto

(* A file or a link stays because it is fixed, if no file is on the way.     *)
LEMMA Unremoved ==
  ASSUME OnlyRemoved, NEW t, NEW p \in T!Path, T!IsPrefix(job[t].path, p),
         p = job[t].path \/ ~T!Blocked(orig, T!Named(orig, p)),
         T!Kind(p) # "dir", T!RemoveFails(T!Itself(p))
  PROVE  Reason(t)
<1> USE DEF OnlyRemoved
<1> DEFINE q == T!Named(tree, p)
<1>0. CASE T!Blocked(tree, q)
  BY <1>0, BlockedAtFirst DEF Reason
<1> SUFFICES ASSUME ~T!Blocked(tree, q) PROVE Reason(t)
  BY <1>0
<1>1. q = T!Itself(p) /\ q \in T!Path
  BY NamedIs DEF T!Itself
<1>2. tree[q] # "none" /\ (q \in fixed \/ T!Full(q))
  BY <1>1 DEF T!RemoveFails
<1>3. q = T!Named(orig, p)
  BY <1>2, NamedStays
<1>4. CASE q \in fixed
  BY <1>2, <1>3, <1>4 DEF Reason
<1>5. CASE T!Full(q)
  <2>1. tree[q] = "dir"
    BY <1>1, <1>5, FullIsDir
  <2>2. T!Kind(p) = "dir"
    BY <2>1, LeadsOfNamed DEF T!Kind, T!Resolve
  <2> QED BY <2>2
<1> QED BY <1>2, <1>4, <1>5

(* A directory all of whose entries were looked at stays for a reason.       *)
LEMMA Unemptied ==
  ASSUME OnlyRemoved, NEW t, NEW p \in T!Path, T!IsPrefix(job[t].path, p),
         orig[T!Leads(orig, p)] = "dir", Covered(t, p, {}, <<>>),
         T!RmdirFails(T!Itself(p))
  PROVE  Reason(t)
<1> USE DEF OnlyRemoved
<1> DEFINE q == T!Named(tree, p)
<1>0. ~T!Blocked(tree, q)
  <2>1. orig[T!Named(orig, p)] # "none" /\ T!Named(orig, p) \in T!Path
    <3>1. CASE orig[T!Named(orig, p)] = "link"
      BY <3>1, NamedIs
    <3>2. CASE orig[T!Named(orig, p)] # "link"
      BY <3>2, LeadsOfNamed, NamedIs
    <3> QED BY <3>1, <3>2
  <2> QED BY <2>1, NotBlocked, BlockedAtFirst
<1>1. q = T!Itself(p) /\ q \in T!Path
  BY NamedIs DEF T!Itself
<1>2. /\ tree[q] # "none"
      /\ q \in fixed \/ T!Full(q) \/ tree[q] \in T!Content \cup {"link"}
  BY <1>0, <1>1 DEF T!RmdirFails, T!RemoveFails, T!Content
<1>3. q = T!Named(orig, p) /\ tree[q] = orig[q]
  BY <1>2, NamedStays
<1>4. CASE q \in fixed
  BY <1>2, <1>3, <1>4 DEF Reason
<1>5. CASE T!Full(q)
  <2>1. tree[q] = "dir"
    BY <1>1, <1>5, FullIsDir
  <2>2. T!Leads(tree, p) = q /\ T!Leads(orig, p) = q
    BY <1>3, <2>1, LeadsOfNamed
  <2>3. Intact(p)
    BY <2>1, <2>2, ReachedIntact
  <2>4. PICK n \in Name : Append(q, n) \in T!Path /\ tree[Append(q, n)] # "none"
    BY <1>5 DEF T!Full, Sound
  <2>5. Append(p, n) # <<>>
    BY PathFacts
  <2> QED BY <2>2, <2>3, <2>4, <2>5 DEF Covered
<1>6. CASE tree[q] = "link"
  <2>1. orig[q] = "link" /\ T!Leads(orig, p) = Target
    BY <1>3, <1>6, LeadsOfNamed
  <2> QED BY <1>3, <2>1 DEF Reason
<1>7. CASE tree[q] \in T!Content
  <2>1. orig[q] # "link" /\ orig[q] # "dir"
    BY <1>3, <1>7 DEF T!Content
  <2> QED BY <1>3, <2>1, LeadsOfNamed
<1> QED BY <1>2, <1>4, <1>5, <1>6, <1>7

(* A directory that is opened: all that is in it is to be looked at.         *)
LEMMA OpenedCovered ==
  ASSUME OnlyRemoved, NEW t, NEW p \in T!Path
  PROVE  /\ T!Entries(p) \subseteq Name
         /\ \A n \in T!Entries(p) : Append(p, n) \in T!Path
         /\ Covered(t, p, T!Entries(p), <<>>)
<1> USE DEF OnlyRemoved
<1>1. DOMAIN tree = T!Path
  BY DEF Sound
<1>2. ASSUME Intact(p), NEW n \in Name, Append(T!Leads(orig, p), n) \in T!Path,
             tree[Append(T!Leads(orig, p), n)] # "none"
      PROVE  n \in T!Entries(p)
  <2> DEFINE x == Append(T!Leads(orig, p), n)
  <2>1. Append(p, n) \in T!Path
    <3>1. CASE \E k \in 1 .. Len(p) : LinkAt(orig, p, k)
      <4>1. PICK k \in 1 .. Len(p) : LinkAt(orig, p, k)
        BY <3>1
      <4>2. /\ T!Leads(orig, p) = Via(p, k)
            /\ Via(p, k) \in T!Path /\ Len(Via(p, k)) = Len(p) - k + 1
            /\ Via(p, k)[1] = Home
        BY <4>1, LeadsIs, OneLink
      <4>3. Len(x) = Len(p) - k + 2 /\ x[1] = Home
        <5>1. Len(x) = Len(Via(p, k)) + 1 /\ x[1] = Home
          BY <1>2, <4>2, EntryFacts
        <5> QED BY <4>1, <4>2, <5>1, PathFacts
      <4>4. orig[x] # "none"
        BY <1>2 DEF Less
      <4>5. Len(x) <= 2
        <5>1. x # T!Deep
          <6>1. T!Deep[1] = T!Other
            BY DEF T!Deep
          <6> QED BY <4>3, <6>1, OtherIs
        <5> QED BY <1>2, <4>4, <5>1 DEF Shallow
      <4>6. k = Len(p)
        BY <4>1, <4>3, <4>5, PathFacts
      <4>7. orig[p] = "link" /\ p[1] # Home
        <5>1. Upto(p, Len(p)) = p
          BY <4>1, UptoFacts
        <5> QED BY <4>1, <4>6, <5>1, OneLink DEF LinkAt
      <4>8. Len(p) <= 2
        BY <4>7 DEF Shallow
      <4>9. /\ Append(p, n) \in Seq(Name) /\ Len(Append(p, n)) = Len(p) + 1
            /\ Len(p) \in Nat
        BY PathFacts, AppendProperties
      <4>10. Len(Append(p, n)) \in Nat /\ 1 <= Len(Append(p, n))
             /\ Len(Append(p, n)) <= 3
        BY <4>8, <4>9
      <4> QED BY <4>9, <4>10, ShortPath
    <3>2. CASE \A k \in 1 .. Len(p) : ~LinkAt(orig, p, k)
      BY <1>2, <3>2, LeadsIs
    <3> QED BY <3>1, <3>2
  <2>2. T!Named(tree, Append(p, n)) = x
    BY <1>2, <2>1, NamedEntry, IntactLeads
  <2> QED BY <1>1, <1>2, <2>1, <2>2 DEF T!Entries, T!Itself
<1> QED BY <1>1, <1>2 DEF T!Entries, Covered

(* Nothing is forgotten when others remove ...                               *)
LEMMA CoveredStays ==
  ASSUME OnlyRemoved, Removing, NEW t, NEW p \in T!Path, NEW left, NEW inside,
         Covered(t, p, left, inside)
  PROVE  Covered(t, p, left, inside)'
<1> USE DEF OnlyRemoved
<1>1. Intact(p)' => Intact(p)
  BY RemovingKeeps
<1>2. Reason(t) => Reason(t)'
  BY RemovingKeeps
<1> QED BY <1>1, <1>2 DEF Covered, Removing, Less

(* ... nor when an entry was removed, or there was a reason not to.          *)
LEMMA EntryDealtWith ==
  ASSUME OnlyRemoved, Removing, NEW t, NEW p \in T!Path, NEW left, NEW inside,
         Covered(t, p, left, inside),
         NEW n \in Name, Append(p, n) \in T!Path,
         inside \in {<<>>, Append(p, n)},
         tree'[T!Itself(Append(p, n))] = "none" \/ Reason(t)
  PROVE  Covered(t, p, left \ {n}, <<>>)'
<1> USE DEF OnlyRemoved
<1>1. Intact(p)' => Intact(p)
  BY RemovingKeeps
<1>2. Reason(t) => Reason(t)'
  BY RemovingKeeps
<1> SUFFICES ASSUME Intact(p), ~Reason(t), NEW m \in Name,
                    Append(T!Leads(orig, p), m) \in T!Path,
                    tree'[Append(T!Leads(orig, p), m)] # "none"
             PROVE  m \in left /\ m # n
  BY <1>1, <1>2 DEF Covered, Removing
<1>3. m # n
  <2>1. T!Itself(Append(p, n)) = Append(T!Leads(orig, p), n)
    BY NamedEntry, IntactLeads DEF T!Itself
  <2> QED BY <2>1
<1>4. Append(p, m) # inside
  <2>1. p \in Seq(Name)
    BY PathFacts
  <2> QED BY <1>3, <2>1, AppendProperties
<1>5. tree[Append(T!Leads(orig, p), m)] # "none"
  BY DEF Removing, Less
<1> QED BY <1>3, <1>4, <1>5 DEF Covered

(* An entry of what is below a path is below that path.                      *)
LEMMA PrefixOfEntry ==
  ASSUME NEW c \in T!Path, NEW p \in T!Path, NEW n \in Name,
         Append(p, n) \in T!Path, T!IsPrefix(c, p)
  PROVE  T!IsPrefix(c, Append(p, n))
<1>1. Len(c) <= Len(p) /\ Upto(c, Len(c)) = Upto(p, Len(c))
  BY DEF T!IsPrefix, Upto
<1>2. Len(c) \in Nat /\ 1 <= Len(c) /\ Len(p) \in Nat
  BY PathFacts
<1>3. /\ Upto(Append(p, n), Len(c)) = Upto(p, Len(c))
      /\ Len(Append(p, n)) = Len(p) + 1
  <2>1. Len(c) \in 1 .. Len(p)
    BY <1>1, <1>2
  <2> QED BY <2>1, EntryFacts
<1> QED BY <1>1, <1>2, <1>3 DEF T!IsPrefix, Upto

-----------------------------------------------------------------------------
(* Trees: the directories that a thread has open                             *)

(* A sequence whose last element is replaced, or followed by another.        *)
LEMMA StackFacts ==
  ASSUME NEW Elt, NEW s \in Seq(Elt), s # <<>>
  PROVE  /\ Len(s) \in Nat /\ Len(s) \in 1 .. Len(s) /\ 1 \in 1 .. Len(s)
         /\ T!Last(s) = s[Len(s)] /\ s[Len(s)] \in Elt
         /\ T!Front(s) \in Seq(Elt) /\ Len(T!Front(s)) = Len(s) - 1
         /\ \A i \in 1 .. Len(s) - 1 : i \in 1 .. Len(s) /\ T!Front(s)[i] = s[i]
         /\ T!Front(s) = <<>> <=> Len(s) = 1
<1>1. Len(s) \in Nat /\ Len(s) # 0
  BY EmptySeq
<1>2. /\ T!Front(s) \in Seq(Elt) /\ Len(T!Front(s)) = Len(s) - 1
      /\ \A i \in 1 .. Len(s) - 1 : T!Front(s)[i] = s[i]
  <2> DEFINE m == Len(s) - 1
  <2>1. m \in Nat /\ 1 \in Int
    BY <1>1
  <2>2. \A i \in 1 .. m : s[i] \in Elt
    BY <1>1, ElementOfSeq
  <2>3. T!Front(s) = SubSeq(s, 1, m)
    BY DEF T!Front
  <2> HIDE DEF m
  <2>4. /\ SubSeq(s, 1, m) \in Seq(Elt)
        /\ Len(SubSeq(s, 1, m)) = IF 1 <= m THEN m - 1 + 1 ELSE 0
        /\ \A i \in 1 .. m - 1 + 1 : SubSeq(s, 1, m)[i] = s[1 + i - 1]
    BY <2>1, <2>2, SubSeqProperties
  <2>5. /\ SubSeq(s, 1, m) \in Seq(Elt)
        /\ Len(SubSeq(s, 1, m)) = m
        /\ \A i \in 1 .. m : SubSeq(s, 1, m)[i] = s[i]
    BY <2>1, <2>4
  <2> QED BY <2>3, <2>5 DEF m
<1> QED BY <1>1, <1>2, EmptySeq, ElementOfSeq DEF T!Last

(* A stack whose last element is another.                                    *)
LEMMA SwapFacts ==
  ASSUME NEW Elt, NEW s \in Seq(Elt), s # <<>>, NEW r \in Elt
  PROVE  /\ Append(T!Front(s), r) \in Seq(Elt)
         /\ Len(Append(T!Front(s), r)) = Len(s)
         /\ \A i \in 1 .. Len(s) - 1 : Append(T!Front(s), r)[i] = s[i]
         /\ Append(T!Front(s), r)[Len(s)] = r
<1>1. Len(s) \in Nat /\ Len(s) \in 1 .. Len(s)
  BY StackFacts
<1>2. /\ T!Front(s) \in Seq(Elt) /\ Len(T!Front(s)) = Len(s) - 1
      /\ \A i \in 1 .. Len(s) - 1 : T!Front(s)[i] = s[i]
  BY StackFacts
<1> QED BY <1>1, <1>2, AppendProperties

Level == [path : T!Path, left : SUBSET Name]
Inside(s, i) == IF i = Len(s) THEN <<>> ELSE s[i + 1].path

LevelOK(t, l, inside) ==
  /\ l \in Level /\ T!IsPrefix(job[t].path, l.path)
  /\ orig[T!Leads(orig, l.path)] = "dir"
  /\ \A n \in l.left : Append(l.path, n) \in T!Path
  /\ inside # <<>> => \E n \in Name : inside = Append(l.path, n)
  /\ Covered(t, l.path, l.left, inside)

StackOK(t) ==
  /\ open[t] \in Seq(Level)
  /\ open[t] # <<>> => open[t][1].path = job[t].path
  /\ \A i \in 1 .. Len(open[t]) :
       \A l \in {open[t][i]}, inside \in {Inside(open[t], i)} : LevelOK(t, l, inside)

(* What is known of an open directory lasts while others remove.             *)
LEMMA LevelStays ==
  ASSUME OnlyRemoved, Removing, NEW t, NEW l, NEW inside, LevelOK(t, l, inside)
  PROVE  LevelOK(t, l, inside)'
<1>1. l \in Level /\ l.path \in T!Path /\ Covered(t, l.path, l.left, inside)
  BY DEF LevelOK, Level
<1>2. Covered(t, l.path, l.left, inside)'
  BY <1>1, CoveredStays
<1> QED BY <1>2 DEF LevelOK, Removing

(* A directory just opened has everything in it yet to be looked at.         *)
LEMMA LevelOpened ==
  ASSUME OnlyRemoved, UNCHANGED <<tree, fixed, job, orig>>, NEW t,
         NEW p \in T!Path, T!IsPrefix(job[t].path, p), T!Kind(p) = "dir"
  PROVE  \A l : l = T!Directory(p) => LevelOK(t, l, <<>>)'
<1> DEFINE l == [path |-> p, left |-> T!Entries(p)]
<1>1. T!Entries(p) \subseteq Name /\ \A n \in T!Entries(p) : Append(p, n) \in T!Path
  BY OpenedCovered
<1>2. Covered(t, p, T!Entries(p), <<>>)
  BY OpenedCovered
<1>3. orig[T!Leads(orig, p)] = "dir"
  BY LeadsStays DEF T!Kind, T!Resolve, OnlyRemoved
<1>4. l \in Level /\ l.path = p /\ l.left = T!Entries(p) /\ l = T!Directory(p)
  BY <1>1 DEF Level, T!Directory
<1> HIDE DEF l
<1>5. LevelOK(t, l, <<>>)
  BY <1>1, <1>2, <1>3, <1>4 DEF LevelOK
<1> QED BY <1>4, <1>5 DEF LevelOK, Covered, Intact, Reason

(* What is known of the open directories lasts while others remove.          *)
LEMMA StackStays ==
  ASSUME OnlyRemoved, Removing, NEW t, StackOK(t), open'[t] = open[t]
  PROVE  StackOK(t)'
<1>1. job' = job
  BY DEF Removing
<1>2. ASSUME NEW l, NEW inside, LevelOK(t, l, inside) PROVE LevelOK(t, l, inside)'
  BY <1>2, LevelStays
<1> QED BY <1>1, <1>2 DEF StackOK, Inside

(* An entry is gone into.                                                    *)
LEMMA LevelEntered ==
  ASSUME OnlyRemoved, UNCHANGED <<tree, fixed, job, orig>>, NEW t, NEW l,
         LevelOK(t, l, <<>>), NEW n \in l.left
  PROVE  \A r, inside :
           /\ r = [l EXCEPT !.left = @ \ {n}]
           /\ inside = Append(l.path, n)
           => LevelOK(t, r, inside)'
<1> SUFFICES ASSUME NEW r, NEW inside, r = [l EXCEPT !.left = @ \ {n}],
                    inside = Append(l.path, n)
             PROVE  LevelOK(t, r, inside)'
  OBVIOUS
<1>1. l \in Level /\ Covered(t, l.path, l.left, <<>>)
  BY DEF LevelOK
<1>2. /\ r \in Level /\ r.path = l.path /\ r.left = l.left \ {n}
      /\ n \in Name /\ l.path \in T!Path
  BY <1>1 DEF Level
<1>3. ASSUME NEW m \in Name PROVE Append(l.path, m) # <<>>
  BY <1>2, PathFacts
<1>4. Covered(t, r.path, r.left, inside)
  BY <1>1, <1>2, <1>3 DEF Covered
<1>5. LevelOK(t, r, inside)
  BY <1>2, <1>4 DEF LevelOK
<1> QED BY <1>5 DEF LevelOK, Covered, Intact, Reason

(* An entry was removed, or could not be.                                    *)
LEMMA LevelDealtWith ==
  ASSUME OnlyRemoved, Removing, NEW t, NEW l, NEW inside, LevelOK(t, l, inside),
         NEW n \in Name, Append(l.path, n) \in T!Path,
         inside \in {<<>>, Append(l.path, n)},
         tree'[T!Itself(Append(l.path, n))] = "none" \/ Reason(t),
         NEW r \in Level, r.path = l.path, l.left \ {n} \subseteq r.left,
         r.left \subseteq l.left
  PROVE  LevelOK(t, r, <<>>)'
<1>1. l.path \in T!Path /\ Covered(t, l.path, l.left, inside)
  BY DEF LevelOK, Level
<1>2. Covered(t, l.path, l.left \ {n}, <<>>)'
  BY <1>1, EntryDealtWith
<1>3. Covered(t, r.path, r.left, <<>>)'
  BY <1>2 DEF Covered
<1> QED BY <1>3 DEF LevelOK, Removing

(* What is known of the innermost open directory, and its entries.           *)
LEMMA TopFacts ==
  ASSUME NEW t \in Thread, job[t].path \in T!Path, StackOK(t), open[t] # <<>>
  PROVE  /\ LevelOK(t, T!Top(t), <<>>) /\ T!Top(t) = open[t][Len(open[t])]
         /\ T!Top(t) \in Level /\ T!Top(t).path \in T!Path
         /\ T!IsPrefix(job[t].path, T!Top(t).path)
         /\ \A n \in T!Top(t).left :
              /\ n \in Name /\ Append(T!Top(t).path, n) \in T!Path
              /\ T!IsPrefix(job[t].path, Append(T!Top(t).path, n))
<1> DEFINE s == open[t]
<1>1. s \in Seq(Level)
  BY DEF StackOK
<1>2. Len(s) \in 1 .. Len(s) /\ T!Top(t) = s[Len(s)]
  BY <1>1, StackFacts DEF T!Top
<1>3. Inside(s, Len(s)) = <<>>
  BY DEF Inside
<1>4. LevelOK(t, s[Len(s)], <<>>)
  BY <1>2, <1>3 DEF StackOK
<1> HIDE DEF s
<1>5. /\ s[Len(s)] \in Level /\ s[Len(s)].path \in T!Path
      /\ T!IsPrefix(job[t].path, s[Len(s)].path)
      /\ s[Len(s)].left \subseteq Name
      /\ \A n \in s[Len(s)].left : Append(s[Len(s)].path, n) \in T!Path
  BY <1>4 DEF LevelOK, Level
<1> QED BY <1>2, <1>4, <1>5, PrefixOfEntry DEF s

Stacks == open \in [Thread -> Seq(Level)]

(* The levels below the innermost are what they were.                        *)
LEMMA OuterLevelsStay ==
  ASSUME OnlyRemoved, Removing, NEW t \in Thread, StackOK(t), open[t] # <<>>,
         NEW i \in 1 .. Len(open[t]) - 1
  PROVE  \A l, inside : l = open[t][i] /\ inside = open[t][i + 1].path
                           => LevelOK(t, l, inside)'
<1>1. open[t] \in Seq(Level)
  BY DEF StackOK
<1>2. i \in 1 .. Len(open[t]) /\ i # Len(open[t])
  BY <1>1, StackFacts
<1>3. Inside(open[t], i) = open[t][i + 1].path
  BY <1>2 DEF Inside
<1>4. LevelOK(t, open[t][i], open[t][i + 1].path)
  BY <1>2, <1>3 DEF StackOK
<1>5. \A l, inside : LevelOK(t, l, inside) => LevelOK(t, l, inside)'
  BY LevelStays
<1> QED BY <1>4, <1>5

(* DeleteEntry on what is no directory.                                      *)
LEMMA EntryRemovedKeeps ==
  ASSUME OnlyRemoved, Removing, Stacks, NEW t \in Thread,
         job[t].path \in T!Path, StackOK(t), open[t] # <<>>,
         NEW n \in T!Top(t).left,
         \/ tree'[T!Itself(Append(T!Top(t).path, n))] = "none"
         \/ Reason(t),
         open' = [open EXCEPT ![t] =
                    Append(T!Rest(t), [T!Top(t) EXCEPT !.left = @ \ {n}])]
  PROVE  StackOK(t)'
<1> DEFINE s == open[t]
           L == Len(s)
           top == T!Top(t)
           r == [top EXCEPT !.left = @ \ {n}]
           z == Append(T!Front(s), r)
<1>1. s \in Seq(Level) /\ s # <<>> /\ open'[t] = z
  BY DEF Stacks, StackOK, T!Rest
<1>2. /\ LevelOK(t, top, <<>>) /\ top = s[L] /\ top \in Level
      /\ n \in Name /\ Append(top.path, n) \in T!Path
  BY TopFacts
<1>3. r \in Level /\ r.path = top.path /\ r.left = top.left \ {n}
  BY <1>2 DEF Level
<1>4. \/ tree'[T!Itself(Append(top.path, n))] = "none"
      \/ Reason(t)
  OBVIOUS
<1> HIDE DEF top, r
<1>5. \A l, inside : l = r /\ inside = <<>> => LevelOK(t, l, inside)'
  BY <1>2, <1>3, <1>4, LevelDealtWith
<1>6. /\ z \in Seq(Level) /\ Len(z) = L /\ z[L] = r
      /\ \A i \in 1 .. L - 1 : z[i] = s[i]
  BY <1>1, <1>3, SwapFacts
<1>7. L \in Nat /\ L >= 1
  BY <1>1, StackFacts
<1> HIDE DEF L, z
<1>8. z[1].path = s[1].path
  BY <1>2, <1>3, <1>6, <1>7
<1>9. ASSUME NEW i \in 1 .. L, NEW l, NEW inside, l = z[i], inside = Inside(z, i)
      PROVE  LevelOK(t, l, inside)'
  <2>1. CASE i = L
    <3>1. l = r /\ inside = <<>>
      BY <1>6, <1>9, <2>1 DEF Inside
    <3> QED BY <1>5, <3>1
  <2>2. CASE i # L
    <3>1. i \in 1 .. L - 1 /\ i \in 1 .. Len(s) - 1
      BY <1>7, <2>2 DEF L
    <3>2. l = s[i] /\ inside = s[i + 1].path
      <4>1. i + 1 \in 1 .. L /\ (i + 1 # L => i + 1 \in 1 .. L - 1)
        BY <1>7, <3>1
      <4>2. z[i + 1].path = s[i + 1].path
        BY <1>2, <1>3, <1>6, <4>1
      <4> QED BY <1>6, <1>9, <2>2, <3>1, <4>2 DEF Inside
    <3> QED BY <3>1, <3>2, OuterLevelsStay
  <2> QED BY <2>1, <2>2
<1>10. s[1].path = job[t].path /\ job' = job
  BY <1>1 DEF StackOK, Removing
<1> QED BY <1>1, <1>6, <1>8, <1>9, <1>10 DEF StackOK

(* DeleteEntry on a directory.                                               *)
LEMMA EntryOpenedKeeps ==
  ASSUME OnlyRemoved, UNCHANGED <<tree, fixed, dry, job, orig>>, Stacks,
         NEW t \in Thread, job[t].path \in T!Path, StackOK(t), open[t] # <<>>,
         NEW n \in T!Top(t).left, T!Kind(Append(T!Top(t).path, n)) = "dir",
         open' = [open EXCEPT ![t] =
                    Append(Append(T!Rest(t), [T!Top(t) EXCEPT !.left = @ \ {n}]),
                           T!Directory(Append(T!Top(t).path, n)))]
  PROVE  StackOK(t)'
<1> DEFINE s == open[t]
           L == Len(s)
           top == T!Top(t)
           r == [top EXCEPT !.left = @ \ {n}]
           p == Append(top.path, n)
           y == Append(T!Front(s), r)
           z == Append(y, T!Directory(p))
<1>0. Removing
  BY DEF Removing, OnlyRemoved, Less
<1>1. s \in Seq(Level) /\ s # <<>> /\ open'[t] = z
  BY DEF Stacks, StackOK, T!Rest
<1>2. /\ LevelOK(t, top, <<>>) /\ top = s[L] /\ top \in Level
      /\ n \in Name /\ p \in T!Path /\ T!IsPrefix(job[t].path, p)
  BY TopFacts
<1>3. r \in Level /\ r.path = top.path /\ r.left = top.left \ {n}
  BY <1>2 DEF Level
<1>4. n \in top.left /\ T!Kind(p) = "dir" /\ r = [top EXCEPT !.left = @ \ {n}]
      /\ p = Append(top.path, n)
  OBVIOUS
<1> HIDE DEF top, r, p
<1>5. \A l, inside : l = r /\ inside = p => LevelOK(t, l, inside)'
  BY <1>2, <1>4, LevelEntered
<1>6. \A l, inside : l = T!Directory(p) /\ inside = <<>> => LevelOK(t, l, inside)'
  BY <1>2, <1>4, LevelOpened
<1>7. /\ y \in Seq(Level) /\ Len(y) = L /\ y[L] = r
      /\ \A i \in 1 .. L - 1 : y[i] = s[i]
  BY <1>1, <1>3, SwapFacts
<1>8. L \in Nat /\ L >= 1
  BY <1>1, StackFacts
<1>9. T!Directory(p) \in Level /\ T!Directory(p).path = p
  BY <1>2, OpenedCovered DEF Level, T!Directory
<1> HIDE DEF L, y
<1>10. /\ z \in Seq(Level) /\ Len(z) = L + 1 /\ z[L + 1] = T!Directory(p) /\ z[L] = r
       /\ \A i \in 1 .. L - 1 : z[i] = s[i]
  BY <1>7, <1>8, <1>9, AppendProperties
<1> HIDE DEF z
<1>11. z[1].path = s[1].path
  BY <1>2, <1>3, <1>8, <1>10
<1>12. ASSUME NEW i \in 1 .. L + 1, NEW l, NEW inside, l = z[i], inside = Inside(z, i)
      PROVE  LevelOK(t, l, inside)'
  <2>1. CASE i = L + 1
    <3>1. l = T!Directory(p) /\ inside = <<>>
      BY <1>10, <1>12, <2>1 DEF Inside
    <3> QED BY <1>6, <3>1
  <2>2. CASE i = L
    <3>1. l = r /\ inside = p
      BY <1>8, <1>9, <1>10, <1>12, <2>2 DEF Inside
    <3> QED BY <1>5, <3>1
  <2>3. CASE i # L /\ i # L + 1
    <3>1. i \in 1 .. L - 1 /\ i \in 1 .. Len(s) - 1
      BY <1>8, <2>3 DEF L
    <3>2. l = s[i] /\ inside = s[i + 1].path
      <4>1. i + 1 \in 1 .. L /\ (i + 1 # L => i + 1 \in 1 .. L - 1)
        BY <1>8, <3>1
      <4>2. z[i + 1].path = s[i + 1].path
        BY <1>2, <1>3, <1>10, <4>1
      <4> QED BY <1>10, <1>12, <2>3, <3>1, <4>2 DEF Inside
    <3> QED BY <1>0, <1>1, <3>1, <3>2, OuterLevelsStay
  <2> QED BY <2>1, <2>2, <2>3
<1>13. s[1].path = job[t].path /\ job' = job
  BY <1>1 DEF StackOK
<1> QED BY <1>1, <1>10, <1>11, <1>12, <1>13 DEF StackOK

(* The innermost directory was removed, or could not be: in the one around   *)
(* it the entry is dealt with.                                               *)
LEMMA EmptiedKeeps ==
  ASSUME OnlyRemoved, Removing, Stacks, NEW t \in Thread,
         job[t].path \in T!Path, StackOK(t), open[t] # <<>>,
         tree'[T!Itself(T!Top(t).path)] = "none" \/ Reason(t),
         open' = [open EXCEPT ![t] = T!Rest(t)]
  PROVE  StackOK(t)'
<1> DEFINE s == open[t]
           L == Len(s)
           z == T!Front(s)
<1>1. s \in Seq(Level) /\ s # <<>> /\ open'[t] = z
  BY DEF Stacks, StackOK, T!Rest
<1>2. /\ z \in Seq(Level) /\ Len(z) = L - 1 /\ L \in Nat /\ L >= 1
      /\ \A i \in 1 .. L - 1 : i \in 1 .. L /\ z[i] = s[i]
      /\ z = <<>> <=> L = 1
  BY <1>1, StackFacts
<1>3. T!Top(t) = s[L]
  BY DEF T!Top, T!Last
<1>4. \A l, inside : \A i \in 1 .. L :
          l = s[i] /\ inside = Inside(s, i) => LevelOK(t, l, inside)
  BY DEF StackOK
<1>5. ASSUME NEW i \in 1 .. L - 1, NEW l, NEW inside, l = z[i], inside = Inside(z, i)
      PROVE  LevelOK(t, l, inside)'
  <2>1. l = s[i] /\ i \in 1 .. L /\ i \in 1 .. Len(s) - 1
    BY <1>2, <1>5
  <2>2. Inside(s, i) = s[i + 1].path
    BY <1>2, <2>1 DEF Inside
  <2>3. CASE i = L - 1
    <3> DEFINE p == s[L].path
    <3>1. inside = <<>> /\ Inside(s, i) = p /\ p = T!Top(t).path
      BY <1>2, <1>3, <1>5, <2>2, <2>3 DEF Inside
    <3> HIDE DEF p
    <3>2. LevelOK(t, l, p)
      BY <1>4, <2>1, <3>1
    <3>3. p \in T!Path
      BY <3>1, <1>1, TopFacts
    <3>4. p # <<>>
      BY <3>3, PathFacts, EmptySeq
    <3>5. PICK n \in Name : p = Append(l.path, n)
      BY <3>2, <3>4 DEF LevelOK
    <3>6. l \in Level /\ l.left \ {n} \subseteq l.left
      BY <3>2 DEF LevelOK
    <3>7. tree'[T!Itself(Append(l.path, n))] = "none" \/ Reason(t)
      BY <3>1, <3>5
    <3>8. LevelOK(t, l, <<>>)'
      BY <3>2, <3>3, <3>5, <3>6, <3>7, LevelDealtWith
    <3> QED BY <3>1, <3>8
  <2>4. CASE i # L - 1
    <3>1. inside = s[i + 1].path
      <4>1. i + 1 \in 1 .. L - 1
        BY <1>2, <2>4
      <4> QED BY <1>2, <1>5, <2>4, <4>1 DEF Inside
    <3> QED BY <1>1, <2>1, <3>1, OuterLevelsStay
  <2> QED BY <2>3, <2>4
<1>6. s[1].path = job[t].path /\ job' = job
  BY <1>1 DEF StackOK, Removing
<1>7. z # <<>> => z[1].path = s[1].path
  BY <1>2
<1> HIDE DEF z
<1> QED BY <1>1, <1>2, <1>5, <1>6, <1>7 DEF StackOK

-----------------------------------------------------------------------------
(* Trees: what holds while threads delete                                    *)

ThreadOK(t) ==
  /\ StackOK(t)
  /\ open[t] # <<>> => T!Op(t) = "delete tree" /\ result[t] = "busy" /\ ~dry
  /\ ~dry /\ result[t] = "0" => tree[T!Itself(job[t].path)] = "none"
  /\ T!Op(t) = "delete tree" /\ result[t] = "1" => Reason(t)

Reachable(q) ==
  \E t \in Thread : \E p \in T!Path :
    T!IsPrefix(job[t].path, p) /\ q = T!Named(orig, p)

DeletingInv ==
  /\ dry \in BOOLEAN /\ job \in [Thread -> T!Deletions] /\ Stacks
  /\ result \in [Thread -> {"none", "busy", "0", "1"}]
  /\ OnlyRemoved
  /\ dry => tree = orig
  /\ \A q \in T!Path : tree[q] # orig[q] => Reachable(q)
  /\ \A t \in Thread : ThreadOK(t)

(* What a deletion is called for.                                            *)
LEMMA JobPath ==
  ASSUME NEW t \in Thread, job \in [Thread -> T!Deletions]
  PROVE  /\ job[t].path \in T!Path
         /\ T!IsPrefix(job[t].path, job[t].path)
         /\ T!Op(t) \in {"delete file", "delete dir", "delete tree"}
<1>1. job[t].path \in {<<T!Other>>, <<T!Other, T!Other>>}
  BY DEF T!Deletions
<1> DEFINE o == T!Other
<1>2. \A p \in {<<o>>, <<o, o>>} :
        p \in Seq(Name) /\ Len(p) \in Nat /\ 1 <= Len(p) /\ Len(p) <= 3
  <2>1. o \in Name
    BY OtherIs
  <2> HIDE DEF o
  <2> SUFFICES ASSUME NEW p \in {<<o>>, <<o, o>>}
               PROVE  p \in Seq(Name) /\ Len(p) \in Nat /\ 1 <= Len(p) /\ Len(p) <= 3
    OBVIOUS
  <2>2. CASE p = <<o>>
    <3>1. p \in Seq(Name) /\ Len(p) = 1
      BY <2>1, <2>2
    <3> QED BY <3>1
  <2>3. CASE p = <<o, o>>
    <3>1. p \in Seq(Name) /\ Len(p) = 2
      BY <2>1, <2>3
    <3> QED BY <3>1
  <2> QED BY <2>2, <2>3
<1>3. job[t].path \in T!Path
  BY <1>1, <1>2, ShortPath
<1>4. Len(job[t].path) \in Nat
  BY <1>3, PathFacts
<1>5. T!IsPrefix(job[t].path, job[t].path)
  BY <1>4 DEF T!IsPrefix
<1>6. T!Op(t) \in {"delete file", "delete dir", "delete tree"}
  BY DEF T!Op, T!Deletions
<1> QED BY <1>3, <1>5, <1>6

(* What is gone stays gone.                                                  *)
LEMMA GoneStays ==
  ASSUME OnlyRemoved, Removing, NEW p \in T!Path, tree[T!Named(tree, p)] = "none"
  PROVE  tree'[T!Named(tree', p)] = "none"
BY NamedStays DEF OnlyRemoved, Removing

(* A step of t that keeps what is said of t.                                 *)
LEMMA StepOfOne ==
  ASSUME DeletingInv, Removing, NEW t \in Thread, dry => tree' = tree,
         \A q \in T!Path : tree'[q] # tree[q] =>
           \E p \in T!Path : T!IsPrefix(job[t].path, p) /\ q = T!Named(tree, p),
         Stacks', result' \in [Thread -> {"none", "busy", "0", "1"}],
         \A u \in Thread : u # t => open'[u] = open[u] /\ result'[u] = result[u],
         ThreadOK(t)'
  PROVE  DeletingInv'
<1> USE DEF DeletingInv
<1>0. job' = job /\ dry' = dry /\ orig' = orig /\ fixed' = fixed
  BY DEF Removing
<1>1. OnlyRemoved'
  BY RemovingKeeps
<1>2. ASSUME NEW q \in T!Path, tree'[q] # orig[q] PROVE Reachable(q)'
  <2>1. CASE tree[q] # orig[q]
    BY <1>0, <2>1 DEF Reachable
  <2>2. CASE tree[q] = orig[q]
    <3>1. PICK p \in T!Path : T!IsPrefix(job[t].path, p) /\ q = T!Named(tree, p)
      BY <1>2, <2>2
    <3>2. tree[q] # "none"
      BY <1>2, <2>2 DEF Removing, Less
    <3>3. q = T!Named(orig, p)
      BY <3>1, <3>2, NamedStays DEF OnlyRemoved
    <3> QED BY <1>0, <3>1, <3>3 DEF Reachable
  <2> QED BY <2>1, <2>2
<1>3. ASSUME NEW u \in Thread PROVE ThreadOK(u)'
  <2>1. CASE u = t
    BY <2>1
  <2>2. CASE u # t
    <3>1. ThreadOK(u) /\ open'[u] = open[u] /\ result'[u] = result[u]
      BY <2>2
    <3>2. StackOK(u)'
      BY <3>1, StackStays DEF ThreadOK
    <3>3. Reason(u) => Reason(u)'
      BY RemovingKeeps
    <3>4. tree[T!Itself(job[u].path)] = "none" =>
            tree'[T!Itself(job[u].path)'] = "none"
      BY <1>0, JobPath, GoneStays DEF T!Itself
    <3>5. T!Op(u)' = T!Op(u)
      BY <1>0 DEF T!Op
    <3> QED BY <1>0, <3>1, <3>2, <3>3, <3>4, <3>5 DEF ThreadOK
  <2> QED BY <2>1, <2>2
<1> QED BY <1>0, <1>1, <1>2, <1>3

(* What a path named before a step and is gone after it is gone.             *)
LEMMA GoneNow ==
  ASSUME OnlyRemoved, Removing, NEW p \in T!Path, tree'[T!Named(tree, p)] = "none"
  PROVE  tree'[T!Named(tree', p)] = "none"
BY NamedStays DEF OnlyRemoved, Removing

(* The actions that delete keep the invariant.                               *)
LEMMA PretendKeeps ==
  ASSUME DeletingInv, NEW t \in Thread, T!Pretend(t) PROVE DeletingInv'
<1> USE DEF DeletingInv
<1>1. /\ result[t] = "none" /\ dry
      /\ result' = [result EXCEPT ![t] = "0"] /\ UNCHANGED open
      /\ UNCHANGED <<tree, fixed, dry, job, orig>>
  BY DEF T!Pretend, T!Returns
<1>2. Removing
  BY <1>1 DEF Removing, OnlyRemoved, Less
<1>3. StackOK(t)'
  BY <1>1, <1>2, StackStays DEF ThreadOK
<1>4. ThreadOK(t)'
  BY <1>1, <1>3 DEF ThreadOK
<1>5. \A q \in T!Path : tree'[q] = tree[q]
  BY <1>1
<1> QED BY <1>1, <1>2, <1>4, <1>5, StepOfOne DEF Stacks

LEMMA DeleteTreeKeeps ==
  ASSUME DeletingInv, NEW t \in Thread, T!DeleteTree(t) PROVE DeletingInv'
<1> USE DEF DeletingInv
<1> DEFINE p == job[t].path
<1>1. /\ result[t] = "none" /\ T!Op(t) = "delete tree" /\ ~dry /\ T!Kind(p) = "dir"
      /\ open' = [open EXCEPT ![t] = Append(@, T!Directory(p))]
      /\ result' = [result EXCEPT ![t] = "busy"]
      /\ UNCHANGED <<tree, fixed, dry, job, orig>>
  BY DEF T!DeleteTree, T!Called, T!Opened
<1>2. Removing
  BY <1>1 DEF Removing, OnlyRemoved, Less
<1>3. open[t] = <<>>
  BY <1>1 DEF ThreadOK
<1>4. p \in T!Path /\ T!IsPrefix(job[t].path, p)
  BY JobPath
<1>5. T!Directory(p) \in Level /\ T!Directory(p).path = p
  BY <1>4, OpenedCovered DEF Level, T!Directory
<1>6. \A l : l = T!Directory(p) => LevelOK(t, l, <<>>)'
  BY <1>1, <1>4, LevelOpened
<1>7. open'[t] = <<T!Directory(p)>>
  <2>1. open'[t] = Append(<<>>, T!Directory(p))
    BY <1>1, <1>3 DEF Stacks
  <2> QED BY <1>5, <2>1
<1> DEFINE z == <<T!Directory(p)>>
<1>8. z \in Seq(Level) /\ Len(z) = 1 /\ z[1] = T!Directory(p) /\ z # <<>>
  BY <1>5
<1>9. job' = job /\ p = job[t].path
  BY <1>1
<1> HIDE DEF z, p
<1>10. StackOK(t)'
  <2>1. \A i \in 1 .. Len(z) : i = 1 /\ Inside(z, i) = <<>>
    BY <1>8 DEF Inside
  <2> QED BY <1>5, <1>6, <1>7, <1>8, <1>9, <2>1 DEF StackOK, z
<1>11. ThreadOK(t)'
  BY <1>1, <1>10 DEF ThreadOK, T!Op
<1>12. \A q \in T!Path : tree'[q] = tree[q]
  BY <1>1
<1>13. Stacks'
  BY <1>1, <1>7, <1>8 DEF Stacks, z
<1>14. \A u \in Thread : u # t => open'[u] = open[u] /\ result'[u] = result[u]
  BY <1>1 DEF Stacks
<1>15. result' \in [Thread -> {"none", "busy", "0", "1"}]
  BY <1>1
<1> QED BY <1>1, <1>2, <1>11, <1>12, <1>13, <1>14, <1>15, StepOfOne

LEMMA DeleteOneKeeps ==
  ASSUME DeletingInv, NEW t \in Thread, T!DeleteOne(t) PROVE DeletingInv'
<1> USE DEF DeletingInv
<1> DEFINE p == job[t].path
           q == T!Itself(p)
           fails == IF T!Op(t) = "delete dir" THEN T!RmdirFails(q) ELSE T!RemoveFails(q)
<1>1. /\ ~dry /\ result[t] = "none"
      /\ T!Op(t) = "delete tree" => T!Kind(p) # "dir"
      /\ tree' = T!Without(q, fails)
      /\ result' = [result EXCEPT ![t] = IF fails THEN "1" ELSE "0"]
      /\ UNCHANGED open
      /\ UNCHANGED <<fixed, dry, job, orig>>
  BY DEF T!DeleteOne, T!Called, T!Returns, T!Status
<1>2. p \in T!Path /\ T!IsPrefix(job[t].path, p)
  BY JobPath
<1>3. q \in T!Path /\ q = T!Named(tree, p)
  BY <1>2, NamedIs DEF T!Itself, OnlyRemoved
<1>4. fails \in BOOLEAN /\ (T!RemoveFails(q) => fails)
  BY DEF T!RmdirFails, T!RemoveFails
<1>5. T!Op(t) = "delete tree" => (fails => T!RemoveFails(q))
  OBVIOUS
<1> HIDE DEF fails
<1>6. Removing /\ (~fails => tree'[q] = "none")
  BY <1>1, <1>3, <1>4, WithoutRemoves
<1>7. \A r \in T!Path : tree'[r] # tree[r] => r = q
  BY <1>1, <1>3 DEF T!Without, OnlyRemoved, Sound
<1>8. ThreadOK(t)'
  <2>1. StackOK(t)'
    BY <1>1, <1>6, StackStays DEF ThreadOK
  <2>2. open'[t] = <<>>
    BY <1>1 DEF ThreadOK
  <2>3. ~fails => (tree[T!Itself(job[t].path)] = "none")'
    BY <1>1, <1>2, <1>3, <1>6, GoneNow DEF T!Itself
  <2>4. T!Op(t) = "delete tree" /\ fails => Reason(t)'
    BY <1>1, <1>2, <1>5, <1>6, Unremoved, RemovingKeeps
  <2>5. result'[t] = (IF fails THEN "1" ELSE "0") /\ T!Op(t)' = T!Op(t)
    BY <1>1 DEF T!Op
  <2> QED BY <2>1, <2>2, <2>3, <2>4, <2>5 DEF ThreadOK
<1> QED BY <1>1, <1>2, <1>3, <1>6, <1>7, <1>8, StepOfOne DEF Stacks

LEMMA DeleteEntryKeeps ==
  ASSUME DeletingInv, NEW t \in Thread, T!DeleteEntry(t) PROVE DeletingInv'
<1> USE DEF DeletingInv
<1> DEFINE top == T!Top(t)
<1>1. /\ open[t] # <<>> /\ T!Op(t) = "delete tree"
      /\ UNCHANGED <<fixed, dry, job, result, orig>>
  BY DEF T!DeleteEntry, T!Reading
<1>2. PICK n \in top.left :
        LET p == Append(top.path, n)
            rest == Append(T!Rest(t), [top EXCEPT !.left = @ \ {n}])
        IN IF T!Kind(p) = "dir"
           THEN /\ open' = [open EXCEPT ![t] = Append(rest, T!Directory(p))]
                /\ UNCHANGED tree
           ELSE /\ open' = [open EXCEPT ![t] = rest]
                /\ tree' = T!Without(T!Itself(p), T!RemoveFails(T!Itself(p)))
  BY DEF T!DeleteEntry
<1> DEFINE p == Append(top.path, n)
           q == T!Itself(p)
<1>3. ThreadOK(t) /\ StackOK(t) /\ job[t].path \in T!Path
  BY JobPath DEF ThreadOK
<1>4. p \in T!Path /\ T!IsPrefix(job[t].path, p)
  BY <1>1, <1>3, TopFacts
<1>5. q \in T!Path /\ q = T!Named(tree, p)
  BY <1>4, NamedIs DEF T!Itself, OnlyRemoved
<1>6. /\ Removing /\ StackOK(t)'
      /\ \A r \in T!Path : tree'[r] # tree[r] => r = q
  <2>1. CASE T!Kind(p) = "dir"
    <3>1. UNCHANGED <<tree, fixed, dry, job, orig>>
      BY <1>1, <1>2, <2>1
    <3>2. open' = [open EXCEPT ![t] =
                     Append(Append(T!Rest(t), [top EXCEPT !.left = @ \ {n}]),
                            T!Directory(p))]
      BY <1>2, <2>1
    <3>3. StackOK(t)'
      BY <1>1, <1>2, <1>3, <2>1, <3>1, <3>2, EntryOpenedKeeps
    <3> QED BY <3>1, <3>3 DEF Removing, OnlyRemoved, Less
  <2>2. CASE T!Kind(p) # "dir"
    <3> DEFINE fails == T!RemoveFails(q)
    <3>1. /\ open' = [open EXCEPT ![t] =
                        Append(T!Rest(t), [top EXCEPT !.left = @ \ {n}])]
          /\ tree' = T!Without(q, fails)
      BY <1>2, <2>2
    <3>2. fails \in BOOLEAN /\ (T!RemoveFails(q) => fails)
      BY DEF T!RemoveFails
    <3>3. fails => Reason(t)
      <4>1. ~T!Blocked(orig, T!Named(orig, p))
        <5>1. /\ orig[T!Leads(orig, top.path)] = "dir" /\ top.path \in T!Path
              /\ n \in Name
          BY <1>1, <1>3, TopFacts DEF LevelOK
        <5>2. /\ T!Named(orig, p) = Append(T!Leads(orig, top.path), n)
              /\ T!Leads(orig, top.path) \in T!Path /\ T!Named(orig, p) \in T!Path
          BY <1>4, <5>1, NamedEntry, NamedIs, LeadsIs DEF OnlyRemoved
        <5> QED BY <5>1, <5>2, EntryNotBlocked DEF OnlyRemoved
      <4> QED BY <1>4, <2>2, <4>1, Unremoved
    <3> HIDE DEF fails
    <3>4. Removing /\ (~fails => tree'[q] = "none")
      BY <1>1, <1>5, <3>1, <3>2, WithoutRemoves
    <3>5. StackOK(t)'
      BY <1>1, <1>2, <1>3, <3>1, <3>3, <3>4, EntryRemovedKeeps
    <3>6. \A r \in T!Path : tree'[r] # tree[r] => r = q
      BY <1>5, <3>1 DEF T!Without, OnlyRemoved, Sound
    <3> QED BY <3>4, <3>5, <3>6
  <2> QED BY <2>1, <2>2
<1> HIDE DEF q, p, top
<1>7. Stacks' /\ \A u \in Thread : u # t => open'[u] = open[u]
  <2>1. open'[t] \in Seq(Level)
    BY <1>6 DEF StackOK
  <2> QED BY <1>2, <2>1 DEF Stacks
<1>8. ThreadOK(t)'
  <2>1. Reason(t) => Reason(t)'
    BY <1>6, RemovingKeeps
  <2>2. result'[t] = "busy" /\ T!Op(t)' = "delete tree" /\ ~dry'
    BY <1>1, <1>3 DEF ThreadOK, T!Op
  <2> QED BY <1>6, <2>1, <2>2 DEF ThreadOK
<1>9. ~dry
  BY <1>1, <1>3 DEF ThreadOK
<1> QED BY <1>1, <1>4, <1>5, <1>6, <1>7, <1>8, <1>9, StepOfOne

LEMMA DeleteEmptiedKeeps ==
  ASSUME DeletingInv, NEW t \in Thread, T!DeleteEmptied(t) PROVE DeletingInv'
<1> USE DEF DeletingInv
<1> DEFINE p == T!Top(t).path
           q == T!Itself(p)
           fails == T!RmdirFails(q)
<1>1. /\ open[t] # <<>> /\ T!Op(t) = "delete tree" /\ T!Top(t).left = {}
      /\ tree' = T!Without(q, fails)
      /\ open' = [open EXCEPT ![t] = T!Rest(t)]
      /\ result' = [result EXCEPT ![t] =
                      IF T!Rest(t) = <<>> THEN T!Status(fails) ELSE @]
      /\ UNCHANGED <<fixed, dry, job, orig>>
  BY DEF T!DeleteEmptied, T!Reading
<1>2. ThreadOK(t) /\ StackOK(t) /\ job[t].path \in T!Path
  BY JobPath DEF ThreadOK
<1>3. /\ LevelOK(t, T!Top(t), <<>>) /\ T!Top(t) = open[t][Len(open[t])]
      /\ p \in T!Path /\ T!IsPrefix(job[t].path, p)
  BY <1>1, <1>2, TopFacts
<1>4. q \in T!Path /\ q = T!Named(tree, p)
  BY <1>3, NamedIs DEF T!Itself, OnlyRemoved
<1>5. fails \in BOOLEAN /\ (T!RemoveFails(q) => fails)
  BY DEF T!RmdirFails, T!RemoveFails
<1>6. fails => Reason(t)
  BY <1>1, <1>3, Unemptied DEF LevelOK
<1> HIDE DEF fails
<1>7. Removing /\ (~fails => tree'[q] = "none")
  BY <1>1, <1>4, <1>5, WithoutRemoves
<1>8. StackOK(t)'
  BY <1>1, <1>2, <1>6, <1>7, EmptiedKeeps
<1>9. \A r \in T!Path : tree'[r] # tree[r] => r = q
  BY <1>1, <1>4 DEF T!Without, OnlyRemoved, Sound
<1>10. open'[t] = T!Rest(t) /\ Stacks' /\ \A u \in Thread : u # t => open'[u] = open[u]
  <2>1. open'[t] \in Seq(Level) /\ open'[t] = T!Rest(t)
    BY <1>1, <1>8 DEF StackOK, Stacks
  <2> QED BY <1>1, <2>1 DEF Stacks
<1>11. T!Rest(t) = <<>> => p = job[t].path
  <2>1. open[t] \in Seq(Level) /\ open[t][1].path = job[t].path
    BY <1>1, <1>2 DEF StackOK
  <2>2. T!Rest(t) = <<>> => Len(open[t]) = 1
    BY <1>1, <2>1, StackFacts DEF T!Rest
  <2> QED BY <1>3, <2>1, <2>2
<1>12. result[t] = "busy" /\ T!Op(t)' = "delete tree" /\ ~dry'
  BY <1>1, <1>2 DEF ThreadOK, T!Op
<1>13. result'[t] = IF T!Rest(t) = <<>> THEN (IF fails THEN "1" ELSE "0") ELSE "busy"
  BY <1>1, <1>12 DEF T!Status
<1>14. ThreadOK(t)'
  <2>1. fails => Reason(t)'
    BY <1>6, <1>7, RemovingKeeps
  <2>2. result'[t] = "0" => (tree[T!Itself(job[t].path)] = "none")'
    <3>1. ~fails => tree'[T!Named(tree', p)] = "none"
      BY <1>3, <1>4, <1>7, GoneNow
    <3> QED BY <1>1, <1>11, <1>13, <3>1 DEF T!Itself
  <2> QED BY <1>8, <1>10, <1>12, <1>13, <2>1, <2>2 DEF ThreadOK
<1>15. result' \in [Thread -> {"none", "busy", "0", "1"}]
  BY <1>1, <1>13
<1>16. /\ ~dry
       /\ \A u \in Thread : u # t => result'[u] = result[u]
  BY <1>1, <1>12
<1> QED BY <1>1, <1>3, <1>4, <1>7, <1>9, <1>10, <1>14, <1>15, <1>16, StepOfOne

(* The invariant says what T!TreesHonest says of deleting.                   *)
LEMMA DeletingHonest ==
  ASSUME DeletingInv
  PROVE  T!TreesHonest
<1> USE DEF DeletingInv
<1>1. T!DeletedIsGone
  BY DEF T!DeletedIsGone, ThreadOK
<1>2. DOMAIN tree = T!Path
  BY DEF OnlyRemoved, Sound
<1>3. T!StaysForAReason
  <2> SUFFICES ASSUME NEW t \in Thread, T!Op(t) = "delete tree", result[t] = "1"
               PROVE  \/ T!Blocked(orig, T!Named(orig, job[t].path))
                      \/ \E p \in T!Below(job[t].path) :
                           LET q == T!Named(orig, p) IN
                           \/ q \in fixed /\ tree[q] # "none"
                           \/ orig[q] = "link" /\ orig[Target] = "dir"
    BY DEF T!StaysForAReason
  <2>1. Reason(t)
    BY DEF ThreadOK
  <2> QED BY <1>2, <2>1 DEF Reason, T!Below
<1>4. T!DeletesOnlyBelow
  <2> SUFFICES ASSUME NEW q \in T!Path, tree[q] # orig[q]
               PROVE  /\ ~dry /\ tree[q] = "none"
                      /\ \E t \in Thread : \E p \in T!Below(job[t].path) :
                           q = T!Named(orig, p)
    BY <1>2 DEF T!DeletesOnlyBelow
  <2>1. Reachable(q) /\ ~dry /\ tree[q] = "none"
    BY DEF OnlyRemoved, Less
  <2> QED BY <1>2, <2>1 DEF Reachable, T!Below
<1>5. \A t \in Thread : job[t] \notin T!Copies
  BY DEF T!Deletions, T!Copies
<1>6. T!CopiesAll /\ T!CopiesOnlyThere
  BY <1>5 DEF T!CopiesAll, T!CopiesOnlyThere, T!Copied
<1> QED BY <1>1, <1>3, <1>4, <1>6 DEF T!TreesHonest

-----------------------------------------------------------------------------
(* Trees: where copies go                                                    *)

From == <<T!Other>>

(* What is copied, and where to.                                             *)
Copyable(p) == p \in T!Path /\ p[1] = T!Other /\ (Len(p) <= 2 \/ p = T!Deep)
Image(c, p) == c.dst \o SubSeq(p, 2, Len(p))

(* What a copy is called for.                                                *)
LEMMA CopyFacts ==
  ASSUME NEW c \in T!Copies
  PROVE  /\ c.path = From /\ c.op \in {"copy file", "copy dir", "copy tree"}
         /\ c.dst \in T!Path /\ c.dst[1] = Home
         /\ Len(c.dst) = 1 \/ Len(c.dst) = 2
<1>1. /\ c.path = From /\ c.op \in {"copy file", "copy dir", "copy tree"}
      /\ c.dst = Target \/ \E n \in Name : c.dst = Append(Target, n)
  BY DEF T!Copies, From
<1>2. CASE c.dst = Target
  <2>1. c.dst \in Seq(Name) /\ Len(c.dst) = 1 /\ c.dst[1] = Home
    BY <1>2, HomeIs
  <2>2. Len(c.dst) \in Nat /\ 1 <= Len(c.dst) /\ Len(c.dst) <= 3
    BY <2>1
  <2> QED BY <1>1, <2>1, <2>2, ShortPath
<1>3. ASSUME NEW n \in Name, c.dst = Append(Target, n)
      PROVE  c.dst \in T!Path /\ c.dst[1] = Home /\ Len(c.dst) = 2
  <2>1. Target \in Seq(Name) /\ Len(Target) = 1 /\ Target[1] = Home
    BY HomeIs
  <2>2. c.dst \in Seq(Name) /\ Len(c.dst) = 2 /\ c.dst[1] = Home
    <3>1. /\ Append(Target, n) \in Seq(Name)
          /\ Len(Append(Target, n)) = Len(Target) + 1
          /\ \A i \in 1 .. Len(Target) : Append(Target, n)[i] = Target[i]
      <4>1. ASSUME NEW w \in Seq(Name)
            PROVE  /\ Append(w, n) \in Seq(Name)
                   /\ Len(Append(w, n)) = Len(w) + 1
                   /\ \A i \in 1 .. Len(w) : Append(w, n)[i] = w[i]
        OBVIOUS
      <4> QED BY <2>1, <4>1
    <3>2. Append(Target, n)[1] = Target[1] /\ Len(Append(Target, n)) = 2
      BY <2>1, <3>1
    <3> QED BY <1>3, <2>1, <3>1, <3>2
  <2>3. Len(c.dst) \in Nat /\ 1 <= Len(c.dst) /\ Len(c.dst) <= 3
    BY <2>2
  <2> QED BY <2>2, <2>3, ShortPath
<1> QED BY <1>1, <1>2, <1>3

LEMMA FromIsSource == Copyable(From) /\ Len(From) = 1 /\ From \in Seq(Name)
<1>1. From \in Seq(Name) /\ Len(From) = 1 /\ From[1] = T!Other
  BY OtherIs DEF From
<1>2. Len(From) \in Nat /\ 1 <= Len(From) /\ Len(From) <= 3
  BY <1>1
<1>3. From \in T!Path
  BY <1>1, <1>2, ShortPath
<1>4. Len(From) <= 2
  BY <1>1
<1> QED BY <1>1, <1>3, <1>4 DEF Copyable

(* What the image of a path is, name by name.                                *)
LEMMA ImageIs ==
  ASSUME NEW c \in T!Copies, NEW p \in T!Path
  PROVE  /\ Image(c, p) \in Seq(Name) /\ Len(Image(c, p)) = Len(c.dst) + Len(p) - 1
         /\ \A i \in 1 .. Len(c.dst) : Image(c, p)[i] = c.dst[i]
         /\ \A i \in 2 .. Len(p) : Image(c, p)[Len(c.dst) + i - 1] = p[i]
<1>1. p \in Seq(Name) /\ Len(p) \in Nat /\ 1 <= Len(p)
  BY PathFacts
<1>2. c.dst \in Seq(Name) /\ Len(c.dst) \in Nat
  BY CopyFacts, PathFacts
<1> DEFINE L == Len(p)
           D == Len(c.dst)
           s == SubSeq(p, 2, L)
<1>3. L \in Nat /\ 1 <= L /\ D \in Nat
  BY <1>1, <1>2
<1>4. /\ s \in Seq(Name) /\ Len(s) = L - 1
      /\ \A i \in 1 .. L - 1 : s[i] = p[i + 1]
  <2>1. \A i \in 2 .. L : p[i] \in Name
    BY <1>1, ElementOfSeq
  <2> HIDE DEF L
  <2>2. 2 \in Int /\ L \in Int
    BY <1>3
  <2>3. /\ SubSeq(p, 2, L) \in Seq(Name)
        /\ Len(SubSeq(p, 2, L)) = IF 2 <= L THEN L - 2 + 1 ELSE 0
        /\ \A i \in 1 .. L - 2 + 1 : SubSeq(p, 2, L)[i] = p[2 + i - 1]
    BY <2>1, <2>2, SubSeqProperties
  <2>4. ASSUME NEW i \in 1 .. L - 1 PROVE SubSeq(p, 2, L)[i] = p[i + 1]
    <3>1. i \in 1 .. L - 2 + 1 /\ 2 + i - 1 = i + 1
      BY <1>3
    <3> QED BY <2>3, <3>1
  <2>5. Len(SubSeq(p, 2, L)) = L - 1
    BY <1>3, <2>3
  <2> QED BY <2>3, <2>4, <2>5
<1>5. Image(c, p) = c.dst \o s
  BY DEF Image
<1> HIDE DEF s
<1>6. /\ c.dst \o s \in Seq(Name) /\ Len(c.dst \o s) = D + Len(s)
      /\ \A i \in 1 .. D + Len(s) :
            (c.dst \o s)[i] = IF i <= D THEN c.dst[i] ELSE s[i - D]
  BY <1>2, <1>4, ConcatProperties
<1> HIDE DEF L, D
<1>7. Len(c.dst \o s) = D + L - 1
  BY <1>3, <1>4, <1>6
<1>8. ASSUME NEW i \in 1 .. D PROVE (c.dst \o s)[i] = c.dst[i]
  <2>1. i \in 1 .. D + Len(s) /\ i <= D
    BY <1>3, <1>4
  <2> QED BY <1>6, <2>1
<1>9. ASSUME NEW i \in 2 .. L PROVE (c.dst \o s)[D + i - 1] = p[i]
  <2>1. D + i - 1 \in 1 .. D + Len(s) /\ ~(D + i - 1 <= D) /\ (D + i - 1) - D = i - 1
    BY <1>3, <1>4
  <2>2. i - 1 \in 1 .. L - 1 /\ i - 1 + 1 = i
    BY <1>3
  <2>3. (c.dst \o s)[D + i - 1] = s[i - 1]
    BY <1>6, <2>1
  <2> QED BY <1>4, <2>2, <2>3
<1> QED BY <1>5, <1>6, <1>7, <1>8, <1>9 DEF L, D

(* What is copied goes to a path below the destination.                      *)
LEMMA ImageFacts ==
  ASSUME NEW c \in T!Copies, NEW p, Copyable(p)
  PROVE  /\ Image(c, p) \in T!Path /\ Image(c, p)[1] = Home
         /\ T!IsPrefix(c.dst, Image(c, p))
<1> DEFINE x == Image(c, p)
           D == Len(c.dst)
           L == Len(p)
<1>1. p \in T!Path /\ (L <= 2 \/ p = T!Deep) /\ p \in Seq(Name)
      /\ L \in Nat /\ 1 <= L
  BY PathFacts DEF Copyable
<1>2. /\ x \in Seq(Name) /\ Len(x) = D + L - 1
      /\ \A i \in 1 .. D : x[i] = c.dst[i]
      /\ \A i \in 2 .. L : x[D + i - 1] = p[i]
  BY <1>1, ImageIs
<1>3. c.dst \in T!Path /\ c.dst[1] = Home /\ (D = 1 \/ D = 2) /\ c.dst \in Seq(Name)
  BY CopyFacts, PathFacts
<1> HIDE DEF x, D
<1>4. x[1] = Home
  BY <1>2, <1>3
<1>5. x \in T!Path
  <2>1. CASE L <= 2 \/ (D = 1 /\ L = 3)
    <3> HIDE DEF L
    <3>1. Len(x) \in Nat /\ 1 <= Len(x) /\ Len(x) <= 3
      BY <1>1, <1>2, <1>3, <2>1
    <3> QED BY <1>2, <3>1, ShortPath
  <2>2. CASE D = 2 /\ p = T!Deep
    <3>1. L = 3 /\ p[2] = T!Other /\ p[3] = T!Other
      BY <2>2 DEF T!Deep
    <3> HIDE DEF L
    <3>2. Len(x) = 4 /\ D + 2 - 1 = 3 /\ D + 3 - 1 = 4 /\ 2 \in 2 .. L /\ 3 \in 2 .. L
      BY <1>2, <2>2, <3>1
    <3>3. x[3] = T!Other /\ x[4] = T!Other
      BY <1>2, <3>1, <3>2
    <3>4. x[2] \in Name
      BY <1>2, <3>2, ElementOfSeq
    <3> DEFINE n == x[2]
               y == Target \o <<n, T!Other, T!Other>>
    <3> HIDE DEF n
    <3>5. n \in Name
      BY <3>4 DEF n
    <3>6. /\ Len(y) = 4 /\ y \in Seq(Name) /\ y[1] = Home
          /\ y[2] = n /\ y[3] = T!Other /\ y[4] = T!Other
      <4>1. /\ Target \in Seq(Name) /\ Len(Target) = 1 /\ Target[1] = Home
            /\ <<n, T!Other, T!Other>> \in Seq(Name)
        BY <3>5, HomeIs, OtherIs
      <4> QED BY <3>5, <4>1, OtherIs, FourNames
    <3> HIDE DEF y
    <3>7. ASSUME NEW i \in 1 .. 4 PROVE x[i] = y[i]
      <4>1. x[1] = y[1] /\ x[2] = y[2] /\ x[3] = y[3] /\ x[4] = y[4]
        BY <1>4, <3>3, <3>6 DEF n
      <4>2. i = 1 \/ i = 2 \/ i = 3 \/ i = 4
        BY <3>7
      <4> QED BY <4>1, <4>2
    <3>8. x = y
      BY <1>2, <3>2, <3>6, <3>7, SeqEqual
    <3> QED BY <3>5, <3>8 DEF y, T!Path
  <2>3. p = T!Deep => L = 3
    BY DEF T!Deep
  <2> HIDE DEF L
  <2> QED BY <1>1, <1>3, <2>1, <2>2, <2>3
<1>6. T!IsPrefix(c.dst, x)
  <2>1. D <= Len(x) /\ D \in Nat /\ Len(x) \in Nat
    <3> HIDE DEF L
    <3> QED BY <1>1, <1>2, <1>3
  <2>2. SubSeq(c.dst, 1, D) = SubSeq(x, 1, D)
    <3>1. \A i \in 1 .. D : x[i] \in Name /\ c.dst[i] \in Name
      BY <1>2, <1>3, <2>1, ElementOfSeq DEF D
    <3>2. /\ Len(SubSeq(c.dst, 1, D)) = D /\ Len(SubSeq(x, 1, D)) = D
          /\ SubSeq(c.dst, 1, D) \in Seq(Name) /\ SubSeq(x, 1, D) \in Seq(Name)
          /\ \A i \in 1 .. D : SubSeq(c.dst, 1, D)[i] = c.dst[i] /\ SubSeq(x, 1, D)[i] = x[i]
      BY <1>3, <2>1, <3>1, SubSeqProperties
    <3> QED BY <1>2, <3>2, SeqEqual
  <2> QED BY <2>1, <2>2 DEF T!IsPrefix, D
<1> QED BY <1>4, <1>5, <1>6 DEF x

(* Different paths have different images.                                    *)
LEMMA ImageInjective ==
  ASSUME NEW c \in T!Copies, NEW p, NEW r, Copyable(p), Copyable(r),
         Image(c, p) = Image(c, r)
  PROVE  p = r
<1> DEFINE D == Len(c.dst)
           L == Len(p)
<1>1. /\ p \in T!Path /\ p \in Seq(Name) /\ Len(p) \in Nat /\ 1 <= Len(p)
      /\ r \in T!Path /\ r \in Seq(Name) /\ Len(r) \in Nat /\ 1 <= Len(r)
      /\ p[1] = r[1]
  BY PathFacts DEF Copyable
<1>2. /\ Len(Image(c, p)) = D + Len(p) - 1
      /\ \A i \in 2 .. Len(p) : Image(c, p)[D + i - 1] = p[i]
      /\ Len(Image(c, r)) = D + Len(r) - 1
      /\ \A i \in 2 .. Len(r) : Image(c, r)[D + i - 1] = r[i]
  BY <1>1, ImageIs
<1>3. D = 1 \/ D = 2
  BY CopyFacts
<1> HIDE DEF D
<1>4. Len(p) = Len(r)
  <2> DEFINE a == Len(p)
             b == Len(r)
  <2>1. D + a - 1 = D + b - 1 /\ a \in Nat /\ b \in Nat
    BY <1>1, <1>2
  <2> HIDE DEF a, b
  <2>2. a = b
    BY <1>3, <2>1
  <2> QED BY <2>2 DEF a, b
<1>5. ASSUME NEW i \in 1 .. Len(p) PROVE p[i] = r[i]
  <2>1. CASE i = 1
    BY <1>1, <2>1
  <2>2. CASE i # 1
    <3>1. i \in 2 .. Len(p) /\ i \in 2 .. Len(r)
      BY <1>1, <1>4, <2>2
    <3> QED BY <1>2, <3>1
  <2> QED BY <2>1, <2>2
<1> QED BY <1>1, <1>4, <1>5, SeqEqual

(* The image of an entry is the entry of the image.                          *)
LEMMA ImageEntry ==
  ASSUME NEW c \in T!Copies, NEW p \in T!Path, NEW n \in Name, Append(p, n) \in T!Path
  PROVE  Append(Image(c, p), n) = Image(c, Append(p, n))
<1>1. p \in Seq(Name) /\ Len(p) \in Nat /\ 1 <= Len(p)
  BY PathFacts
<1>2. c.dst \in Seq(Name)
  BY CopyFacts, PathFacts
<1> DEFINE q == Append(p, n)
           L == Len(p)
<1>3. /\ q \in T!Path /\ q \in Seq(Name) /\ Len(q) = L + 1 /\ q[L + 1] = n
      /\ \A i \in 1 .. L : q[i] = p[i]
  BY <1>1, AppendProperties
<1>4. /\ Image(c, p) \in Seq(Name) /\ Len(Image(c, p)) = Len(c.dst) + L - 1
      /\ \A i \in 1 .. Len(c.dst) : Image(c, p)[i] = c.dst[i]
      /\ \A i \in 2 .. L : Image(c, p)[Len(c.dst) + i - 1] = p[i]
  BY ImageIs
<1> HIDE DEF q
<1>5. /\ Image(c, q) \in Seq(Name) /\ Len(Image(c, q)) = Len(c.dst) + (L + 1) - 1
      /\ \A i \in 1 .. Len(c.dst) : Image(c, q)[i] = c.dst[i]
      /\ \A i \in 2 .. L + 1 : Image(c, q)[Len(c.dst) + i - 1] = q[i]
  BY <1>3, ImageIs
<1> DEFINE x == Image(c, p)
           y == Image(c, q)
           z == Append(x, n)
           D == Len(c.dst)
<1> HIDE DEF x, y, D, L
<1>6. L \in Nat /\ 1 <= L /\ D \in Nat /\ Len(x) = D + L - 1
  BY <1>1, <1>2, <1>4 DEF x, D, L
<1>7. /\ z \in Seq(Name) /\ Len(z) = D + L - 1 + 1 /\ z[D + L - 1 + 1] = n
      /\ \A i \in 1 .. D + L - 1 : z[i] = x[i]
  <2>1. x \in Seq(Name)
    BY <1>4 DEF x
  <2> QED BY <1>6, <2>1, AppendProperties
<1> HIDE DEF z
<1>8. Len(z) = D + L /\ Len(y) = D + L /\ y \in Seq(Name)
  BY <1>5, <1>6, <1>7 DEF y, D
<1>9. ASSUME NEW i \in 1 .. D + L PROVE z[i] = y[i]
  <2>1. CASE i <= D
    <3>1. i \in 1 .. D /\ i \in 1 .. D + L - 1
      BY <1>6, <2>1
    <3>2. z[i] = x[i]
      BY <1>7, <3>1
    <3> QED BY <1>4, <1>5, <3>1, <3>2 DEF x, y, D
  <2>2. CASE i > D
    <3> DEFINE j == i - D + 1
    <3>1. j \in 2 .. L + 1 /\ D + j - 1 = i /\ (j # L + 1 => j \in 2 .. L /\ j \in 1 .. L)
          /\ (j # L + 1 => i \in 1 .. D + L - 1) /\ (j = L + 1 => i = D + L - 1 + 1)
      BY <1>6, <2>2
    <3> HIDE DEF j
    <3>2. y[i] = q[j]
      BY <1>5, <3>1 DEF y, D
    <3>3. CASE j = L + 1
      BY <1>3, <1>7, <3>1, <3>2, <3>3
    <3>4. CASE j # L + 1
      <4>1. z[i] = x[i] /\ x[i] = p[j] /\ q[j] = p[j]
        BY <1>3, <1>4, <1>7, <3>1, <3>4 DEF x, D
      <4> QED BY <3>2, <4>1
    <3> QED BY <3>3, <3>4
  <2> QED BY <1>6, <2>1, <2>2
<1>10. z = y
  BY <1>7, <1>8, <1>9, SeqEqual
<1> QED BY <1>10 DEF x, y, z, q

(* The image of what is copied is the destination.                           *)
LEMMA ImageOfFrom ==
  ASSUME NEW c \in T!Copies
  PROVE  Image(c, From) = c.dst
<1>1. SubSeq(From, 2, Len(From)) = <<>>
  BY FromIsSource
<1>2. c.dst \in Seq(Name)
  BY CopyFacts, PathFacts
<1> QED BY <1>1, <1>2, ConcatEmptySeq DEF Image

(* What leads to where a copy goes is above c.dst, or in it.                 *)
LEMMA AboveImage ==
  ASSUME NEW c \in T!Copies, NEW p, Copyable(p), NEW k \in 1 .. Len(Image(c, p))
  PROVE  \/ T!IsPrefix(c.dst, Upto(Image(c, p), k))
         \/ T!IsPrefix(Upto(Image(c, p), k), c.dst)
<1> DEFINE x == Image(c, p)
           D == Len(c.dst)
<1>1. x \in T!Path /\ T!IsPrefix(c.dst, x) /\ c.dst \in T!Path
  BY ImageFacts, CopyFacts
<1>2. D <= Len(x) /\ Upto(c.dst, D) = Upto(x, D)
  BY <1>1 DEF T!IsPrefix, Upto
<1>3. x \in Seq(Name) /\ Len(x) \in Nat /\ D \in Nat /\ 1 <= D /\ c.dst \in Seq(Name)
  BY <1>1, PathFacts
<1>4. Upto(x, k) \in Seq(Name) /\ Len(Upto(x, k)) = k
  BY <1>1, UptoFacts, PathFacts
<1> HIDE DEF x, D
<1>5. k \in Nat /\ 1 <= k /\ k <= Len(x)
  BY <1>3 DEF x
<1>6. ASSUME NEW a \in Nat, NEW b \in Nat, 1 <= a, a <= b, b <= Len(x)
      PROVE  Upto(Upto(x, b), a) = Upto(x, a)
  BY <1>3, <1>6 DEF Upto
<1>7. c.dst = Upto(x, D)
  BY <1>2, <1>3 DEF Upto, D
<1>8. CASE D <= k
  <2>1. Upto(Upto(x, k), D) = Upto(x, D) /\ Upto(c.dst, D) = Upto(x, D)
    BY <1>2, <1>3, <1>5, <1>6, <1>8
  <2> QED BY <1>4, <1>8, <2>1 DEF T!IsPrefix, Upto, D, x
<1>9. CASE k <= D
  <2>1. Upto(c.dst, k) = Upto(x, k) /\ Upto(Upto(x, k), k) = Upto(x, k)
    BY <1>2, <1>3, <1>5, <1>6, <1>7, <1>9
  <2> QED BY <1>4, <1>9, <2>1 DEF T!IsPrefix, Upto, D, x
<1> QED BY <1>3, <1>5, <1>8, <1>9

-----------------------------------------------------------------------------
(* Trees: what copying writes                                                *)

Plain(d) == Sound(d) /\ \A p \in T!Path : d[p] # "link"

(* Without links every path leads to itself.                                 *)
LEMMA PlainLeads ==
  ASSUME NEW d, Plain(d), NEW p \in T!Path
  PROVE  T!Leads(d, p) = p /\ T!Named(d, p) = p
<1> USE DEF Plain
<1>1. ASSUME NEW k PROVE ~LinkAt(d, p, k)
  BY UptoFacts DEF LinkAt
<1> QED BY <1>1, LeadsIs, NamedIs

(* What a path of two names or more is in is a path.                         *)
LEMMA ParentIsPath ==
  ASSUME NEW p \in T!Path, Len(p) > 1
  PROVE  T!Parent(p) \in T!Path
<1>1. Len(p) - 1 \in 1 .. Len(p)
  BY PathFacts
<1> QED BY <1>1, UptoFacts DEF T!Parent, Upto

(* Directories are made on the way to p, where nothing was.                  *)
LEMMA WithDirsFacts ==
  ASSUME Plain(tree), NEW p \in T!Path, tree' = T!WithDirs(p)
  PROVE  /\ Plain(tree')
         /\ \A q \in T!Path : tree[q] # "none" => tree'[q] = tree[q]
         /\ \A q \in T!Path : tree'[q] # tree[q] =>
              /\ tree'[q] = "dir"
              /\ \E k \in 1 .. Len(p) : q = Upto(p, k)
<1> DEFINE Free(k) == tree[Upto(p, k)] = "none" /\ Upto(p, k) \notin fixed
           Made(k) == \E j \in 1 .. k :
                        /\ j > 1 => tree[Upto(p, j - 1)] = "dir"
                        /\ \A i \in j .. k : Free(i)
           Here(q) == \E k \in 1 .. Len(p) : q = Upto(p, k) /\ Made(k)
<1>1. tree' = [q \in DOMAIN tree |-> IF Here(q) THEN "dir" ELSE tree[q]]
  BY DEF T!WithDirs, Upto
<1>2. tree \in [T!Path -> Kinds] /\ DOMAIN tree = T!Path
  BY DEF Plain, Sound
<1>3. Len(p) \in Nat
  BY PathFacts
<1>4. ASSUME NEW k \in 1 .. Len(p), Made(k) PROVE Free(k)
  BY <1>3, <1>4
<1>5. ASSUME NEW k \in 1 .. Len(p), k > 1, Made(k)
      PROVE  tree[Upto(p, k - 1)] = "dir" \/ Made(k - 1)
  <2>1. PICK j \in 1 .. k : /\ j > 1 => tree[Upto(p, j - 1)] = "dir"
                            /\ \A i \in j .. k : Free(i)
    BY <1>5
  <2> HIDE DEF Free
  <2>2. CASE j = k
    BY <1>5, <2>1, <2>2
  <2>3. CASE j # k
    <3>1. j \in 1 .. k - 1 /\ \A i \in j .. k - 1 : i \in j .. k
      BY <1>3, <2>3
    <3> QED BY <2>1, <3>1
  <2> QED BY <2>2, <2>3
<1> HIDE DEF Made, Free
<1>6. ASSUME NEW q \in T!Path, Here(q) PROVE tree[q] = "none" /\ tree'[q] = "dir"
  BY <1>1, <1>2, <1>4, <1>6 DEF Free
<1>7. ASSUME NEW q \in T!Path, ~Here(q) PROVE tree'[q] = tree[q]
  BY <1>1, <1>2, <1>7
<1>8. DOMAIN tree' = T!Path
  BY <1>1, <1>2
<1>9. tree' \in [T!Path -> Kinds]
  BY <1>1, <1>2 DEF Kinds
<1>10. ASSUME NEW q \in T!Path, Len(q) > 1, tree'[q] # "none"
       PROVE  tree'[T!Parent(q)] = "dir"
  <2>1. T!Parent(q) \in T!Path
    BY <1>10, ParentIsPath
  <2>2. tree[T!Parent(q)] = "dir" => tree'[T!Parent(q)] = "dir"
    BY <1>6, <1>7, <2>1
  <2>3. CASE Here(q)
    <3>1. PICK k \in 1 .. Len(p) : q = Upto(p, k) /\ Made(k)
      BY <2>3
    <3>2. Len(q) = k /\ (k > 1 => T!Parent(q) = Upto(p, k - 1))
      BY <3>1, UptoFacts
    <3>3. k > 1 /\ T!Parent(q) = Upto(p, k - 1) /\ k - 1 \in 1 .. Len(p)
      BY <1>3, <1>10, <3>2
    <3>4. Made(k - 1) => Here(T!Parent(q))
      BY <3>3
    <3> QED BY <1>5, <1>6, <2>1, <2>2, <3>1, <3>3, <3>4
  <2>4. CASE ~Here(q)
    BY <1>7, <1>10, <2>2, <2>4 DEF Plain, Sound
  <2> QED BY <2>3, <2>4
<1>11. \A q \in T!Path : tree'[q] # "link"
  BY <1>6, <1>7 DEF Plain
<1>12. Plain(tree')
  BY <1>9, <1>10, <1>11 DEF Plain, Sound
<1> QED BY <1>6, <1>7, <1>12

(* A file is written over, or made in a directory.                           *)
LEMMA CopyFileFacts ==
  ASSUME Plain(tree), NEW src \in T!Path, NEW dst \in T!Path,
         NEW fails \in BOOLEAN, T!CopyFile(src, dst, fails)
  PROVE  /\ Plain(tree')
         /\ \A q \in T!Path : q # dst => tree'[q] = tree[q]
         /\ tree'[dst] # tree[dst] => tree[dst] # "dir" /\ tree'[dst] # "none"
         /\ ~fails /\ tree[src] = "text" => tree'[dst] \in {"text", "short", "lost"}
<1>1. T!Kind(src) = tree[src] /\ T!Resolve(dst) = dst
  BY PlainLeads DEF T!Kind, T!Resolve
<1>2. tree \in [T!Path -> Kinds]
  BY DEF Plain, Sound
<1>3. CASE tree[src] # "none" /\ T!CanWrite(dst)
  <2>1. PICK v : /\ tree' = [tree EXCEPT ![dst] = v]
                 /\ v \in T!Content
                 /\ ~fails /\ tree[src] = "text" => v \in {"text", "short", "lost"}
    <3>1. tree[src] \in Kinds /\ tree[src] # "link"
      BY <1>2 DEF Plain
    <3> QED BY <1>1, <1>3, <3>1 DEF T!CopyFile, T!Content, Kinds
  <2>2. tree[dst] # "dir" /\ (Len(dst) > 1 => tree[T!Parent(dst)] = "dir")
    BY <1>3 DEF T!CanWrite
  <2>3. /\ tree' \in [T!Path -> Kinds] /\ tree'[dst] = v
        /\ \A q \in T!Path : q # dst => tree'[q] = tree[q]
    BY <1>2, <2>1 DEF Kinds
  <2>4. v # "none" /\ v # "link"
    BY <2>1 DEF T!Content
  <2>5. ASSUME NEW q \in T!Path, Len(q) > 1, tree'[q] # "none"
        PROVE  tree'[T!Parent(q)] = "dir"
    <3>1. tree[T!Parent(q)] = "dir"
      <4>1. CASE q = dst
        BY <2>2, <2>5, <4>1
      <4>2. CASE q # dst
        BY <2>3, <2>5, <4>2 DEF Plain, Sound
      <4> QED BY <4>1, <4>2
    <3>2. T!Parent(q) # dst
      BY <2>2, <3>1
    <3> QED BY <2>3, <2>5, <3>1, <3>2, ParentIsPath
  <2>6. \A q \in T!Path : tree'[q] # "link"
    BY <2>3, <2>4 DEF Plain
  <2>7. Plain(tree')
    BY <2>3, <2>5, <2>6 DEF Plain, Sound
  <2> QED BY <2>1, <2>2, <2>3, <2>4, <2>7
<1>4. CASE ~(tree[src] # "none" /\ T!CanWrite(dst))
  BY <1>1, <1>4 DEF T!CopyFile
<1> QED BY <1>3, <1>4

(* Only below c.dst, and above it, things change: directories are made, and  *)
(* files written that were no directories.                                   *)
CopiesBase(c) ==
  /\ Plain(orig) /\ Shallow(orig) /\ Plain(tree)
  /\ \A q \in T!Path : tree[q] # orig[q] =>
       /\ q[1] = Home
       /\ IF T!IsPrefix(c.dst, q) THEN tree[q] # "none" /\ orig[q] # "dir"
          ELSE T!IsPrefix(q, c.dst) /\ tree[q] = "dir"

(* The source is not written to.                                             *)
LEMMA SourceStays ==
  ASSUME NEW c, CopiesBase(c), NEW p, Copyable(p)
  PROVE  tree[p] = orig[p]
BY OtherIs DEF CopiesBase, Copyable

(* copy_file_cstr, from what is copied to its image.                         *)
LEMMA FileCopied ==
  ASSUME NEW c \in T!Copies, CopiesBase(c), NEW p, Copyable(p), NEW fails \in BOOLEAN,
         T!CopyFile(p, Image(c, p), fails), orig' = orig
  PROVE  /\ CopiesBase(c)'
         /\ \A q \in T!Path : q # Image(c, p) => tree'[q] = tree[q]
         /\ ~fails /\ orig[p] = "text" => tree'[Image(c, p)] \in {"text", "short", "lost"}
<1> DEFINE x == Image(c, p)
<1>1. x \in T!Path /\ x[1] = Home /\ T!IsPrefix(c.dst, x) /\ p \in T!Path
  BY ImageFacts DEF Copyable
<1>2. tree[p] = orig[p] /\ Plain(tree) /\ T!CopyFile(p, x, fails)
  BY SourceStays DEF CopiesBase
<1> HIDE DEF x
<1>3. /\ Plain(tree')
      /\ \A q \in T!Path : q # x => tree'[q] = tree[q]
      /\ tree'[x] # tree[x] => tree[x] # "dir" /\ tree'[x] # "none"
      /\ ~fails /\ tree[p] = "text" => tree'[x] \in {"text", "short", "lost"}
  BY <1>1, <1>2, CopyFileFacts
<1>4. CopiesBase(c)'
  BY <1>1, <1>3 DEF CopiesBase
<1> QED BY <1>2, <1>3, <1>4 DEF x

(* zmm_fs_create_dir_path, for an image.                                     *)
LEMMA DirsMade ==
  ASSUME NEW c \in T!Copies, CopiesBase(c), NEW p, Copyable(p),
         tree' = T!WithDirs(Image(c, p)), orig' = orig
  PROVE  /\ CopiesBase(c)'
         /\ \A q \in T!Path : tree[q] # "none" => tree'[q] = tree[q]
<1> DEFINE x == Image(c, p)
<1>1. x \in T!Path /\ x[1] = Home /\ Plain(tree) /\ tree' = T!WithDirs(x)
  BY ImageFacts DEF CopiesBase
<1>2. ASSUME NEW k \in 1 .. Len(x)
      PROVE  /\ T!IsPrefix(c.dst, Upto(x, k)) \/ T!IsPrefix(Upto(x, k), c.dst)
             /\ Upto(x, k)[1] = Home
  BY <1>1, AboveImage, UptoFacts
<1> HIDE DEF x
<1>3. /\ Plain(tree')
      /\ \A q \in T!Path : tree[q] # "none" => tree'[q] = tree[q]
      /\ \A q \in T!Path : tree'[q] # tree[q] =>
           /\ tree'[q] = "dir"
           /\ \E k \in 1 .. Len(x) : q = Upto(x, k)
  BY <1>1, WithDirsFacts
<1>4. ASSUME NEW q \in T!Path, tree'[q] # orig[q]
      PROVE  /\ q[1] = Home
             /\ IF T!IsPrefix(c.dst, q) THEN tree'[q] # "none" /\ orig[q] # "dir"
                ELSE T!IsPrefix(q, c.dst) /\ tree'[q] = "dir"
  <2>1. CASE tree'[q] = tree[q]
    BY <1>4, <2>1 DEF CopiesBase
  <2>2. CASE tree'[q] # tree[q]
    <3>1. tree'[q] = "dir" /\ \E k \in 1 .. Len(x) : q = Upto(x, k)
      BY <1>3, <2>2
    <3>2. q[1] = Home /\ (T!IsPrefix(c.dst, q) \/ T!IsPrefix(q, c.dst))
      BY <1>2, <3>1
    <3> QED BY <1>4, <3>1, <3>2
  <2> QED BY <2>1, <2>2
<1> QED BY <1>3, <1>4 DEF CopiesBase

CopyLevel == [path : T!Path, dst : T!Path, left : SUBSET Name, failed : BOOLEAN]

CopyLevelOK(c, l) ==
  /\ l \in CopyLevel /\ Copyable(l.path) /\ orig[l.path] = "dir"
  /\ l.dst = Image(c, l.path)
  /\ c.op = "copy dir" => l.path = From
  /\ \A n \in l.left : Append(l.path, n) \in T!Path /\ orig[Append(l.path, n)] # "none"

(* An entry of a directory that is copied is copied.                         *)
LEMMA EntryCopyable ==
  ASSUME NEW c, CopiesBase(c), NEW p, Copyable(p), NEW n \in Name,
         Append(p, n) \in T!Path, orig[Append(p, n)] # "none"
  PROVE  Copyable(Append(p, n))
<1>1. Append(p, n)[1] = T!Other
  BY EntryFacts DEF Copyable
<1> QED BY <1>1 DEF Copyable, CopiesBase, Shallow

(* What is below a directory is below an entry of it.                        *)
LEMMA BelowEntry ==
  ASSUME NEW d, Sound(d), NEW p \in T!Path, NEW r \in T!Path, T!IsPrefix(p, r),
         d[r] # "none", r # p
  PROVE  \E n \in Name : /\ Append(p, n) \in T!Path /\ d[Append(p, n)] # "none"
                         /\ T!IsPrefix(Append(p, n), r)
<1>1. p \in Seq(Name) /\ Len(p) \in Nat /\ 1 <= Len(p) /\ Len(p) <= 4
  BY PathFacts
<1>2. r \in Seq(Name) /\ Len(r) \in Nat /\ 1 <= Len(r) /\ Len(r) <= 4
  BY PathFacts
<1>3. Len(p) <= Len(r) /\ p = Upto(r, Len(p))
  <2>1. Len(p) <= Len(r) /\ Upto(p, Len(p)) = Upto(r, Len(p))
    BY DEF T!IsPrefix, Upto
  <2> QED BY <1>1, <2>1 DEF Upto
<1>4. Len(p) # Len(r)
  BY <1>2, <1>3 DEF Upto
<1> DEFINE k == Len(p) + 1
           n == r[k]
<1>5. k \in 1 .. Len(r) /\ k - 1 = Len(p) /\ k \in Nat /\ k <= Len(r)
  BY <1>1, <1>2, <1>3, <1>4
<1>6. n \in Name
  BY <1>2, <1>5, ElementOfSeq
<1>7. Upto(r, k) = Append(p, n)
  BY <1>2, <1>3, <1>5 DEF Upto
<1>8. Append(p, n) \in T!Path /\ Len(Upto(r, k)) = k
  <2> HIDE DEF k
  <2> QED BY <1>5, <1>7, UptoFacts
<1>9. d[Upto(r, k)] # "none"
  <2> HIDE DEF k
  <2>1. Len(r) \in 1 .. Len(r) /\ Upto(r, Len(r)) = r
    BY <1>2 DEF Upto
  <2>2. CASE k = Len(r)
    BY <2>1, <2>2
  <2>3. CASE k # Len(r)
    <3>1. k \in 1 .. Len(r) - 1
      BY <1>2, <1>5, <2>3
    <3>2. d[Upto(r, k)] = "dir"
      BY <2>1, <3>1, AllAboveAreDirs
    <3> QED BY <3>2
  <2> QED BY <2>2, <2>3
<1>10. T!IsPrefix(Upto(r, k), r)
  <2> HIDE DEF k
  <2>1. SubSeq(Upto(r, k), 1, k) = Upto(r, k)
    BY <1>2, <1>5 DEF Upto
  <2> QED BY <1>5, <1>8, <2>1 DEF T!IsPrefix, Upto
<1> QED BY <1>6, <1>7, <1>8, <1>9, <1>10

(* What has something below it is a directory.                               *)
LEMMA DirAbove ==
  ASSUME NEW d, Sound(d), NEW p \in T!Path, NEW r \in T!Path, T!IsPrefix(p, r),
         d[r] # "none", r # p
  PROVE  d[p] = "dir"
<1>1. PICK n \in Name : Append(p, n) \in T!Path /\ d[Append(p, n)] # "none"
  BY BelowEntry
<1>2. T!Parent(Append(p, n)) = p /\ Len(Append(p, n)) = Len(p) + 1
  BY <1>1, EntryFacts
<1>3. Len(Append(p, n)) > 1
  BY <1>2, PathFacts
<1> QED BY <1>1, <1>2, <1>3 DEF Sound

(* A directory just opened has all that was meant yet to be copied.          *)
LEMMA CopyOpened ==
  ASSUME NEW c \in T!Copies, CopiesBase(c), NEW p, Copyable(p), orig[p] = "dir",
         c.op = "copy dir" => p = From
  PROVE  /\ CopyLevelOK(c, T!CopyOf(p, Image(c, p), FALSE))
         /\ \A r : Copyable(r) /\ orig[r] = "text" /\ T!IsPrefix(p, r) =>
              \E n \in T!Entries(p) : T!IsPrefix(Append(p, n), r)
<1>1. Plain(tree) /\ DOMAIN tree = T!Path /\ Sound(orig) /\ p \in T!Path
  BY DEF CopiesBase, Plain, Sound, Copyable
<1>2. ASSUME NEW n \in Name, Append(p, n) \in T!Path
      PROVE  n \in T!Entries(p) <=> orig[Append(p, n)] # "none"
  <2>1. T!Itself(Append(p, n)) = Append(p, n)
    BY <1>1, <1>2, PlainLeads DEF T!Itself
  <2>2. Append(p, n)[1] = T!Other
    BY <1>1, <1>2, EntryFacts DEF Copyable
  <2>3. tree[Append(p, n)] = orig[Append(p, n)]
    BY <1>2, <2>2, OtherIs DEF CopiesBase
  <2> QED BY <1>1, <1>2, <2>1, <2>3 DEF T!Entries
<1>3. T!Entries(p) \subseteq Name /\ \A n \in T!Entries(p) : Append(p, n) \in T!Path
  BY <1>1 DEF T!Entries
<1>4. Image(c, p) \in T!Path
  BY ImageFacts
<1>5. CopyLevelOK(c, T!CopyOf(p, Image(c, p), FALSE))
  BY <1>1, <1>2, <1>3, <1>4 DEF CopyLevelOK, CopyLevel, T!CopyOf
<1>6. ASSUME NEW r, Copyable(r), orig[r] = "text", T!IsPrefix(p, r)
      PROVE  \E n \in T!Entries(p) : T!IsPrefix(Append(p, n), r)
  <2>1. PICK n \in Name : /\ Append(p, n) \in T!Path /\ orig[Append(p, n)] # "none"
                          /\ T!IsPrefix(Append(p, n), r)
    BY <1>1, <1>6, BelowEntry DEF Copyable
  <2> QED BY <1>2, <2>1
<1> QED BY <1>5, <1>6

-----------------------------------------------------------------------------
(* Trees: what holds while one thread copies                                 *)

(* What a copy is meant to have in place when it returns 0.                  *)
Meant(c, p) ==
  /\ Copyable(p) /\ T!IsPrefix(From, p) /\ orig[p] = "text"
  /\ c.op = "copy file" => p = From
  /\ c.op = "copy dir" => T!Parent(p) = From
InPlace(c, p) == tree[Image(c, p)] \in {"text", "short", "lost"}

(* It lies below what is yet to be looked at in an open directory.           *)
Todo(s, p) ==
  \E i \in 1 .. Len(s) : \E n \in s[i].left : T!IsPrefix(Append(s[i].path, n), p)
HasFailed(s) == \E i \in 1 .. Len(s) : s[i].failed

CopyOK(c, u) ==
  /\ open[u] \in Seq(CopyLevel)
  /\ \A i \in 1 .. Len(open[u]) : \A l \in {open[u][i]} : CopyLevelOK(c, l)
  /\ open[u] # <<>> =>
       /\ c.op \in {"copy dir", "copy tree"} /\ result[u] = "busy"
       /\ \/ HasFailed(open[u])
          \/ \A p \in T!Path : Meant(c, p) => InPlace(c, p) \/ Todo(open[u], p)
  /\ result[u] = "0" => \A p \in T!Path : Meant(c, p) => InPlace(c, p)

Copying(c, u) ==
  /\ dry = FALSE /\ job = [t \in Thread |-> c]
  /\ open \in [Thread -> Seq(CopyLevel)]
  /\ result \in [Thread -> {"none", "busy", "0", "1", "not called"}]
  /\ \A t \in Thread : t # u => result[t] = "not called" /\ open[t] = <<>>
  /\ CopiesBase(c) /\ CopyOK(c, u)

CopyingInv == \E c \in T!Copies, u \in Thread : Copying(c, u)

(* What is in place stays there.                                             *)
LEMMA InPlaceStays ==
  ASSUME NEW c \in T!Copies, NEW p, Copyable(p), InPlace(c, p),
         \A q \in T!Path : tree[q] # "none" => tree'[q] = tree[q]
  PROVE  InPlace(c, p)'
<1>1. Image(c, p) \in T!Path
  BY ImageFacts
<1> QED BY <1>1 DEF InPlace

(* The actions that copy keep the invariant.                                 *)
LEMMA CopyOneKeeps ==
  ASSUME NEW c \in T!Copies, NEW u \in Thread, Copying(c, u), T!CopyOne(u)
  PROVE  Copying(c, u)'
<1> USE DEF Copying
<1>1. PICK fails \in BOOLEAN :
        /\ T!CopyFile(job[u].path, job[u].dst, fails)
        /\ result' = [result EXCEPT ![u] = IF fails THEN "1" ELSE "0"]
        /\ UNCHANGED <<open, fixed, dry, job, orig>>
        /\ result[u] = "none"
        /\ \/ T!Op(u) = "copy file"
           \/ T!Op(u) = "copy tree" /\ T!Kind(job[u].path) \in T!Content
  BY DEF T!CopyOne, T!Returns, T!Status, T!Called
<1>2. /\ job[u].path = From /\ job[u].dst = Image(c, From) /\ T!Op(u) = c.op
      /\ Copyable(From) /\ From \in T!Path
  BY CopyFacts, FromIsSource, ImageOfFrom DEF T!Op, Copyable
<1>3. /\ CopiesBase(c)'
      /\ ~fails /\ orig[From] = "text" => tree'[Image(c, From)] \in {"text", "short", "lost"}
  BY <1>1, <1>2, FileCopied
<1>4. open[u] = <<>>
  BY <1>1 DEF CopyOK
<1>5. ASSUME NEW p \in T!Path, Meant(c, p), ~fails PROVE InPlace(c, p)'
  <2>1. CASE p = From
    BY <1>3, <1>5, <2>1 DEF InPlace, Meant
  <2>2. CASE p # From
    <3>1. T!Kind(From) \in T!Content
      BY <1>1, <1>2, <1>5, <2>2, CopyFacts DEF Meant
    <3>3. T!Kind(From) = orig[From]
      <4>1. tree[From] = orig[From] /\ Plain(tree) /\ From \in T!Path
        BY <1>2, SourceStays DEF CopiesBase, Copyable
      <4>2. T!Leads(tree, From) = From
        BY <4>1, PlainLeads
      <4> QED BY <4>1, <4>2 DEF T!Kind, T!Resolve
    <3>2. orig[From] # "none"
      BY <3>1, <3>3 DEF T!Content
    <3>4. orig[From] = "dir"
      <4>1. Sound(orig) /\ T!IsPrefix(From, p) /\ orig[p] # "none"
        BY <1>5 DEF Meant, CopiesBase, Plain
      <4> QED BY <1>2, <2>2, <4>1, DirAbove
    <3> QED BY <3>1, <3>3, <3>4 DEF T!Content
  <2> QED BY <2>1, <2>2
<1>6. CopyOK(c, u)'
  <2>1. open'[u] = <<>> /\ orig' = orig
    BY <1>1, <1>4
  <2>2. result'[u] = "0" => ~fails
    BY <1>1
  <2>3. \A p \in T!Path : Meant(c, p)' => Meant(c, p)
    BY <2>1 DEF Meant
  <2>4. \A l : CopyLevelOK(c, l) => CopyLevelOK(c, l)'
    BY <2>1 DEF CopyLevelOK
  <2>5. open'[u] = open[u]
    BY <1>1
  <2> QED BY <1>5, <2>1, <2>2, <2>3, <2>4, <2>5 DEF CopyOK
<1> QED BY <1>1, <1>3, <1>6

LEMMA CopyNothingKeeps ==
  ASSUME NEW c \in T!Copies, NEW u \in Thread, Copying(c, u), T!CopyNothing(u)
  PROVE  Copying(c, u)'
<1> USE DEF Copying
<1>1. /\ tree' = tree \/ tree' = T!WithDirs(job[u].dst)
      /\ result' = [result EXCEPT ![u] = "1"]
      /\ UNCHANGED <<open, fixed, dry, job, orig>>
      /\ result[u] = "none"
  BY DEF T!CopyNothing, T!Returns, T!Called
<1>2. job[u].dst = Image(c, From) /\ Copyable(From)
  BY FromIsSource, ImageOfFrom
<1>3. CopiesBase(c)'
  <2>1. CASE tree' = tree
    BY <1>1, <2>1 DEF CopiesBase
  <2>2. CASE tree' = T!WithDirs(job[u].dst)
    BY <1>1, <1>2, <2>2, DirsMade
  <2> QED BY <1>1, <2>1, <2>2
<1>4. open[u] = <<>>
  BY <1>1 DEF CopyOK
<1>5. \A l : CopyLevelOK(c, l) => CopyLevelOK(c, l)'
  BY <1>1 DEF CopyLevelOK
<1>6. CopyOK(c, u)'
  BY <1>1, <1>4, <1>5 DEF CopyOK
<1> QED BY <1>1, <1>3, <1>6

(* A step after which directories are open.                                  *)
LEMMA CopyGoesOn ==
  ASSUME NEW c \in T!Copies, NEW u \in Thread, Copying(c, u), CopiesBase(c)',
         UNCHANGED <<dry, job, orig>>, c.op \in {"copy dir", "copy tree"},
         result' = [result EXCEPT ![u] = "busy"],
         NEW z \in Seq(CopyLevel), open' = [open EXCEPT ![u] = z],
         \A i \in 1 .. Len(z) : CopyLevelOK(c, z[i]),
         \/ HasFailed(z)
         \/ \A p \in T!Path : Meant(c, p) => InPlace(c, p)' \/ Todo(z, p)
  PROVE  Copying(c, u)'
<1> USE DEF Copying
<1>1. open'[u] = z /\ result'[u] = "busy" /\ orig' = orig
  OBVIOUS
<1>2. \A l : CopyLevelOK(c, l) => CopyLevelOK(c, l)'
  BY <1>1 DEF CopyLevelOK
<1>3. \A p : Meant(c, p)' => Meant(c, p)
  BY <1>1 DEF Meant
<1>4. CopyOK(c, u)'
  <2>1. \A i \in 1 .. Len(open'[u]) : \A l \in {open'[u][i]} : CopyLevelOK(c, l)'
    BY <1>1, <1>2
  <2>2. \/ HasFailed(open'[u])
        \/ \A p \in T!Path : Meant(c, p)' => InPlace(c, p)' \/ Todo(open'[u], p)
    BY <1>1, <1>3
  <2> QED BY <1>1, <2>1, <2>2 DEF CopyOK, HasFailed, Todo
<1> QED BY <1>4

(* A sequence of one element.                                                *)
LEMMA OneElement ==
  ASSUME NEW S, NEW e \in S
  PROVE  /\ <<e>> \in Seq(S) /\ Len(<<e>>) = 1 /\ <<e>>[1] = e
         /\ Append(<<>>, e) = <<e>>
         /\ \A i \in 1 .. Len(<<e>>) : i = 1
         /\ 1 \in 1 .. Len(<<e>>)
<1>1. <<e>> \in Seq(S) /\ Len(<<e>>) = 1 /\ <<e>>[1] = e
  OBVIOUS
<1>2. Append(<<>>, e) = <<e>>
  OBVIOUS
<1>3. \A i \in 1 .. 1 : i = 1
  OBVIOUS
<1> QED BY <1>1, <1>2, <1>3

LEMMA CopyDirectoryKeeps ==
  ASSUME NEW c \in T!Copies, NEW u \in Thread, Copying(c, u), T!CopyDirectory(u)
  PROVE  Copying(c, u)'
<1> USE DEF Copying
<1> DEFINE l == T!CopyOf(From, Image(c, From), FALSE)
<1>1. /\ job[u].path = From /\ job[u].dst = Image(c, From) /\ T!Op(u) = c.op
      /\ Copyable(From) /\ From \in T!Path
  BY CopyFacts, FromIsSource, ImageOfFrom DEF T!Op, Copyable
<1>2. /\ c.op \in {"copy dir", "copy tree"} /\ T!Kind(From) = "dir"
      /\ tree' = T!WithDirs(Image(c, From))
      /\ open' = [open EXCEPT ![u] = Append(@, l)]
      /\ result' = [result EXCEPT ![u] = "busy"]
      /\ UNCHANGED <<fixed, dry, job, orig>> /\ result[u] = "none"
  BY <1>1 DEF T!CopyDirectory, T!Opened, T!Called
<1>3. open[u] = <<>>
  BY <1>2 DEF CopyOK
<1>4. CopiesBase(c)'
  BY <1>1, <1>2, DirsMade
<1>5. orig[From] = "dir"
  <2>1. tree[From] = orig[From] /\ Plain(tree)
    BY <1>1, SourceStays DEF CopiesBase
  <2>2. T!Kind(From) = tree[From]
    BY <1>1, <2>1, PlainLeads DEF T!Kind, T!Resolve
  <2> QED BY <1>2, <2>1, <2>2
<1>6. /\ CopyLevelOK(c, l)
      /\ \A r : Copyable(r) /\ orig[r] = "text" /\ T!IsPrefix(From, r) =>
           \E n \in T!Entries(From) : T!IsPrefix(Append(From, n), r)
  BY <1>1, <1>5, CopyOpened
<1>7. l.left = T!Entries(From) /\ l.path = From
  BY DEF T!CopyOf
<1> HIDE DEF l
<1> DEFINE z == <<l>>
<1>0. l \in CopyLevel
  BY <1>6 DEF CopyLevelOK
<1>8. /\ z \in Seq(CopyLevel) /\ Len(z) = 1 /\ z[1] = l /\ Append(<<>>, l) = z
      /\ 1 \in 1 .. Len(z)
      /\ \A i \in 1 .. Len(z) : i = 1
  BY <1>0, OneElement
<1> HIDE DEF z
<1>9. open' = [open EXCEPT ![u] = z]
  BY <1>2, <1>3, <1>8
<1>11. \A i \in 1 .. Len(z) : CopyLevelOK(c, z[i])
  BY <1>6, <1>8
<1>12. ASSUME NEW p \in T!Path, Meant(c, p) PROVE Todo(z, p)
  <2>1. PICK n \in l.left : T!IsPrefix(Append(l.path, n), p)
    BY <1>6, <1>7, <1>12 DEF Meant
  <2> QED BY <1>8, <2>1 DEF Todo
<1> QED BY <1>2, <1>4, <1>8, <1>9, <1>11, <1>12, CopyGoesOn

(* z is s with its innermost level replaced by r, whose directory has no     *)
(* entry left that the level did not have, and n no longer.                  *)
Swapped(s, z, n, r) ==
  /\ HasFailed(s) => HasFailed(z)
  /\ r.failed => HasFailed(z)
  /\ \A p : Todo(s, p) => Todo(z, p) \/ T!IsPrefix(Append(s[Len(s)].path, n), p)
  /\ \A i \in 1 .. Len(z) : z[i] = r \/ (i \in 1 .. Len(s) /\ z[i] = s[i])

(* The innermost level is replaced, or another opened in it.                 *)
LEMMA CopySwapped ==
  ASSUME NEW s \in Seq(CopyLevel), s # <<>>, NEW n, NEW r \in CopyLevel,
         r.path = s[Len(s)].path, s[Len(s)].left \ {n} \subseteq r.left,
         s[Len(s)].failed => r.failed
  PROVE  Swapped(s, Append(T!Front(s), r), n, r)
<1> DEFINE z == Append(T!Front(s), r)
           L == Len(s)
<1>1. /\ L \in Nat /\ L \in 1 .. L
      /\ Len(z) = L /\ z[L] = r
      /\ \A i \in 1 .. L - 1 : z[i] = s[i]
  BY StackFacts, SwapFacts
<1> HIDE DEF z
<1>2. \A i \in 1 .. L : i = L \/ i \in 1 .. L - 1
  BY <1>1
<1>3. HasFailed(s) => HasFailed(z)
  BY <1>1, <1>2 DEF HasFailed
<1>4. r.failed => HasFailed(z)
  BY <1>1 DEF HasFailed
<1>5. ASSUME NEW p, Todo(s, p)
      PROVE  Todo(z, p) \/ T!IsPrefix(Append(s[L].path, n), p)
  <2>1. PICK i \in 1 .. L : \E m \in s[i].left : T!IsPrefix(Append(s[i].path, m), p)
    BY <1>5 DEF Todo
  <2>2. PICK m \in s[i].left : T!IsPrefix(Append(s[i].path, m), p)
    BY <2>1
  <2>3. CASE i = L
    <3>1. m = n \/ (m \in z[L].left /\ z[L].path = s[L].path)
      BY <1>1, <2>2, <2>3
    <3> QED BY <1>1, <2>2, <2>3, <3>1 DEF Todo
  <2>4. CASE i \in 1 .. L - 1
    BY <1>1, <2>1, <2>2, <2>4 DEF Todo
  <2> QED BY <1>2, <2>3, <2>4
<1>6. \A i \in 1 .. Len(z) : z[i] = r \/ (i \in 1 .. L /\ z[i] = s[i])
  BY <1>1, <1>2
<1>7. Swapped(s, z, n, r)
  BY <1>3, <1>4, <1>5, <1>6 DEF Swapped
<1> QED BY <1>7 DEF z

(* z is s and in it the level l.                                             *)
Pushed(s, z, l) ==
  /\ z \in Seq(CopyLevel)
  /\ HasFailed(s) => HasFailed(z)
  /\ \A p : Todo(s, p) => Todo(z, p)
  /\ \A p : (\E n \in l.left : T!IsPrefix(Append(l.path, n), p)) => Todo(z, p)
  /\ \A i \in 1 .. Len(z) : z[i] = l \/ (i \in 1 .. Len(s) /\ z[i] = s[i])

(* A directory is opened inside of the innermost one.                        *)
LEMMA CopyPushed ==
  ASSUME NEW s \in Seq(CopyLevel), NEW l \in CopyLevel
  PROVE  Pushed(s, Append(s, l), l)
<1> DEFINE z == Append(s, l)
           L == Len(s)
<1>1. /\ L \in Nat /\ z \in Seq(CopyLevel)
      /\ Len(z) = L + 1 /\ z[L + 1] = l
      /\ \A i \in 1 .. L : z[i] = s[i]
  BY AppendProperties
<1> HIDE DEF z
<1>2. \A i \in 1 .. L : i \in 1 .. L + 1
  BY <1>1
<1>3. \A i \in 1 .. L + 1 : i = L + 1 \/ i \in 1 .. L
  BY <1>1
<1>4. L + 1 \in 1 .. L + 1
  BY <1>1
<1>5. HasFailed(s) => HasFailed(z)
  BY <1>1, <1>2 DEF HasFailed
<1>6. \A p : Todo(s, p) => Todo(z, p)
  BY <1>1, <1>2 DEF Todo
<1>7. \A p : (\E n \in l.left : T!IsPrefix(Append(l.path, n), p)) => Todo(z, p)
  BY <1>1, <1>4 DEF Todo
<1>8. \A i \in 1 .. Len(z) : z[i] = l \/ (i \in 1 .. L /\ z[i] = s[i])
  BY <1>1, <1>3
<1>9. Pushed(s, z, l)
  BY <1>1, <1>5, <1>6, <1>7, <1>8 DEF Pushed
<1> QED BY <1>9 DEF z

(* What is known of the innermost directory that is copied.                  *)
LEMMA CopyTop ==
  ASSUME NEW c \in T!Copies, NEW u \in Thread, Copying(c, u), open[u] # <<>>
  PROVE  /\ T!Top(u) = open[u][Len(open[u])] /\ open[u] \in Seq(CopyLevel)
         /\ CopyLevelOK(c, T!Top(u)) /\ T!Top(u) \in CopyLevel
         /\ \A i \in 1 .. Len(open[u]) : CopyLevelOK(c, open[u][i])
         /\ \A n \in T!Top(u).left :
              LET p == Append(T!Top(u).path, n) IN
              /\ n \in Name /\ Copyable(p) /\ T!Kind(p) = orig[p]
              /\ Append(T!Top(u).dst, n) = Image(c, p)
<1> USE DEF Copying
<1> DEFINE s == open[u]
<1>1. s \in Seq(CopyLevel) /\ CopiesBase(c) /\ s # <<>>
      /\ \A i \in 1 .. Len(s) : CopyLevelOK(c, s[i])
  BY DEF CopyOK
<1>2. Len(s) \in 1 .. Len(s) /\ T!Top(u) = s[Len(s)]
  BY <1>1, StackFacts DEF T!Top
<1> DEFINE top == T!Top(u)
<1>3. CopyLevelOK(c, top)
  BY <1>1, <1>2
<1> HIDE DEF top, s
<1>4. ASSUME NEW n \in top.left
      PROVE  LET p == Append(top.path, n) IN
             /\ n \in Name /\ Copyable(p) /\ T!Kind(p) = orig[p]
             /\ Append(top.dst, n) = Image(c, p)
  <2> DEFINE p == Append(top.path, n)
  <2>1. /\ n \in Name /\ p \in T!Path /\ orig[p] # "none" /\ Copyable(top.path)
        /\ top.dst = Image(c, top.path) /\ top.path \in T!Path
    BY <1>3 DEF CopyLevelOK, CopyLevel
  <2>2. Copyable(p)
    BY <1>1, <2>1, EntryCopyable
  <2>3. Append(top.dst, n) = Image(c, p)
    BY <2>1, ImageEntry
  <2> HIDE DEF p
  <2>4. T!Kind(p) = tree[p] /\ tree[p] = orig[p]
    BY <1>1, <2>1, <2>2, PlainLeads, SourceStays DEF T!Kind, T!Resolve, CopiesBase
  <2> QED BY <2>1, <2>2, <2>3, <2>4 DEF p
<1>5. top \in CopyLevel
  BY <1>3 DEF CopyLevelOK
<1> QED BY <1>1, <1>2, <1>3, <1>4, <1>5 DEF top, s

(* A path below another one in the same directory is that path.              *)
LEMMA OnlyEntry ==
  ASSUME NEW p \in T!Path, NEW r \in T!Path, NEW q \in T!Path,
         T!Parent(p) = q, T!Parent(r) = q, T!IsPrefix(p, r)
  PROVE  p = r
<1>1. ASSUME NEW a \in T!Path, T!Parent(a) = q
      PROVE  Len(a) = Len(q) + 1 /\ SubSeq(a, 1, Len(a)) = a
  <2>1. a \in Seq(Name) /\ Len(a) \in Nat /\ 1 <= Len(a) /\ Len(a) <= 4
    BY PathFacts
  <2>2. q # <<>>
    BY PathFacts, EmptySeq
  <2>3. Len(a) # 1
    <3> SUFFICES ASSUME Len(a) = 1 PROVE FALSE
      OBVIOUS
    <3>1. SubSeq(a, 1, Len(a) - 1) = <<>>
      BY <2>1
    <3> QED BY <1>1, <2>2, <3>1 DEF T!Parent
  <2>4. Len(a) > 1
    BY <2>1, <2>3, UpToFour
  <2>5. Len(T!Parent(a)) = Len(a) - 1
    BY <2>1, <2>4 DEF T!Parent
  <2> QED BY <1>1, <2>1, <2>5
<1> QED BY <1>1 DEF T!IsPrefix

LEMMA CopyEntryKeeps ==
  ASSUME NEW c \in T!Copies, NEW u \in Thread, Copying(c, u), T!CopyEntry(u)
  PROVE  Copying(c, u)'
<1> USE DEF Copying
<1> DEFINE s == open[u]
           top == T!Top(u)
<1>1. /\ s # <<>> /\ T!Op(u) = c.op /\ c.op \in {"copy dir", "copy tree"}
      /\ UNCHANGED <<fixed, dry, job, result, orig>>
  BY DEF T!CopyEntry, T!Reading, T!Op
<1>2. PICK n \in top.left :
        LET p == Append(top.path, n)
            dst == Append(top.dst, n)
            rest == [top EXCEPT !.left = @ \ {n}]
        IN \/ /\ T!Kind(p) \in T!Content
              /\ \E fails \in BOOLEAN :
                   /\ T!CopyFile(p, dst, fails)
                   /\ open' = [open EXCEPT ![u] =
                        Append(T!Rest(u), [rest EXCEPT !.failed = @ \/ fails])]
           \/ /\ T!Kind(p) = "dir" /\ T!Op(u) = "copy dir"
              /\ open' = [open EXCEPT ![u] = Append(T!Rest(u), rest)]
              /\ UNCHANGED tree
           \/ /\ T!Kind(p) = "dir" /\ T!Op(u) = "copy tree"
              /\ tree' = T!WithDirs(dst)
              /\ open' = [open EXCEPT ![u] =
                   Append(T!Rest(u), rest) \o <<T!CopyOf(p, dst, FALSE)>>]
  BY DEF T!CopyEntry
<1> DEFINE p == Append(top.path, n)
           rest == [top EXCEPT !.left = @ \ {n}]
<1>3. /\ top = s[Len(s)] /\ s \in Seq(CopyLevel) /\ CopyLevelOK(c, top)
      /\ top \in CopyLevel
      /\ \A i \in 1 .. Len(s) : CopyLevelOK(c, s[i])
      /\ n \in Name /\ Copyable(p) /\ T!Kind(p) = orig[p]
      /\ Append(top.dst, n) = Image(c, p)
  BY <1>1, CopyTop
<1>4. /\ result[u] = "busy" /\ result' = [result EXCEPT ![u] = "busy"]
      /\ \/ HasFailed(s)
         \/ \A r \in T!Path : Meant(c, r) => InPlace(c, r) \/ Todo(s, r)
  BY <1>1 DEF CopyOK
<1>5. T!Rest(u) = T!Front(s)
  BY DEF T!Rest
<1>6. /\ rest \in CopyLevel /\ rest.path = top.path /\ rest.left = top.left \ {n}
      /\ rest.failed = top.failed /\ rest.dst = top.dst
  BY <1>3 DEF CopyLevel
<1>7. ASSUME NEW l \in CopyLevel, l.path = top.path, l.left = top.left \ {n}, l.dst = top.dst
      PROVE  CopyLevelOK(c, l)
  BY <1>3, <1>7 DEF CopyLevelOK
<1>8. ASSUME NEW r, Meant(c, r), orig[p] = "dir"
      PROVE  r # p
  BY <1>8 DEF Meant
<1> HIDE DEF s, top, p, rest
<1>9. s # <<>>
  BY <1>1 DEF s
<1>10. CopiesBase(c) /\ orig' = orig
  BY <1>1
<1>11. CASE orig[p] \in T!Content
  <2>1. PICK fails \in BOOLEAN :
          /\ T!CopyFile(p, Image(c, p), fails)
          /\ open' = [open EXCEPT ![u] =
               Append(T!Front(s), [rest EXCEPT !.failed = @ \/ fails])]
    BY <1>2, <1>3, <1>5, <1>11 DEF T!Content, p, rest
  <2> DEFINE l == [rest EXCEPT !.failed = @ \/ fails]
             z == Append(T!Front(s), l)
  <2>2. /\ l \in CopyLevel /\ l.path = top.path /\ l.left = top.left \ {n}
        /\ l.dst = top.dst /\ (l.failed <=> top.failed \/ fails)
    BY <1>6 DEF CopyLevel
  <2> HIDE DEF l
  <2>3. CopyLevelOK(c, l)
    BY <1>7, <2>2
  <2>4. /\ CopiesBase(c)'
        /\ \A q \in T!Path : q # Image(c, p) => tree'[q] = tree[q]
        /\ ~fails /\ orig[p] = "text" => tree'[Image(c, p)] \in {"text", "short", "lost"}
    BY <1>3, <1>10, <2>1, FileCopied
  <2>5. z \in Seq(CopyLevel)
    BY <1>3, <1>9, <2>2, SwapFacts
  <2>6. /\ HasFailed(s) => HasFailed(z)
        /\ l.failed => HasFailed(z)
        /\ \A r : Todo(s, r) => Todo(z, r) \/ T!IsPrefix(p, r)
        /\ \A i \in 1 .. Len(z) : z[i] = l \/ (i \in 1 .. Len(s) /\ z[i] = s[i])
    <3>1. /\ l.path = s[Len(s)].path /\ s[Len(s)].left \ {n} \subseteq l.left
          /\ (s[Len(s)].failed => l.failed) /\ p = Append(s[Len(s)].path, n)
      BY <1>3, <2>2 DEF p
    <3>2. s \in Seq(CopyLevel) /\ l \in CopyLevel
      BY <1>3, <2>2
    <3>3. Swapped(s, z, n, l)
      BY <1>9, <3>1, <3>2, CopySwapped
    <3> HIDE DEF z
    <3> QED BY <3>1, <3>3 DEF Swapped
  <2>7. ASSUME NEW r \in T!Path, Meant(c, r), ~HasFailed(z)
        PROVE  InPlace(c, r)' \/ Todo(z, r)
    <3>1. ~fails /\ (InPlace(c, r) \/ Todo(s, r)) /\ Copyable(r) /\ orig[r] = "text"
      BY <1>4, <2>2, <2>6, <2>7 DEF Meant
    <3>2. CASE r = p
      BY <2>4, <3>1, <3>2 DEF InPlace
    <3>3. CASE r # p
      <4>1. InPlace(c, r) => InPlace(c, r)'
        <5>1. Image(c, r) \in T!Path /\ Image(c, r) # Image(c, p)
          BY <1>3, <3>1, <3>3, ImageFacts, ImageInjective
        <5> QED BY <2>4, <5>1 DEF InPlace
      <4>2. ~T!IsPrefix(p, r)
        <5> SUFFICES ASSUME T!IsPrefix(p, r) PROVE FALSE
          OBVIOUS
        <5>1. orig[p] = "dir"
          BY <1>3, <1>10, <3>1, <3>3, DirAbove DEF CopiesBase, Plain, Copyable
        <5> QED BY <1>11, <5>1 DEF T!Content
      <4> QED BY <2>6, <3>1, <4>1, <4>2
    <3> QED BY <3>2, <3>3
  <2>8. \A i \in 1 .. Len(z) : CopyLevelOK(c, z[i])
    BY <1>3, <2>3, <2>6
  <2>9. open' = [open EXCEPT ![u] = z]
    BY <2>1 DEF l
  <2> HIDE DEF z
  <2> QED BY <1>1, <1>4, <2>4, <2>5, <2>7, <2>8, <2>9, CopyGoesOn
<1>12. ASSUME orig[p] = "dir"
       PROVE  /\ Append(T!Front(s), rest) \in Seq(CopyLevel)
              /\ HasFailed(s) => HasFailed(Append(T!Front(s), rest))
              /\ \A r : Todo(s, r) => Todo(Append(T!Front(s), rest), r) \/ T!IsPrefix(p, r)
              /\ \A i \in 1 .. Len(Append(T!Front(s), rest)) :
                    CopyLevelOK(c, Append(T!Front(s), rest)[i])
  <2>1. Append(T!Front(s), rest) \in Seq(CopyLevel)
    BY <1>3, <1>6, <1>9, SwapFacts
  <2>2. CopyLevelOK(c, rest)
    BY <1>6, <1>7
  <2>3. /\ rest.path = s[Len(s)].path /\ s[Len(s)].left \ {n} \subseteq rest.left
        /\ (s[Len(s)].failed => rest.failed) /\ p = Append(s[Len(s)].path, n)
    BY <1>3, <1>6 DEF p
  <2> DEFINE z == Append(T!Front(s), rest)
  <2>4. Swapped(s, z, n, rest)
    BY <1>3, <1>6, <1>9, <2>3, CopySwapped
  <2> HIDE DEF z
  <2>5. /\ HasFailed(s) => HasFailed(z)
        /\ \A r : Todo(s, r) => Todo(z, r) \/ T!IsPrefix(p, r)
        /\ \A i \in 1 .. Len(z) : CopyLevelOK(c, z[i])
    BY <1>3, <2>2, <2>3, <2>4 DEF Swapped
  <2> QED BY <2>1, <2>5 DEF z
<1>13. CASE orig[p] = "dir" /\ c.op = "copy dir"
  <2> DEFINE z == Append(T!Front(s), rest)
  <2>1. open' = [open EXCEPT ![u] = z] /\ tree' = tree
    BY <1>1, <1>2, <1>3, <1>5, <1>13 DEF T!Content, p, rest
  <2>2. CopiesBase(c)'
    BY <1>10, <2>1 DEF CopiesBase
  <2>3. ASSUME NEW r \in T!Path, Meant(c, r) PROVE ~T!IsPrefix(p, r)
    <3> SUFFICES ASSUME T!IsPrefix(p, r) PROVE FALSE
      OBVIOUS
    <3>1. T!Parent(r) = From /\ top.path = From /\ From \in T!Path /\ Len(From) = 1
      BY <1>3, <1>13, <2>3, FromIsSource DEF Meant, CopyLevelOK, Copyable
    <3>2. p \in T!Path /\ r \in T!Path
      BY <1>3 DEF Copyable
    <3>3. T!Parent(p) = From
      BY <1>3, <3>1, <3>2, EntryFacts DEF p
    <3>4. r = p
      BY <3>1, <3>2, <3>3, OnlyEntry
    <3> QED BY <1>8, <1>13, <2>3, <3>4
  <2>4. \A r : InPlace(c, r) => InPlace(c, r)'
    BY <2>1 DEF InPlace
  <2>5. /\ z \in Seq(CopyLevel)
        /\ \A i \in 1 .. Len(z) : CopyLevelOK(c, z[i])
        /\ \/ HasFailed(z)
           \/ \A r \in T!Path : Meant(c, r) => InPlace(c, r)' \/ Todo(z, r)
    BY <1>4, <1>12, <1>13, <2>3, <2>4
  <2> HIDE DEF z
  <2> QED BY <1>1, <1>4, <2>1, <2>2, <2>5, CopyGoesOn
<1>14. CASE orig[p] = "dir" /\ c.op = "copy tree"
  <2> DEFINE y == Append(T!Front(s), rest)
             l == T!CopyOf(p, Image(c, p), FALSE)
             z == Append(y, l)
  <2>1. /\ tree' = T!WithDirs(Image(c, p))
        /\ open' = [open EXCEPT ![u] = y \o <<l>>]
    BY <1>1, <1>2, <1>3, <1>5, <1>14 DEF T!Content, p, rest
  <2>2. /\ CopiesBase(c)'
        /\ \A q \in T!Path : tree[q] # "none" => tree'[q] = tree[q]
    BY <1>3, <1>10, <2>1, DirsMade
  <2>3. /\ CopyLevelOK(c, l)
        /\ \A r : Copyable(r) /\ orig[r] = "text" /\ T!IsPrefix(p, r) =>
             \E m \in T!Entries(p) : T!IsPrefix(Append(p, m), r)
    BY <1>3, <1>10, <1>14, CopyOpened
  <2>4. l \in CopyLevel /\ l.left = T!Entries(p) /\ l.path = p
    BY <2>3 DEF CopyLevelOK, T!CopyOf
  <2> HIDE DEF l
  <2>5. /\ y \in Seq(CopyLevel) /\ (HasFailed(s) => HasFailed(y))
        /\ \A r : Todo(s, r) => Todo(y, r) \/ T!IsPrefix(p, r)
        /\ \A i \in 1 .. Len(y) : CopyLevelOK(c, y[i])
    BY <1>12, <1>14
  <2> HIDE DEF y
  <2>6. /\ z \in Seq(CopyLevel) /\ z = y \o <<l>>
        /\ HasFailed(y) => HasFailed(z)
        /\ \A r : Todo(y, r) => Todo(z, r)
        /\ \A r : (\E m \in l.left : T!IsPrefix(Append(l.path, m), r)) => Todo(z, r)
        /\ \A i \in 1 .. Len(z) : z[i] = l \/ (i \in 1 .. Len(y) /\ z[i] = y[i])
    <3>1. Pushed(y, z, l) /\ z = y \o <<l>>
      BY <2>4, <2>5, CopyPushed, AppendIsConcat
    <3> HIDE DEF z
    <3> QED BY <3>1 DEF Pushed
  <2> HIDE DEF z
  <2>7. \A i \in 1 .. Len(z) : CopyLevelOK(c, z[i])
    BY <2>3, <2>5, <2>6
  <2>8. ASSUME NEW r \in T!Path, Meant(c, r), ~HasFailed(z)
        PROVE  InPlace(c, r)' \/ Todo(z, r)
    <3>1. Copyable(r) /\ orig[r] = "text" /\ (InPlace(c, r) \/ Todo(s, r))
      BY <1>4, <2>5, <2>6, <2>8 DEF Meant
    <3>2. InPlace(c, r) => InPlace(c, r)'
      BY <2>2, <3>1, InPlaceStays
    <3>3. T!IsPrefix(p, r) => Todo(z, r)
      BY <2>3, <2>4, <2>6, <3>1
    <3> QED BY <2>5, <2>6, <3>1, <3>2, <3>3
  <2> QED BY <1>1, <1>4, <2>1, <2>2, <2>6, <2>7, <2>8, CopyGoesOn
<1> QED BY <1>1, <1>2, <1>3, <1>11, <1>13, <1>14 DEF p

(* The innermost level is left: what failed in it is known outside of it.    *)
LEMMA CopyLeft ==
  ASSUME NEW s \in Seq(CopyLevel), s # <<>>, s[Len(s)].left = {}, T!Front(s) # <<>>
  PROVE  /\ T!Left(s) \in Seq(CopyLevel)
         /\ HasFailed(s) => HasFailed(T!Left(s))
         /\ \A p : Todo(s, p) => Todo(T!Left(s), p)
         /\ \A i \in 1 .. Len(T!Left(s)) :
              /\ i \in 1 .. Len(s) /\ T!Left(s)[i] \in CopyLevel
              /\ T!Left(s)[i].path = s[i].path /\ T!Left(s)[i].dst = s[i].dst
              /\ T!Left(s)[i].left = s[i].left
<1> DEFINE o == T!Front(s)
           L == Len(s)
           K == L - 1
           top == s[L]
           z == T!Left(s)
<1>1. /\ L \in Nat /\ L \in 1 .. L /\ o \in Seq(CopyLevel) /\ Len(o) = K
      /\ \A i \in 1 .. K : i \in 1 .. L /\ o[i] = s[i]
      /\ T!Last(s) = top /\ top \in CopyLevel
  BY StackFacts
<1>2. K \in Nat /\ K >= 1
  BY <1>1, EmptySeq
<1>3. z = [o EXCEPT ![K].failed = @ \/ top.failed]
  BY <1>1 DEF T!Left
<1>4. \A i \in 1 .. L : i = L \/ i \in 1 .. K
  BY <1>1
<1>5. \A i \in 1 .. K : o[i] \in CopyLevel
  BY <1>1, ElementOfSeq
<1> HIDE DEF o, z, K, L, top
<1>6. K \in 1 .. K
  BY <1>2
<1> DEFINE r == [o[K] EXCEPT !.failed = @ \/ top.failed]
<1>7. /\ r \in CopyLevel /\ r.path = o[K].path /\ r.dst = o[K].dst
      /\ r.left = o[K].left /\ (r.failed <=> o[K].failed \/ top.failed)
  BY <1>1, <1>5, <1>6 DEF CopyLevel
<1>8. z = [o EXCEPT ![K] = r]
  BY <1>3
<1> HIDE DEF r
<1>9. o \in [1 .. K -> CopyLevel]
  BY <1>1, LenProperties
<1>10. z \in [1 .. K -> CopyLevel]
  BY <1>7, <1>8, <1>9
<1>11. z \in Seq(CopyLevel) /\ Len(z) = K
  BY <1>2, <1>10
<1>12. z[K] = r /\ \A i \in 1 .. K : i # K => z[i] = o[i]
  BY <1>6, <1>8, <1>9
<1>13. ASSUME NEW i \in 1 .. K
       PROVE  /\ i \in 1 .. L /\ z[i] \in CopyLevel /\ z[i].path = s[i].path
              /\ z[i].dst = s[i].dst /\ z[i].left = s[i].left
              /\ s[i].failed => z[i].failed
  BY <1>1, <1>7, <1>10, <1>12
<1>14. s[L].failed => z[K].failed
  BY <1>7, <1>12 DEF top
<1>15. HasFailed(s) => HasFailed(z)
  <2> SUFFICES ASSUME NEW i \in 1 .. L, s[i].failed PROVE \E j \in 1 .. K : z[j].failed
    BY <1>11 DEF HasFailed, L
  <2> QED BY <1>4, <1>6, <1>13, <1>14
<1>16. ASSUME NEW p, Todo(s, p) PROVE Todo(z, p)
  <2>1. PICK i \in 1 .. L : \E n \in s[i].left : T!IsPrefix(Append(s[i].path, n), p)
    BY <1>16 DEF Todo, L
  <2>2. i # L
    BY <2>1 DEF L
  <2>3. i \in 1 .. K
    BY <1>4, <2>2
  <2> QED BY <1>11, <1>13, <2>1, <2>3 DEF Todo
<1> QED BY <1>11, <1>13, <1>15, <1>16 DEF L, z

(* CopyLevelOK does not speak of what failed.                                *)
LEMMA SameLevel ==
  ASSUME NEW c, NEW a \in CopyLevel, NEW b, CopyLevelOK(c, b),
         a.path = b.path, a.dst = b.dst, a.left = b.left
  PROVE  CopyLevelOK(c, a)
BY DEF CopyLevelOK

LEMMA UpToOne ==
  ASSUME NEW l, l = 1
  PROVE  1 \in 1 .. l /\ (\A i \in 1 .. l : i = 1) /\ 1 .. l - 1 = {} /\ l + 1 = 2
OBVIOUS

LEMMA CopyLeaveKeeps ==
  ASSUME NEW c \in T!Copies, NEW u \in Thread, Copying(c, u), T!CopyLeave(u)
  PROVE  Copying(c, u)'
<1> USE DEF Copying
<1> DEFINE s == open[u]
<1>1. /\ s # <<>> /\ c.op \in {"copy dir", "copy tree"} /\ T!Top(u).left = {}
      /\ open' = [open EXCEPT ![u] = T!Left(s)]
      /\ result' = [result EXCEPT ![u] =
                      IF T!Front(s) = <<>> THEN T!Status(T!Top(u).failed) ELSE @]
      /\ UNCHANGED <<tree, fixed, dry, job, orig>>
  BY DEF T!CopyLeave, T!Reading, T!Op, T!Rest
<1>2. /\ T!Top(u) = s[Len(s)] /\ s \in Seq(CopyLevel)
      /\ \A i \in 1 .. Len(s) : CopyLevelOK(c, s[i])
  BY <1>1, CopyTop
<1>3. /\ result[u] = "busy"
      /\ \/ HasFailed(s)
         \/ \A r \in T!Path : Meant(c, r) => InPlace(c, r) \/ Todo(s, r)
  BY <1>1 DEF CopyOK
<1>4. CopiesBase(c)'
  BY <1>1 DEF CopiesBase
<1>5. \A r : /\ InPlace(c, r) => InPlace(c, r)'
             /\ Meant(c, r)' => Meant(c, r)
  BY <1>1 DEF InPlace, Meant
<1>6. CASE T!Front(s) = <<>>
  <2>1. /\ Len(T!Front(s)) = Len(s) - 1 /\ Len(s) = 1 /\ T!Front(s) \in Seq(CopyLevel)
    BY <1>1, <1>2, <1>6, StackFacts
  <2>2. T!Left(s) = T!Front(s)
    BY <1>6 DEF T!Left
  <2>3. /\ open'[u] = T!Front(s) /\ open'[u] = <<>> /\ open'[u] \in Seq(CopyLevel)
        /\ 1 .. Len(open'[u]) = {}
    <3>1. open'[u] = T!Front(s)
      BY <1>1, <2>2
    <3>2. 1 .. Len(T!Front(s)) = {}
      BY <2>1, UpToOne
    <3> QED BY <1>6, <2>1, <3>1, <3>2
  <2>4. ASSUME result'[u] = "0", NEW r \in T!Path, Meant(c, r) PROVE InPlace(c, r)'
    <3>1. ~T!Top(u).failed
      BY <1>1, <1>6, <2>4 DEF T!Status
    <3>2. \A i \in 1 .. Len(s) : i = 1
      BY <2>1, UpToOne
    <3>3. ~HasFailed(s)
      BY <1>2, <2>1, <3>1, <3>2 DEF HasFailed
    <3>4. ~Todo(s, r)
      BY <1>1, <1>2, <2>1, <3>2 DEF Todo
    <3> QED BY <1>3, <1>5, <2>4, <3>3, <3>4
  <2>5. CopyOK(c, u)'
    BY <1>5, <2>3, <2>4 DEF CopyOK
  <2>6. open' \in [Thread -> Seq(CopyLevel)]
    BY <1>1, <2>3
  <2>7. result' \in [Thread -> {"none", "busy", "0", "1", "not called"}]
    BY <1>1 DEF T!Status
  <2> QED BY <1>1, <1>4, <2>5, <2>6, <2>7
<1>7. CASE T!Front(s) # <<>>
  <2> DEFINE z == T!Left(s)
  <2>1. /\ z \in Seq(CopyLevel) /\ (HasFailed(s) => HasFailed(z))
        /\ \A p : Todo(s, p) => Todo(z, p)
        /\ \A i \in 1 .. Len(z) :
             /\ i \in 1 .. Len(s) /\ z[i] \in CopyLevel
             /\ z[i].path = s[i].path /\ z[i].dst = s[i].dst
             /\ z[i].left = s[i].left
    BY <1>1, <1>2, <1>7, CopyLeft
  <2>2. open' = [open EXCEPT ![u] = z] /\ result' = [result EXCEPT ![u] = "busy"]
    BY <1>1, <1>3, <1>7
  <2> HIDE DEF z
  <2>3. \A i \in 1 .. Len(z) : CopyLevelOK(c, z[i])
    BY <1>2, <2>1, SameLevel
  <2>4. \/ HasFailed(z)
        \/ \A r \in T!Path : Meant(c, r) => InPlace(c, r)' \/ Todo(z, r)
    BY <1>3, <1>5, <2>1
  <2> QED BY <1>1, <1>4, <2>1, <2>2, <2>3, <2>4, CopyGoesOn
<1> QED BY <1>6, <1>7

(* The invariant says what T!TreesHonest says of copying.                    *)
LEMMA CopyingHonest ==
  ASSUME CopyingInv
  PROVE  T!TreesHonest
<1> PICK c \in T!Copies, u \in Thread : Copying(c, u)
  BY DEF CopyingInv
<1> USE DEF Copying
<1>1. /\ c.path = From /\ c.op \in {"copy file", "copy dir", "copy tree"}
      /\ \A t \in Thread : job[t] = c
      /\ DOMAIN tree = T!Path
  BY CopyFacts DEF CopiesBase, Plain, Sound
<1>2. c \notin T!Deletions
  BY <1>1 DEF T!Deletions
<1>3. T!DeletedIsGone /\ T!StaysForAReason /\ T!DeletesOnlyBelow
  BY <1>1, <1>2 DEF T!DeletedIsGone, T!StaysForAReason, T!DeletesOnlyBelow, T!Deletes, T!Op
<1>4. ASSUME NEW t \in Thread, T!Copied(t), NEW p \in T!Below(From), orig[p] = "text",
             T!Op(t) = "copy file" => p = From,
             T!Op(t) = "copy dir" => T!Parent(p) = From
      PROVE  tree[job[t].dst \o SubSeq(p, Len(From) + 1, Len(p))] \in {"text", "short", "lost"}
  <2>1. t = u /\ result[u] = "0" /\ T!Op(t) = c.op
    BY <1>1, <1>4 DEF T!Copied, T!Op
  <2>2. p \in T!Path /\ T!IsPrefix(From, p)
    BY <1>1, <1>4 DEF T!Below
  <2>3. p[1] = T!Other
    <3>1. From \in T!Path /\ Len(From) = 1 /\ From[1] = T!Other
      BY FromIsSource DEF Copyable
    <3>2. Upto(From, 1) = Upto(p, 1) /\ Len(p) \in Nat /\ 1 <= Len(p)
      BY <2>2, <3>1, PathFacts DEF T!IsPrefix, Upto
    <3>3. 1 \in 1 .. Len(p) /\ 1 \in 1 .. Len(From)
      BY <2>2, <3>1, PathFacts, UpToFour, UpToOne
    <3>4. Upto(From, 1)[1] = From[1] /\ Upto(p, 1)[1] = p[1]
      BY <2>2, <3>1, <3>3, UptoFacts
    <3> QED BY <3>1, <3>2, <3>4
  <2>4. Copyable(p)
    BY <1>4, <2>2, <2>3 DEF Copyable, CopiesBase, Shallow
  <2>5. InPlace(c, p)
    BY <1>4, <2>1, <2>2, <2>4 DEF CopyOK, Meant
  <2>6. Len(From) + 1 = 2
    BY FromIsSource, UpToOne
  <2> QED BY <1>1, <2>5, <2>6 DEF InPlace, Image
<1>5. T!CopiesAll
  BY <1>1, <1>4 DEF T!CopiesAll
<1>6. T!CopiesOnlyThere
  BY <1>1 DEF T!CopiesOnlyThere, CopiesBase
<1> QED BY <1>3, <1>5, <1>6 DEF T!TreesHonest

-----------------------------------------------------------------------------
(* Trees: from the first state on                                            *)

TreesInv == DeletingInv \/ CopyingInv

(* The trees that Init begins with are sound.                                *)
LEMMA TreesAreSound ==
  ASSUME NEW o \in T!Trees
  PROVE  Sound(o) /\ Shallow(o)
<1>1. PICK d \in [T!Planted -> {"none", "dir", "link", "text"}] :
        /\ d[T!Deep] \in {"none", "text"}
        /\ \A p \in T!Planted :
             /\ Len(p) > 1 /\ d[p] # "none" => d[T!Parent(p)] = "dir"
             /\ T!IsPrefix(Target, p) => d[p] # "link"
        /\ o = [p \in T!Path |-> IF p \in T!Planted THEN d[p] ELSE "none"]
  BY DEF T!Trees
<1>2. T!Deep \in T!Path /\ Len(T!Deep) = 3
  <2>1. T!Deep \in Seq(Name) /\ Len(T!Deep) = 3
    BY OtherIs DEF T!Deep
  <2>2. Len(T!Deep) \in Nat /\ 1 <= Len(T!Deep) /\ Len(T!Deep) <= 3
    BY <2>1
  <2> QED BY <2>1, <2>2, ShortPath
<1>3. o \in [T!Path -> Kinds]
  BY <1>1 DEF Kinds, T!Content
<1>4. T!Planted \subseteq T!Path
  BY <1>2 DEF T!Planted
<1>5. ASSUME NEW p \in T!Path, Len(p) > 1, o[p] # "none"
      PROVE  o[T!Parent(p)] = "dir"
  <2>1. p \in T!Planted /\ d[T!Parent(p)] = "dir"
    BY <1>1, <1>5
  <2>2. T!Parent(p) \in T!Path
    BY <1>5, ParentIsPath
  <2>3. T!Parent(p) \in T!Planted
    <3>1. Len(p) \in Nat /\ Len(p) <= 3
      BY <1>2, <2>1, PathFacts DEF T!Planted
    <3>2. Len(T!Parent(p)) = Len(p) - 1
      <4>1. Len(p) - 1 \in 1 .. Len(p)
        BY <1>5, PathFacts
      <4> QED BY <4>1, UptoFacts DEF T!Parent, Upto
    <3> QED BY <2>2, <3>1, <3>2 DEF T!Planted
  <2> QED BY <1>1, <2>1, <2>2, <2>3
<1>6. ASSUME NEW p \in T!Path, p[1] = Home PROVE o[p] # "link"
  <2>1. T!IsPrefix(Target, p)
    <3>1. Target \in Seq(Name) /\ Len(Target) = 1 /\ Target[1] = Home
      BY HomeIs
    <3>2. 1 \in 1 .. Len(p) /\ 1 <= Len(p)
      BY PathFacts, UpToFour
    <3>3. /\ Upto(p, 1) \in Seq(Name) /\ Len(Upto(p, 1)) = 1 /\ Upto(p, 1)[1] = p[1]
      BY <3>2, UptoFacts, PathFacts
    <3>4. \A i \in 1 .. Len(Target) : Target[i] = Upto(p, 1)[i]
      BY <1>6, <3>1, <3>3, UpToOne
    <3>5. Target = Upto(p, 1)
      BY <3>1, <3>3, <3>4, SeqEqual
    <3>6. SubSeq(Target, 1, 1) = Target
      BY <3>1
    <3> QED BY <3>1, <3>2, <3>5, <3>6 DEF T!IsPrefix, Upto
  <2> QED BY <1>1, <2>1
<1>7. Sound(o)
  BY <1>3, <1>5, <1>6 DEF Sound
<1>8. ASSUME NEW p \in T!Path, o[p] # "none" PROVE Len(p) <= 2 \/ p = T!Deep
  <2>1. p \in T!Planted
    BY <1>1, <1>8
  <2> QED BY <2>1, PathFacts DEF T!Planted
<1>9. o[T!Deep] \in {"none", "text"}
  BY <1>1, <1>2
<1> QED BY <1>7, <1>8, <1>9 DEF Shallow

(* The invariant holds at first.                                             *)
LEMMA TreesInit ==
  ASSUME T!Init
  PROVE  TreesInv
<1>1. /\ orig \in T!Trees /\ tree = orig /\ open = [t \in Thread |-> <<>>]
  BY DEF T!Init
<1>2. Sound(orig) /\ Shallow(orig)
  BY <1>1, TreesAreSound
<1>3. Less(tree, orig)
  BY <1>1 DEF Less
<1>4. CASE /\ dry \in {fixed = {}, FALSE}
           /\ job \in [Thread -> T!Deletions]
           /\ result = [t \in Thread |-> "none"]
  <2>1. <<>> \in Seq(Level)
    OBVIOUS
  <2>2. ASSUME NEW t \in Thread PROVE ThreadOK(t)
    <3>1. open[t] = <<>> /\ result[t] = "none"
      BY <1>1, <1>4
    <3>2. StackOK(t)
      <4>1. \A i : i \notin 1 .. Len(open[t])
        BY <3>1
      <4> QED BY <2>1, <3>1, <4>1 DEF StackOK
    <3> QED BY <3>1, <3>2 DEF ThreadOK
  <2> QED BY <1>1, <1>2, <1>3, <1>4, <2>1, <2>2 DEF TreesInv, DeletingInv, OnlyRemoved, Stacks
<1>5. ASSUME dry = FALSE, \A p \in DOMAIN tree : tree[p] # "link",
             NEW u \in Thread, NEW c \in T!Copies,
             job = [t \in Thread |-> c],
             result = [t \in Thread |-> IF t = u THEN "none" ELSE "not called"]
      PROVE  Copying(c, u)
  <2>1. CopiesBase(c)
    BY <1>1, <1>2, <1>5 DEF CopiesBase, Plain, Sound
  <2>2. <<>> \in Seq(CopyLevel)
    OBVIOUS
  <2>3. open[u] = <<>> /\ result[u] = "none"
    BY <1>1, <1>5
  <2>4. CopyOK(c, u)
    <3>1. \A i : i \notin 1 .. Len(open[u])
      BY <2>3
    <3> QED BY <2>2, <2>3, <3>1 DEF CopyOK
  <2> QED BY <1>1, <1>5, <2>1, <2>2, <2>4 DEF Copying
<1> QED BY <1>4, <1>5 DEF T!Init, TreesInv, CopyingInv

(* Threads that delete never copy, the one that copies never deletes, and the*)
(* others are not called.                                                    *)
LEMMA DeletingStep ==
  ASSUME DeletingInv, NEW t \in Thread,
         \/ T!Pretend(t) \/ T!DeleteTree(t) \/ T!DeleteOne(t) \/ T!DeleteEntry(t)
         \/ T!DeleteEmptied(t)
         \/ T!CopyOne(t) \/ T!CopyNothing(t) \/ T!CopyDirectory(t)
         \/ T!CopyEntry(t) \/ T!CopyLeave(t)
  PROVE  DeletingInv'
<1>1. T!Op(t) \in {"delete file", "delete dir", "delete tree"}
  BY JobPath DEF DeletingInv
<1>2. ~T!CopyOne(t) /\ ~T!CopyNothing(t) /\ ~T!CopyDirectory(t)
  BY <1>1 DEF T!CopyOne, T!CopyNothing, T!CopyDirectory, T!Called
<1>3. ~T!CopyEntry(t) /\ ~T!CopyLeave(t)
  BY <1>1 DEF T!CopyEntry, T!CopyLeave
<1> QED BY <1>2, <1>3, PretendKeeps, DeleteTreeKeeps, DeleteOneKeeps,
           DeleteEntryKeeps, DeleteEmptiedKeeps

LEMMA CopyingStep ==
  ASSUME NEW c \in T!Copies, NEW u \in Thread, Copying(c, u), NEW t \in Thread,
         \/ T!Pretend(t) \/ T!DeleteTree(t) \/ T!DeleteOne(t) \/ T!DeleteEntry(t)
         \/ T!DeleteEmptied(t)
         \/ T!CopyOne(t) \/ T!CopyNothing(t) \/ T!CopyDirectory(t)
         \/ T!CopyEntry(t) \/ T!CopyLeave(t)
  PROVE  Copying(c, u)'
<1>1. T!Op(t) = c.op /\ c.op \in {"copy file", "copy dir", "copy tree"} /\ dry = FALSE
  BY CopyFacts DEF Copying, T!Op
<1>2. ~T!Pretend(t) /\ ~T!DeleteTree(t) /\ ~T!DeleteOne(t)
  BY <1>1 DEF T!Pretend, T!DeleteTree, T!DeleteOne, T!Called
<1>3. ~T!DeleteEntry(t) /\ ~T!DeleteEmptied(t)
  BY <1>1 DEF T!DeleteEntry, T!DeleteEmptied
<1>4. result[t] = "none" \/ open[t] # <<>>
  BY <1>2, <1>3 DEF T!CopyOne, T!CopyNothing, T!CopyDirectory, T!CopyEntry,
                    T!CopyLeave, T!Called, T!Reading
<1>5. t = u
  BY <1>4 DEF Copying
<1> QED BY <1>2, <1>3, <1>5, CopyOneKeeps, CopyNothingKeeps, CopyDirectoryKeeps,
           CopyEntryKeeps, CopyLeaveKeeps

(* A step of something else changes nothing.                                 *)
LEMMA TreesStay ==
  ASSUME TreesInv, UNCHANGED T!vars
  PROVE  TreesInv'
<1>1. UNCHANGED <<tree, fixed, dry, job, open, result, orig>>
  BY DEF T!vars
<1>2. ASSUME DeletingInv PROVE DeletingInv'
  <2> USE DEF DeletingInv
  <2>1. Removing
    BY <1>1, <1>2 DEF Removing, OnlyRemoved, Less
  <2>2. ASSUME NEW t \in Thread PROVE ThreadOK(t)'
    <3>1. ThreadOK(t) /\ StackOK(t)
      BY <1>2 DEF ThreadOK
    <3>2. StackOK(t)'
      BY <1>1, <1>2, <2>1, <3>1, StackStays
    <3>3. Reason(t) => Reason(t)'
      BY <1>2, <2>1, RemovingKeeps
    <3>4. T!Itself(job[t].path)' = T!Itself(job[t].path) /\ T!Op(t)' = T!Op(t)
      BY <1>1 DEF T!Itself, T!Op
    <3> QED BY <1>1, <3>1, <3>2, <3>3, <3>4 DEF ThreadOK
  <2>3. OnlyRemoved'
    BY <1>2, <2>1, RemovingKeeps
  <2>4. \A q : Reachable(q) => Reachable(q)'
    BY <1>1 DEF Reachable
  <2> QED BY <1>1, <1>2, <2>2, <2>3, <2>4 DEF Stacks
<1>3. ASSUME NEW c \in T!Copies, NEW u \in Thread, Copying(c, u)
      PROVE  Copying(c, u)'
  <2> USE DEF Copying
  <2>1. CopiesBase(c)'
    BY <1>1, <1>3 DEF CopiesBase
  <2>2. \A l : CopyLevelOK(c, l) => CopyLevelOK(c, l)'
    BY <1>1 DEF CopyLevelOK
  <2>3. \A p : (Meant(c, p) <=> Meant(c, p)') /\ (InPlace(c, p) <=> InPlace(c, p)')
    BY <1>1 DEF Meant, InPlace
  <2>4. CopyOK(c, u)'
    BY <1>1, <1>3, <2>2, <2>3 DEF CopyOK
  <2> QED BY <1>1, <1>3, <2>1, <2>4
<1> QED BY <1>2, <1>3 DEF TreesInv, CopyingInv

(* Every step of the threads keeps the invariant.                            *)
LEMMA TreesStep ==
  ASSUME TreesInv, [T!Next]_(T!vars)
  PROVE  TreesInv'
<1>1. ASSUME NEW t \in Thread,
             \/ T!Pretend(t) \/ T!DeleteTree(t) \/ T!DeleteOne(t) \/ T!DeleteEntry(t)
             \/ T!DeleteEmptied(t)
             \/ T!CopyOne(t) \/ T!CopyNothing(t) \/ T!CopyDirectory(t)
             \/ T!CopyEntry(t) \/ T!CopyLeave(t)
      PROVE  TreesInv'
  <2>1. DeletingInv => DeletingInv'
    BY <1>1, DeletingStep
  <2>2. \A c \in T!Copies, u \in Thread : Copying(c, u) => Copying(c, u)'
    BY <1>1, CopyingStep
  <2> QED BY <2>1, <2>2 DEF TreesInv, CopyingInv
<1>2. CASE UNCHANGED T!vars
  BY <1>2, TreesStay
<1> QED BY <1>1, <1>2 DEF T!Next, T!Done

(* The functions that delete and copy are honest.                            *)
LEMMA TreesHonestly == ASSUME TreesInv PROVE T!TreesHonest
BY DeletingHonest, CopyingHonest DEF TreesInv, CopyingInv
-----------------------------------------------------------------------------
(* The services together                                                     *)

(* The invariants of the services.  Those of the others hold from the start; *)
(* directories, trees and the front end have one when they are what is used. *)
ServicesInv ==
  /\ service \in Service
  /\ PrintInv /\ ArgvInv /\ EntriesInv
  /\ service = "paths" => PathsInv
  /\ service = "trees" => TreesInv
  /\ service = "main" => MainInv

(* A step of one service is none of the others.                              *)
LEMMA StepsApart ==
  [Next]_vars =>
    /\ service' = service
    /\ [P!Next]_(P!vars) /\ [A!Next]_(A!vars) /\ [C!Next]_(C!vars)
    /\ service = "paths" => [M!Next]_(M!vars)
    /\ service = "trees" => [T!Next]_(T!vars)
    /\ service = "main" => [R!Next]_(R!vars)
<1> SUFFICES ASSUME [Next]_vars
             PROVE  /\ service' = service
                    /\ [P!Next]_(P!vars) /\ [A!Next]_(A!vars) /\ [C!Next]_(C!vars)
                    /\ service = "paths" => [M!Next]_(M!vars)
                    /\ service = "trees" => [T!Next]_(T!vars)
                    /\ service = "main" => [R!Next]_(R!vars)
  OBVIOUS
<1> USE DEF P!vars, A!vars, C!vars, M!vars, T!vars, R!vars, printVars, argvVars,
            entriesVars, pathsVars, treesVars, mainVars
<1>1. CASE PrintBytes
  BY <1>1 DEF PrintBytes
<1>2. CASE BuildArgv
  BY <1>2 DEF BuildArgv
<1>3. CASE AppendEntries
  BY <1>3 DEF AppendEntries
<1>4. CASE MakePaths
  BY <1>4 DEF MakePaths
<1>5. CASE UseTrees
  BY <1>5 DEF UseTrees
<1>6. CASE StartScript
  BY <1>6 DEF StartScript
<1>7. CASE UNCHANGED vars
  BY <1>7 DEF vars
<1> QED BY <1>1, <1>2, <1>3, <1>4, <1>5, <1>6, <1>7 DEF Next, Done

(* The invariant of Services.                                                *)
LEMMA Invariance == Spec => []ServicesInv
<1>1. Init => ServicesInv
  BY PrintInit, ArgvInit, EntriesInit, PathsInit, TreesInit, MainInit
  DEF Init, Begun, ServicesInv
<1>2. ServicesInv /\ [Next]_vars => ServicesInv'
  BY StepsApart, PrintStep, ArgvStep, EntriesStep, PathsStep, TreesStep, MainStep
  DEF ServicesInv
<1> QED BY <1>1, <1>2, PTL DEF Spec

(* However threads mix zmm_printf, zmm_lprintf and zmm_lemit, at whatever    *)
(* lengths of blocks and buffers: every byte reaches stdout once, in its     *)
(* thread's order, or waits in its buffer; and what zmm_lemit hands over, or *)
(* one zmm_printf shorter than its buffer prints, stays together.            *)
THEOREM OutputStaysWhole == Spec => []OutputWhole
<1>1. ServicesInv => OutputWhole
  BY PrintedWhole DEF ServicesInv, OutputWhole
<1> QED BY <1>1, Invariance, PTL

(* However the buffer and the array grow, and whether an argument came at    *)
(* once or in parts: the string at the i-th entry's offset is the i-th       *)
(* argument that was appended.                                               *)
THEOREM TextsAreKept == Spec => []TextsKept
BY Invariance, TextsRead, PTL DEF ServicesInv

(* Within the capacities zmm_argvb_initcap was told, up to the last          *)
(* character and the last entry: nothing is written outside of its block     *)
(* and every entry points into the buffer.                                   *)
THEOREM SafeUpToCapacity == Spec => []SafeWithinCapacity
<1>1. ArgvInv => SafeWithinCapacity
  BY DEF ArgvInv, NotGrown, SafeWithinCapacity, A!SafeWithinCapacity, A!PointersValid
<1> QED BY <1>1, Invariance, PTL DEF ServicesInv

(* However many builders append at once: at every moment the file and what   *)
(* is buffered are the beginning of an array of whole entries, one for each  *)
(* call, none mixed with another; and the finished file is that array.       *)
THEOREM EntriesStayWhole == Spec => []EntriesWhole
BY Invariance, EntriesAreWhole, PTL DEF ServicesInv

(* zmm_fs_create_dir_path returns 0 only when the directory and all above it *)
(* are there, and 1 only for a reason that lasts, however many threads make  *)
(* directories of the same tree at once, and however deep.                   *)
THEOREM DirectoriesHonest == Spec => []StatusHonest
<1>1. ServicesInv => StatusHonest
  BY DEF ServicesInv, PathsInv, StatusHonest
<1> QED BY <1>1, Invariance, PTL

(* However the trees overlap that threads delete at once, wherever links     *)
(* lead and whatever is fixed: a deletion returns 0 only when nothing is     *)
(* left, and delete_tree 1 only for a reason that lasts; a copy returns 0    *)
(* only when all it was meant to write is in place; and neither touches      *)
(* anything else.                                                            *)
THEOREM TreesAreHonest == Spec => []TreesHonest
<1>1. ServicesInv => TreesHonest
  BY TreesHonestly DEF ServicesInv, TreesHonest
<1> QED BY <1>1, Invariance, PTL

(* Whatever a developer edits, and whenever, and wherever main is            *)
(* interrupted: the script that main runs was compiled by the command of the *)
(* config it has read, and from every source as it was when main compared    *)
(* the times, or as it is after a later change.                              *)
THEOREM MainRunsCurrent == Spec => []RunsCurrent
<1>1. ServicesInv => RunsCurrent
  BY DEF ServicesInv, MainInv, RunsCurrent
<1> QED BY <1>1, Invariance, PTL
===============================================================================
