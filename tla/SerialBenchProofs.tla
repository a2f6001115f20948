--------------------------- MODULE SerialBenchProofs ---------------------------
(***************************************************************************)
(* The lock of the scripts, the deletion of the tool's connection, and the *)
(* response that the tool prints, for any number of instances, signals,    *)
(* runs and requests, and answers of any length.                           *)
(***************************************************************************)
EXTENDS SerialBench, TLAPS

-----------------------------------------------------------------------------
(* The script. *)

\* The types that TypeOK needs: an answer has a length.
MscTypes ==
    /\ Msc!TypeOK
    /\ count \in [Instances -> Nat] /\ sent \in [Instances -> Nat]
    /\ DOMAIN answer = Instances
    /\ \A i \in Instances : answer[i].len \in Nat
    /\ response.len \in Nat

\* LockHeld is not inductive: an instance that runs was one that started, alone,
\* and what the one that starts has found out of the lock is still true.
Lock ==
    ~lapsed =>
        /\ \A i, j \in Instances : pc[i] \in Msc!Starting /\ pc[j] \in Msc!Starting => i = j
        /\ \A i \in Instances : pc[i] \in Msc!Running => lockFile = [inode |-> i, pid |-> i]
        /\ \A i \in Instances : pc[i] = "echo" =>
             lockFile = [inode |-> i, pid |-> Nobody] /\ fd[i] = i
        /\ \A i \in Instances : pc[i] = "create" => lockFile = Msc!NoFile
        /\ \A i, j \in Instances : pc[i] = "stale" => pc[j] \notin Msc!Running
        /\ \A i, j \in Instances : pc[i] = "ps" /\ pc[j] \in Msc!Running => lockPid[i] = j

MscInv == MscTypes /\ Lock

\* The invariant of the scripts holds at the beginning.
LEMMA MscInit == Init => MscInv
<1> SUFFICES ASSUME Msc!Init PROVE MscInv
  BY DEF Init
<1>1. MscTypes
  <2>1. /\ \A i \in Instances : answer[i].len = 0
        /\ DOMAIN answer = Instances /\ response.len = 0
    BY DEF Msc!Init, Msc!NoAnswer
  <2>2. /\ pc \in [Instances -> {"off", "cleanup", "ended"} \cup Msc!Starting \cup Msc!Running]
        /\ lockPid \in [Instances -> Instances \cup {Nobody}]
        /\ fd \in [Instances -> Instances \cup {Nobody}]
        /\ lapsed \in BOOLEAN
    BY DEF Msc!Init
  <2>3. lockFile \in [inode : Instances \cup {Nobody}, pid : Instances \cup {Nobody}]
    BY DEF Msc!Init, Msc!NoFile
  <2>4. /\ count \in [Instances -> Nat] /\ sent \in [Instances -> Nat]
        /\ \A i \in Instances : sent[i] <= count[i]
    BY DEF Msc!Init
  <2> QED
    BY <2>1, <2>2, <2>3, <2>4 DEF MscTypes, Msc!TypeOK
<1>2. Lock
  BY DEF Msc!Init, Lock, Msc!Starting, Msc!Running
<1> QED
  BY <1>1, <1>2 DEF MscInv

\* A step that moves one instance, and touches neither answers nor line.
LEMMA LockSteps ==
    ASSUME MscInv, NEW i \in Instances,
           \/ Msc!Start(i) \/ Msc!Check(i) \/ Msc!Cat(i) \/ Msc!Ps(i) \/ Msc!RemoveStale(i)
           \/ Msc!Create(i) \/ Msc!Echo(i) \/ Msc!CleanUp(i)
    PROVE  MscInv'
<1> USE NobodyAssumption DEF MscInv
<1> USE DEF Msc!Step, Msc!Starting, Msc!Running, Msc!NoFile, Msc!answerVars
<1>2. CASE Msc!Start(i)
  <2>1. MscTypes'
    BY <1>2 DEF MscTypes, Msc!TypeOK, Msc!Start
  <2>2. Lock'
    <3> SUFFICES ASSUME ~lapsed' PROVE Lock'
      BY DEF Lock
    <3>1. /\ pc'[i] = "check" /\ ~lapsed /\ UNCHANGED <<lockFile, lockPid, fd>>
          /\ \A j \in Instances : j # i => pc'[j] = pc[j] /\ pc[j] \notin Msc!Starting
      BY <1>2 DEF Msc!Start, MscTypes, Msc!TypeOK
    <3> QED
      BY <3>1 DEF Lock
  <2> QED
    BY <2>1, <2>2 DEF MscInv
<1>3. CASE Msc!Check(i)
  <2>1. /\ pc[i] = "check"
        /\ pc' = [pc EXCEPT ![i] = IF lockFile = Msc!NoFile THEN "create" ELSE "cat"]
        /\ UNCHANGED <<lockFile, lockPid, fd, lapsed, received, answer, response, count, sent, orphans>>
    BY <1>3 DEF Msc!Check, Msc!lockVars
  <2>2. MscTypes'
    BY <2>1 DEF MscTypes, Msc!TypeOK
  <2>3. Lock'
    BY <2>1 DEF MscTypes, Msc!TypeOK, Lock
  <2> QED
    BY <2>2, <2>3 DEF MscInv
<1>4. CASE Msc!Cat(i)
  BY <1>4 DEF MscTypes, Msc!TypeOK, Lock, Msc!Cat
<1>5. CASE Msc!Ps(i)
  BY <1>5 DEF MscTypes, Msc!TypeOK, Lock, Msc!Ps, Msc!Refuses, Msc!Alive
<1>6. CASE Msc!RemoveStale(i)
  BY <1>6 DEF MscTypes, Msc!TypeOK, Lock, Msc!RemoveStale
<1>7. CASE Msc!Create(i)
  BY <1>7 DEF MscTypes, Msc!TypeOK, Lock, Msc!Create
<1>8. CASE Msc!Echo(i)
  <2>1. MscTypes'
    <3>1. /\ lockFile' \in [inode : Instances \cup {Nobody}, pid : Instances \cup {Nobody}]
          /\ fd' \in [Instances -> Instances \cup {Nobody}]
      BY <1>8 DEF Msc!Echo, MscTypes, Msc!TypeOK
    <3>2. pc' \in [Instances -> {"off", "cleanup", "ended"} \cup Msc!Starting \cup Msc!Running]
      BY <1>8 DEF Msc!Echo, MscTypes, Msc!TypeOK
    <3>3. UNCHANGED <<lockPid, lapsed, answer, response, count, sent>>
      BY <1>8 DEF Msc!Echo
    <3> QED
      BY <3>1, <3>2, <3>3 DEF MscTypes, Msc!TypeOK
  <2>2. Lock'
    <3> SUFFICES ASSUME ~lapsed' PROVE Lock'
      BY DEF Lock
    <3>1. /\ pc[i] = "echo" /\ pc'[i] \in {"wait", "cleanup"} /\ lockPid' = lockPid
          /\ \A j \in Instances : j # i => pc'[j] = pc[j]
          /\ ~lapsed
      BY <1>8 DEF Msc!Echo, MscTypes, Msc!TypeOK
    <3>2. lockFile' = [inode |-> i, pid |-> i]
      BY <1>8, <3>1 DEF Msc!Echo, Lock
    <3>3. \A j \in Instances : j # i => pc[j] \notin Msc!Starting /\ pc[j] \notin Msc!Running
      BY <3>1 DEF Lock
    <3> QED
      BY <3>1, <3>2, <3>3 DEF Lock
  <2> QED
    BY <2>1, <2>2 DEF MscInv
<1>9. CASE Msc!CleanUp(i)
  <2>1. MscTypes'
    BY <1>9 DEF MscTypes, Msc!TypeOK, Msc!CleanUp
  <2>2. Lock'
    <3> SUFFICES ASSUME ~lapsed' PROVE Lock'
      BY DEF Lock
    <3>1. /\ pc'[i] = "ended" /\ ~lapsed /\ UNCHANGED <<lockPid, fd>>
          /\ lockFile' = Msc!NoFile
          /\ \A j \in Instances : j # i => pc'[j] = pc[j]
      BY <1>9 DEF Msc!CleanUp, MscTypes, Msc!TypeOK
    <3>2. lockFile.inode \in {Nobody, i} \/ pc[lockFile.inode] \in {"off", "ended"}
      BY <1>9 DEF Msc!CleanUp, Msc!Alive
    <3>3. \A j \in Instances : j # i => pc[j] \notin Msc!Running /\ pc[j] # "echo"
      BY <3>1, <3>2 DEF Lock
    <3> QED
      BY <3>1, <3>3 DEF Lock
  <2> QED
    BY <2>1, <2>2 DEF MscInv
<1> QED
  BY <1>2, <1>3, <1>4, <1>5, <1>6, <1>7, <1>8, <1>9

\* A step of the loop, or an interruption: the file is left as it is.
LEMMA LoopSteps ==
    ASSUME MscInv, NEW i \in Instances,
           \/ Msc!Interrupt(i) \/ Msc!Receive(i) \/ Msc!OrphanReads(i)
           \/ Msc!TypeAnswer(i) \/ Msc!TypeOther(i)
           \/ Msc!WriteFile(i) \/ Msc!CountBytes(i) \/ Msc!SendByte(i) \/ Msc!Sent(i)
    PROVE  MscInv'
<1> USE DEF Msc!Step, Msc!Starting, Msc!Running, Msc!NoFile, Msc!NoAnswer, Msc!lockVars
<1>0. pc \in [Instances -> {"off", "cleanup", "ended"} \cup Msc!Starting \cup Msc!Running]
  BY DEF MscInv, MscTypes, Msc!TypeOK
<1>1. /\ UNCHANGED <<lockFile, lapsed>>
      /\ pc' \in [Instances -> {"off", "cleanup", "ended"} \cup Msc!Starting \cup Msc!Running]
      /\ \A j \in Instances : j # i => pc'[j] = pc[j]
      /\ \/ pc'[i] = pc[i]
         \/ pc[i] \in Msc!Running /\ pc'[i] \in Msc!Running
         \/ pc'[i] \in {"cleanup", "ended"}
  <2>1. CASE Msc!Interrupt(i)
    BY <1>0, <2>1 DEF Msc!Interrupt
  <2>2. CASE Msc!OrphanReads(i) \/ Msc!SendByte(i)
    BY <1>0, <2>2 DEF Msc!OrphanReads, Msc!SendByte
  <2>3. CASE Msc!Receive(i) \/ Msc!TypeAnswer(i) \/ Msc!TypeOther(i)
    BY <1>0, <2>3 DEF Msc!Receive, Msc!TypeAnswer, Msc!TypeOther
  <2>4. CASE Msc!WriteFile(i) \/ Msc!CountBytes(i) \/ Msc!Sent(i)
    BY <1>0, <2>4 DEF Msc!WriteFile, Msc!CountBytes, Msc!Sent
  <2> QED
    BY <2>1, <2>2, <2>3, <2>4
<1>2. /\ \/ UNCHANGED <<lockPid, fd>>
         \/ /\ pc'[i] \in {"cleanup", "ended"}
            /\ lockPid' = [lockPid EXCEPT ![i] = Nobody]
            /\ fd' = [fd EXCEPT ![i] = Nobody]
  BY DEF MscInv, MscTypes, Msc!TypeOK, Msc!Interrupt, Msc!Receive, Msc!OrphanReads,
         Msc!TypeAnswer, Msc!TypeOther, Msc!WriteFile, Msc!CountBytes, Msc!SendByte, Msc!Sent
<1>3. /\ DOMAIN answer' = Instances
      /\ \A j \in Instances : answer'[j].len \in Nat
      /\ response'.len \in Nat
  <2>1. CASE Msc!TypeAnswer(i)
    BY <2>1, LensAssumption DEF MscInv, MscTypes, Msc!TypeAnswer
  <2>2. CASE Msc!WriteFile(i)
    BY <2>2 DEF MscInv, MscTypes, Msc!WriteFile
  <2>3. CASE Msc!Sent(i)
    BY <2>3 DEF MscInv, MscTypes, Msc!Sent
  <2>4. CASE Msc!Interrupt(i)
    BY <2>4 DEF MscInv, MscTypes, Msc!Interrupt
  <2>5. CASE UNCHANGED <<answer, response>>
    BY <2>5 DEF MscInv, MscTypes
  <2> QED
    BY <2>1, <2>2, <2>3, <2>4, <2>5
       DEF Msc!Receive, Msc!OrphanReads, Msc!TypeOther, Msc!CountBytes, Msc!SendByte
<1>4. /\ count' \in [Instances -> Nat] /\ sent' \in [Instances -> Nat]
      /\ \A j \in Instances : sent'[j] <= count'[j]
  <2>0. /\ count \in [Instances -> Nat] /\ sent \in [Instances -> Nat]
        /\ \A j \in Instances : sent[j] <= count[j]
    BY DEF MscInv, MscTypes, Msc!TypeOK
  <2>1. CASE Msc!CountBytes(i)
    <3>1. Msc!Size(response) \in Nat
      BY DEF Msc!Size, MscInv, MscTypes
    <3> QED
      BY <2>0, <2>1, <3>1 DEF Msc!CountBytes
  <2>2. CASE Msc!SendByte(i)
    BY <2>0, <2>2 DEF Msc!SendByte
  <2>3. CASE Msc!Sent(i)
    BY <2>0, <2>3 DEF Msc!Sent
  <2>4. CASE Msc!Interrupt(i)
    BY <2>0, <2>4 DEF Msc!Interrupt
  <2>5. CASE UNCHANGED <<count, sent>>
    BY <2>0, <2>5
  <2> QED
    BY <2>1, <2>2, <2>3, <2>4, <2>5
       DEF Msc!Receive, Msc!OrphanReads, Msc!TypeAnswer, Msc!TypeOther, Msc!WriteFile
<1>5. MscTypes'
  BY <1>1, <1>2, <1>3, <1>4 DEF MscInv, MscTypes, Msc!TypeOK
<1>6. Lock'
  BY <1>1, <1>2 DEF MscInv, MscTypes, Msc!TypeOK, Lock
<1> QED
  BY <1>5, <1>6 DEF MscInv

\* What the scripts keep is the scripts' own.
LEMMA MscStays == MscInv /\ UNCHANGED mscVars => MscInv'
<1> SUFFICES ASSUME MscInv, UNCHANGED mscVars PROVE MscInv'
  OBVIOUS
<1>1. MscTypes'
  BY DEF mscVars, MscInv, MscTypes, Msc!TypeOK
<1>2. Lock'
  BY DEF mscVars, MscInv, Lock
<1> QED
  BY <1>1, <1>2 DEF MscInv

\* Every step of the bench keeps the invariant of the scripts.
LEMMA MscSteps == MscInv /\ [Next]_vars => MscInv'
<1> SUFFICES ASSUME MscInv, [Next]_vars PROVE MscInv'
  OBVIOUS
<1>1. CASE UNCHANGED mscVars
  BY <1>1, MscStays
<1>2. CASE Msc!Next
  <2> PICK i \in Instances :
         \/ \/ Msc!Start(i) \/ Msc!Check(i) \/ Msc!Cat(i) \/ Msc!Ps(i) \/ Msc!RemoveStale(i)
            \/ Msc!Create(i) \/ Msc!Echo(i) \/ Msc!CleanUp(i)
         \/ \/ Msc!Interrupt(i) \/ Msc!Receive(i) \/ Msc!OrphanReads(i)
            \/ Msc!TypeAnswer(i) \/ Msc!TypeOther(i)
            \/ Msc!WriteFile(i) \/ Msc!CountBytes(i) \/ Msc!SendByte(i) \/ Msc!Sent(i)
    BY <1>2, Zenon DEF Msc!Next
  <2> QED
    BY LockSteps, LoopSteps
<1> QED
  BY <1>1, <1>2 DEF Next, ToolStep, MscStep, vars, mscVars

\* Unless instances were started together, or a cleanup removed the file of one
\* that was alive, the lock file names the instance that runs, so that there is
\* one, after kills, too (virtual-msc.sh:10-26).
THEOREM LockIsHeld == Spec => []LockHeld
<1>1. Init => MscInv
  BY MscInit
<1>2. MscInv /\ [Next]_vars => MscInv'
  BY MscSteps
<1>3. MscInv => LockHeld
  BY DEF MscInv, Lock, LockHeld, Msc!LockHeld
<1> QED
  BY <1>1, <1>2, <1>3, PTL DEF Spec

-----------------------------------------------------------------------------
(* The tool. *)

\* The handlers at "begin", and those past their deletion.
Begun(k) == handlers[k].at = "begin"
InDeletion(k) == handlers[k].at = "deleted"

\* DeletedOnce is not inductive: between the deletion and the null pointer the
\* handler that deletes is the innermost, or a signal was late.
NotYet == deleted = 0 /\ pointer /\ \A k \in DOMAIN handlers : Begun(k)
Deleting ==
    /\ deleted = 1 /\ pointer /\ handlers # <<>>
    /\ InDeletion(Len(handlers))
    /\ \A k \in 1 .. Len(handlers) - 1 : Begun(k)
Leaving ==
    /\ deleted = 1 /\ ~pointer /\ handlers # <<>>
    /\ \A k \in DOMAIN handlers : ~InDeletion(k)

ToolInv ==
    /\ handlers \in Seq([sig : Signals, at : {"begin", "deleted", "exit"}])
    /\ main \in {"prompt", "read", "returning"} \cup Tool!Over
    /\ main = "returning" /\ ~late => deleted = 1 /\ handlers = <<>>
    /\ main \in {"prompt", "read"} /\ ~late => NotYet \/ Deleting \/ Leaving

\* The invariant of the tool holds at the beginning.
LEMMA ToolInit == Init => ToolInv
BY DEF Init, Tool!Init, ToolInv, Tool!Over

\* A step of main, or the end of the process.
LEMMA MainSteps ==
    ASSUME ToolInv,
           \/ Tool!Run \/ Tool!SendFrame \/ Tool!ReadByte \/ Tool!PrintResponse
           \/ Tool!Exit \/ Tool!Return \/ Tool!PortThrows \/ Tool!Kill
    PROVE  ToolInv' /\ Tool!EndsDeletedOnce
<1> USE DEF Tool!Over, Tool!EndsDeletedOnce, Begun, InDeletion
<1>1. CASE Tool!Run
  <2>1. /\ main' \in {"prompt", "failed"} /\ pointer' = (main' = "prompt")
        /\ deleted' = 0 /\ handlers' = <<>>
    BY <1>1 DEF Tool!Run
  <2>2. ASSUME main' = "prompt" PROVE NotYet'
    <3>1. pointer'
      BY <2>1, <2>2, Zenon
    <3> QED
      BY <2>1, <3>1 DEF NotYet
  <2> QED
    BY <2>1, <2>2 DEF ToolInv
<1>2. CASE Tool!SendFrame \/ Tool!ReadByte \/ Tool!PrintResponse
  <2>1. /\ UNCHANGED <<pointer, deleted, handlers, late>>
        /\ main \in {"prompt", "read"} /\ main' \in {"prompt", "read"}
    BY <1>2 DEF Tool!SendFrame, Tool!ReadByte, Tool!PrintResponse, Tool!Step, Tool!handlerVars
  <2>2. (NotYet => NotYet') /\ (Deleting => Deleting') /\ (Leaving => Leaving')
    BY <2>1 DEF NotYet, Deleting, Leaving
  <2> QED
    BY <2>1, <2>2 DEF ToolInv
<1>3. CASE Tool!Exit
  <2>1. /\ main = "prompt" /\ main' = "returning" /\ handlers = <<>> /\ handlers' = <<>>
        /\ late' = late /\ deleted' = deleted + 1
    BY <1>3 DEF Tool!Exit, Tool!Step
  <2>2. ~late => deleted' = 1
    BY <2>1 DEF ToolInv, NotYet, Deleting, Leaving
  <2>3. handlers' \in Seq([sig : Signals, at : {"begin", "deleted", "exit"}])
    BY <2>1
  <2> QED
    BY <2>1, <2>2, <2>3 DEF ToolInv
<1>4. CASE Tool!Return \/ Tool!PortThrows \/ Tool!Kill
  <2>1. /\ main' \in {"ended", "failed"} /\ handlers' = <<>>
        /\ main' = "ended" => main = "returning"
    BY <1>4 DEF Tool!Return, Tool!PortThrows, Tool!Kill, Tool!Ends
  <2>2. handlers' \in Seq([sig : Signals, at : {"begin", "deleted", "exit"}])
    BY <2>1
  <2> QED
    BY <2>1, <2>2 DEF ToolInv
<1> QED
  BY <1>1, <1>2, <1>3, <1>4

\* What InnerAt makes of the handlers.
LEMMA InnerMoves ==
    ASSUME handlers \in Seq([sig : Signals, at : {"begin", "deleted", "exit"}]), handlers # <<>>,
           NEW at \in {"begin", "deleted", "exit"}, Tool!InnerAt(at)
    PROVE  /\ handlers' \in Seq([sig : Signals, at : {"begin", "deleted", "exit"}])
           /\ handlers' # <<>> /\ Len(handlers') = Len(handlers)
           /\ Len(handlers) \in DOMAIN handlers /\ DOMAIN handlers = 1 .. Len(handlers)
           /\ handlers'[Len(handlers)].at = at
           /\ \A k \in 1 .. Len(handlers) - 1 : handlers'[k] = handlers[k]
<1> DEFINE H == [sig : Signals, at : {"begin", "deleted", "exit"}]
           n == Len(handlers)
<1>1. /\ n \in Nat /\ n > 0 /\ DOMAIN handlers = 1 .. n /\ n \in DOMAIN handlers
      /\ handlers \in [1 .. n -> H]
  <2>1. handlers \in Seq(H) /\ handlers # <<>>
    OBVIOUS
  <2> HIDE DEF H
  <2> QED
    BY <2>1
<1>2. handlers' = [handlers EXCEPT ![n] = [handlers[n] EXCEPT !.at = at]]
  BY DEF Tool!InnerAt
<1>3. [handlers[n] EXCEPT !.at = at] \in H /\ [handlers[n] EXCEPT !.at = at].at = at
  BY <1>1
<1>4. handlers' \in [1 .. n -> H]
  BY <1>1, <1>2, <1>3
<1>5. handlers' \in Seq(H) /\ Len(handlers') = n
  BY <1>1, <1>4
<1>6. handlers'[n].at = at /\ \A k \in 1 .. n - 1 : handlers'[k] = handlers[k]
  BY <1>1, <1>2, <1>3
<1> QED
  BY <1>1, <1>5, <1>6

\* A step of a handler, or a new one.
LEMMA HandlerSteps ==
    ASSUME ToolInv,
           \/ \E sig \in Signals : Tool!Signal(sig)
           \/ Tool!HandlerDeletes \/ Tool!HandlerClears \/ Tool!HandlerExits
    PROVE  ToolInv' /\ Tool!EndsDeletedOnce
<1> USE DEF Tool!Over, Tool!EndsDeletedOnce, Tool!Up, Tool!Handling, Tool!Inner
<1>1. CASE \E sig \in Signals : Tool!Signal(sig)
  <2> PICK sig \in Signals : Tool!Signal(sig)
    BY <1>1
  <2>1. /\ handlers' = Append(handlers, [sig |-> sig, at |-> "begin"])
        /\ UNCHANGED <<main, pointer, deleted>> /\ main \in {"prompt", "read", "returning"}
        /\ ~late' => ~late /\ main # "returning" /\ \A k \in DOMAIN handlers : ~InDeletion(k)
    BY DEF Tool!Signal, ToolInv, InDeletion
  <2>2. handlers' \in Seq([sig : Signals, at : {"begin", "deleted", "exit"}])
    BY <2>1 DEF ToolInv
  <2>3. ~late' => NotYet \/ Leaving
    BY <2>1 DEF ToolInv, Deleting
  <2>4. NotYet => NotYet'
    BY <2>1 DEF NotYet, Begun, ToolInv
  <2>5. Leaving => Leaving'
    BY <2>1 DEF Leaving, InDeletion, ToolInv
  <2> QED
    BY <2>1, <2>2, <2>3, <2>4, <2>5 DEF ToolInv
<1>2. CASE Tool!HandlerDeletes
  <2>1. /\ handlers # <<>> /\ Begun(Len(handlers))
        /\ UNCHANGED <<main, pointer, late>>
        /\ \/ pointer /\ deleted' = deleted + 1 /\ Tool!InnerAt("deleted")
           \/ ~pointer /\ deleted' = deleted /\ Tool!InnerAt("exit")
    BY <1>2 DEF Tool!HandlerDeletes, Tool!DeletesIt, Begun
  <2>2. handlers' \in Seq([sig : Signals, at : {"begin", "deleted", "exit"}])
    BY <2>1, InnerMoves DEF ToolInv
  <2>3. Deleting => FALSE
    BY <2>1 DEF Deleting, Begun, InDeletion
  <2>4. NotYet => Deleting'
    BY <2>1, InnerMoves DEF NotYet, Deleting, Begun, InDeletion, ToolInv
  <2>5. Leaving => Leaving'
    BY <2>1, InnerMoves DEF Leaving, InDeletion, ToolInv
  <2> QED
    BY <2>1, <2>2, <2>3, <2>4, <2>5 DEF ToolInv
<1>3. CASE Tool!HandlerClears
  <2>1. /\ handlers # <<>> /\ InDeletion(Len(handlers))
        /\ UNCHANGED <<main, deleted, late>> /\ ~pointer' /\ Tool!InnerAt("exit")
    BY <1>3 DEF Tool!HandlerClears, InDeletion
  <2>2. handlers' \in Seq([sig : Signals, at : {"begin", "deleted", "exit"}])
    BY <2>1, InnerMoves DEF ToolInv
  <2>3. ~NotYet /\ ~Leaving
    BY <2>1, InnerMoves DEF NotYet, Leaving, Begun, InDeletion, ToolInv
  <2>4. Deleting => Leaving'
    BY <2>1, InnerMoves DEF Deleting, Leaving, Begun, InDeletion, ToolInv
  <2> QED
    BY <2>1, <2>2, <2>3, <2>4 DEF ToolInv
<1>4. CASE Tool!HandlerExits
  <2>1. /\ handlers # <<>> /\ handlers[Len(handlers)].at = "exit" /\ main \notin Tool!Over
        /\ main' = "ended" /\ handlers' = <<>>
    BY <1>4 DEF Tool!HandlerExits, Tool!Ends
  <2>2. ToolInv'
    BY <2>1 DEF ToolInv
  <2>3. ~NotYet /\ ~Deleting
    <3>1. Len(handlers) \in DOMAIN handlers
      BY <2>1 DEF ToolInv
    <3> QED
      BY <2>1, <3>1 DEF NotYet, Deleting, Begun, InDeletion
  <2> QED
    BY <2>1, <2>2, <2>3 DEF ToolInv, Leaving
<1> QED
  BY <1>1, <1>2, <1>3, <1>4

\* Every step of the bench keeps the invariant of the tool.
LEMMA ToolSteps == ToolInv /\ [Next]_vars => ToolInv' /\ [Tool!EndsDeletedOnce]_vars
<1> SUFFICES ASSUME ToolInv, [Next]_vars PROVE ToolInv' /\ [Tool!EndsDeletedOnce]_vars
  OBVIOUS
<1>1. CASE UNCHANGED toolVars
  BY <1>1 DEF toolVars, ToolInv, NotYet, Deleting, Leaving, Begun, InDeletion, Tool!EndsDeletedOnce
<1>2. CASE Tool!Next
  BY <1>2, MainSteps, HandlerSteps DEF Tool!Next
<1> QED
  BY <1>1, <1>2 DEF Next, ToolStep, MscStep, vars, toolVars

\* A run that exit or signals ended has deleted its connection once, unless a
\* signal was late, however signals nest and whatever the run was doing
\* (main.cpp:37, SignalHandler.cpp:11-15).
THEOREM DeletesOnce == Spec => DeletedOnce
<1>1. Init => ToolInv
  BY ToolInit
<1>2. ToolInv /\ [Next]_vars => ToolInv' /\ [Tool!EndsDeletedOnce]_vars
  BY ToolSteps
<1> QED
  BY <1>1, <1>2, PTL DEF Spec, DeletedOnce

\* The counters of the tool keep within their bounds.
LEMMA ToolTypes ==
    ASSUME ToolInv, Tool!TypeOK, Tool!Next
    PROVE  Tool!TypeOK'
<1> DEFINE T == /\ main \in {"prompt", "read", "returning"} \cup Tool!Over
                /\ runs \in 0 .. MaxRuns /\ asked \in 0 .. MaxRequests
                /\ deleted \in Nat
           B == pointer \in BOOLEAN /\ late \in BOOLEAN
<1>0. MaxRuns \in Nat /\ MaxRequests \in Nat
  BY BoundsAssumption
<1> USE <1>0
<1>1. T /\ B
  BY DEF Tool!TypeOK
<1>2. T'
  <2> USE <1>1 DEF Tool!Over, Tool!Step, Tool!handlerVars, Tool!requestVars
  <2>1. CASE Tool!Run \/ Tool!Exit \/ Tool!Return \/ Tool!PortThrows \/ Tool!Kill
    <3>1. CASE Tool!Run
      <4>1. /\ runs < MaxRuns /\ runs' = runs + 1 /\ main' \in {"prompt", "failed"}
            /\ deleted' = 0 /\ asked' = asked
        BY <3>1 DEF Tool!Run
      <4> QED
        BY <4>1
    <3>2. CASE Tool!Exit
      BY <3>2 DEF Tool!Exit
    <3>3. CASE Tool!Return \/ Tool!PortThrows \/ Tool!Kill
      BY <3>3 DEF Tool!Return, Tool!PortThrows, Tool!Kill, Tool!Ends
    <3> QED
      BY <2>1, <3>1, <3>2, <3>3
  <2>2. CASE Tool!SendFrame \/ Tool!ReadByte \/ Tool!PrintResponse
    BY <2>2 DEF Tool!SendFrame, Tool!ReadByte, Tool!PrintResponse
  <2>3. CASE \E sig \in Signals : Tool!Signal(sig)
    BY <2>3 DEF Tool!Signal
  <2>4. CASE Tool!HandlerDeletes \/ Tool!HandlerClears
    BY <2>4 DEF Tool!HandlerDeletes, Tool!HandlerClears
  <2>5. CASE Tool!HandlerExits
    BY <2>5 DEF Tool!HandlerExits, Tool!Ends
  <2> HIDE DEF T
  <2> QED
    BY <2>1, <2>2, <2>3, <2>4, <2>5, Zenon DEF Tool!Next
<1>3. B'
  <2>1. UNCHANGED pointer \/ pointer' = FALSE \/ pointer' = (main' = "prompt")
    BY Zenon DEF Tool!Next, Tool!Run, Tool!Exit, Tool!Return, Tool!PortThrows, Tool!Kill, Tool!Ends,
       Tool!SendFrame, Tool!ReadByte, Tool!PrintResponse, Tool!handlerVars,
       Tool!Signal, Tool!HandlerDeletes, Tool!HandlerClears, Tool!HandlerExits
  <2>2. UNCHANGED late \/ late' = FALSE
        \/ late' = (late \/ main = "returning" \/ \E k \in DOMAIN handlers : handlers[k].at = "deleted")
    BY Zenon DEF Tool!Next, Tool!Run, Tool!Exit, Tool!Return, Tool!PortThrows, Tool!Kill, Tool!Ends,
       Tool!SendFrame, Tool!ReadByte, Tool!PrintResponse, Tool!handlerVars,
       Tool!Signal, Tool!HandlerDeletes, Tool!HandlerClears, Tool!HandlerExits
  <2> QED
    BY <1>1, <2>1, <2>2, Zenon
<1>4. ToolInv'
  BY MainSteps, HandlerSteps DEF Tool!Next
<1>5. \A k \in DOMAIN handlers' : handlers'[k].sig \in Signals
  <2> DEFINE H == [sig : Signals, at : {"begin", "deleted", "exit"}]
  <2>1. handlers' \in Seq(H)
    BY <1>4 DEF ToolInv
  <2>2. \A k \in DOMAIN handlers' : handlers'[k] \in H
    <3> HIDE DEF H
    <3> QED
      BY <2>1
  <2> QED
    BY <2>2
<1> QED
  BY <1>2, <1>3, <1>5 DEF Tool!TypeOK

-----------------------------------------------------------------------------
(* Both. *)

\* Every variable of the two ends keeps its type, and dd writes no more bytes
\* than the file had when they were counted.
THEOREM BenchTypeCorrect == Spec => []TypeOK
<1> DEFINE I == MscInv /\ ToolInv /\ Tool!TypeOK
<1>1. Init => I
  <2>1. Init => Tool!TypeOK
    <3> SUFFICES ASSUME Tool!Init PROVE Tool!TypeOK
      BY DEF Init
    <3>1. /\ main = "off" /\ runs = 0 /\ asked = 0 /\ deleted = 0
          /\ pointer = FALSE /\ late = FALSE /\ handlers = <<>>
      BY DEF Tool!Init
    <3>2. MaxRuns \in Nat /\ MaxRequests \in Nat
      BY BoundsAssumption
    <3>3. \A k \in DOMAIN handlers : handlers[k].sig \in Signals
      BY <3>1
    <3>4. runs \in 0 .. MaxRuns /\ asked \in 0 .. MaxRequests /\ deleted \in Nat
      BY <3>1, <3>2
    <3> QED
      BY <3>1, <3>3, <3>4 DEF Tool!TypeOK, Tool!Over
  <2> QED
    BY <2>1, MscInit, ToolInit
<1>2. I /\ [Next]_vars => I'
  <2> SUFFICES ASSUME I, [Next]_vars PROVE I'
    OBVIOUS
  <2>1. MscInv'
    BY MscSteps
  <2>2. ToolInv'
    BY ToolSteps
  <2>3. Tool!TypeOK'
    <3>1. CASE UNCHANGED toolVars
      BY <3>1 DEF toolVars, Tool!TypeOK
    <3>2. CASE Tool!Next
      BY <3>2, ToolTypes
    <3> QED
      BY <3>1, <3>2 DEF Next, ToolStep, MscStep, vars, toolVars
  <2> QED
    BY <2>1, <2>2, <2>3
<1>3. I => TypeOK
  BY DEF TypeOK, MscInv, MscTypes
<1> QED
  BY <1>1, <1>2, <1>3, PTL DEF Spec

-----------------------------------------------------------------------------
(* What is on the line. *)

Answer == [to : Nat, len : Nat]
AnswerByte == [of : Answer, pos : Nat]

\* The types of what is on its way.
LineTypes ==
    /\ asked \in Nat
    /\ toScript \in Seq(Nat) /\ received \in [Instances -> Nat]
    /\ answer \in [Instances -> Answer] /\ response \in Answer
    /\ count \in [Instances -> Nat] /\ sent \in [Instances -> Nat]
    /\ toTool \in Seq(AnswerByte) /\ got \in Seq(AnswerByte) /\ shown \in Seq(AnswerByte)

\* An instance that has a request, and one whose dd has bytes to write.
Holding(i) == pc[i] \in {"ask", "file", "wc"}
Writing(i) == pc[i] = "dd" /\ sent[i] < count[i]

Silent == got = <<>> /\ toTool = <<>>

\* The first n bytes of answer a are in the tool's hands and on the line.
Carries(a, n) ==
    /\ Len(got) + Len(toTool) = n
    /\ \A k \in 1 .. Len(got) : got[k] = [of |-> a, pos |-> k]
    /\ \A k \in 1 .. Len(toTool) : toTool[k] = [of |-> a, pos |-> Len(got) + k]

\* ResponseIsOwn is not inductive: with nobody interrupted, at most one request
\* is open, and what it has become is in one place: on the line, at one
\* instance, or in answer on the other line; or it is lost.
AtMostOne ==
    /\ \A i, j \in Instances : (Holding(i) \/ Writing(i)) /\ (Holding(j) \/ Writing(j)) => i = j
    /\ toScript # <<>> => Silent /\ \A i \in Instances : ~Holding(i) /\ ~Writing(i)
    /\ \A i \in Instances : Holding(i) => Silent

Closed ==
    main # "read" => toScript = <<>> /\ Silent /\ \A i \in Instances : ~Holding(i) /\ ~Writing(i)

Open ==
    main = "read" =>
        /\ asked > 0
        /\ toScript # <<>> => toScript = <<asked>>
        /\ \A i \in Instances :
             /\ pc[i] = "ask" => received[i] = asked
             /\ pc[i] = "file" => answer[i].to = asked
             /\ pc[i] = "wc" => response.to = asked
             /\ Writing(i) =>
                  /\ response.to = asked /\ count[i] = response.len + 3
                  /\ Carries(response, sent[i])
        /\ \/ Silent
           \/ \E i \in Instances : Writing(i)
           \/ \E a \in Answer : a.to = asked /\ Carries(a, a.len + 3)

Printed ==
    main = "prompt" /\ shown # <<>> =>
        \E a \in Answer :
            /\ a.to = asked /\ Len(shown) = a.len + 3
            /\ \A k \in 1 .. Len(shown) : shown[k] = [of |-> a, pos |-> k]

OneRequest == AtMostOne /\ Closed /\ Open /\ Printed

Settled == ~unsettled => OneRequest

\* Nothing is on the line at the beginning.
LEMMA LineInit == Init => LineTypes /\ Settled
<1> SUFFICES ASSUME Init PROVE LineTypes /\ Settled
  OBVIOUS
<1>1. /\ main = "off" /\ asked = 0 /\ shown = <<>> /\ got = <<>>
      /\ toScript = <<>> /\ toTool = <<>>
  BY DEF Init, Tool!Init
<1>2. /\ pc = [i \in Instances |-> "off"] /\ received = [i \in Instances |-> 0]
      /\ answer = [i \in Instances |-> [to |-> 0, len |-> 0]] /\ response = [to |-> 0, len |-> 0]
      /\ count = [i \in Instances |-> 0] /\ sent = [i \in Instances |-> 0]
  BY DEF Init, Msc!Init, Msc!NoAnswer
<1>3. LineTypes
  BY <1>1, <1>2 DEF LineTypes, Answer
<1>4. Settled
  BY <1>1, <1>2 DEF Settled, OneRequest, AtMostOne, Closed, Open, Printed, Holding, Writing, Silent
<1> QED
  BY <1>3, <1>4

\* A step of the tool keeps the types of what is on its way.
LEMMA ToolLineTypes == LineTypes /\ Tool!Next /\ UNCHANGED mscVars => LineTypes'
<1> SUFFICES ASSUME LineTypes, Tool!Next, UNCHANGED mscVars PROVE LineTypes'
  OBVIOUS
<1>0. UNCHANGED <<received, answer, response, count, sent>>
  BY DEF mscVars
<1>1. CASE Tool!SendFrame
  <2>1. /\ asked' = asked + 1 /\ toScript' = Append(toScript, asked + 1)
        /\ shown' = <<>> /\ got' = <<>> /\ toTool' = toTool
    BY <1>1 DEF Tool!SendFrame
  <2> QED
    BY <1>0, <2>1 DEF LineTypes
<1>2. CASE Tool!ReadByte
  <2>1. /\ toTool # <<>> /\ got' = Append(got, Head(toTool)) /\ toTool' = Tail(toTool)
        /\ UNCHANGED <<asked, shown, toScript>>
    BY <1>2 DEF Tool!ReadByte
  <2>2. got' \in Seq(AnswerByte) /\ toTool' \in Seq(AnswerByte)
    BY <2>1 DEF LineTypes
  <2> QED
    BY <1>0, <2>1, <2>2 DEF LineTypes
<1>3. CASE Tool!PrintResponse
  <2>1. shown' = got /\ got' = <<>> /\ UNCHANGED <<asked, toScript, toTool>>
    BY <1>3 DEF Tool!PrintResponse, Tool!lineVars
  <2> QED
    BY <1>0, <2>1 DEF LineTypes
<1>4. ASSUME UNCHANGED <<asked, toScript, toTool>>,
             UNCHANGED <<shown, got>> \/ (shown' = <<>> /\ got' = <<>>)
      PROVE  LineTypes'
  <2>1. got' \in Seq(AnswerByte) /\ shown' \in Seq(AnswerByte)
    <3>1. got \in Seq(AnswerByte) /\ shown \in Seq(AnswerByte) /\ <<>> \in Seq(AnswerByte)
      BY DEF LineTypes
    <3> QED
      BY <1>4, <3>1
  <2>2. UNCHANGED <<asked, toScript, toTool>>
    BY <1>4
  <2> QED
    BY <1>0, <2>1, <2>2 DEF LineTypes
<1>5. CASE Tool!Run \/ Tool!Exit
  BY <1>4, <1>5 DEF Tool!Run, Tool!Exit, Tool!requestVars, Tool!lineVars
<1>6. CASE Tool!Return \/ Tool!PortThrows \/ Tool!Kill \/ Tool!HandlerExits
  <2>1. UNCHANGED <<asked, toScript, toTool>> /\ shown' = <<>> /\ got' = <<>>
    BY <1>6 DEF Tool!Return, Tool!PortThrows, Tool!Kill, Tool!HandlerExits, Tool!Ends, Tool!lineVars
  <2> QED
    BY <1>4, <2>1
<1>7. CASE (\E sig \in Signals : Tool!Signal(sig)) \/ Tool!HandlerDeletes \/ Tool!HandlerClears
  BY <1>4, <1>7
     DEF Tool!Signal, Tool!HandlerDeletes, Tool!HandlerClears, Tool!requestVars, Tool!lineVars
<1> QED
  BY <1>1, <1>2, <1>3, <1>5, <1>6, <1>7, Zenon DEF Tool!Next

\* A step of the loop, or an interruption, keeps the types of what is on its way.
LEMMA MscLineTypes ==
    ASSUME LineTypes, NEW i \in Instances, UNCHANGED toolVars,
           \/ Msc!Interrupt(i) \/ Msc!Receive(i) \/ Msc!OrphanReads(i)
           \/ Msc!TypeAnswer(i) \/ Msc!TypeOther(i)
           \/ Msc!WriteFile(i) \/ Msc!CountBytes(i) \/ Msc!SendByte(i) \/ Msc!Sent(i)
    PROVE  LineTypes'
<1>0. UNCHANGED <<asked, got, shown>>
  BY DEF toolVars
<1>1. Msc!NoAnswer \in Answer /\ Msc!Size(response) \in Nat
  BY DEF Msc!NoAnswer, Msc!Size, Answer, LineTypes
<1>2. CASE Msc!Interrupt(i)
  BY <1>0, <1>1, <1>2 DEF LineTypes, Msc!Interrupt, Msc!lineVars
<1>3. CASE Msc!Receive(i) \/ Msc!OrphanReads(i)
  <2>1. toScript # <<>> => toScript[Len(toScript)] \in Nat
    BY DEF LineTypes
  <2>2. /\ toScript # <<>> /\ toScript' = <<>>
        /\ UNCHANGED <<answer, response, count, sent, toTool>>
        /\ \/ received' = received
           \/ received' = [received EXCEPT ![i] = toScript[Len(toScript)]]
    BY <1>3 DEF Msc!Receive, Msc!OrphanReads
  <2>3. received' \in [Instances -> Nat]
    BY <2>1, <2>2 DEF LineTypes
  <2>4. toScript' \in Seq(Nat)
    BY <2>2
  <2> QED
    BY <1>0, <2>2, <2>3, <2>4 DEF LineTypes
<1>4. CASE Msc!TypeAnswer(i)
  <2>1. PICK len \in AnswerLens : answer' = [answer EXCEPT ![i] = [to |-> received[i], len |-> len]]
    BY <1>4 DEF Msc!TypeAnswer
  <2>2. [to |-> received[i], len |-> len] \in Answer
    BY LensAssumption DEF LineTypes, Answer
  <2>3. answer' \in [Instances -> Answer] /\ received' \in [Instances -> Nat]
    BY <1>4, <2>1, <2>2 DEF LineTypes, Msc!TypeAnswer
  <2> QED
    BY <1>0, <1>4, <2>3 DEF LineTypes, Msc!TypeAnswer, Msc!lineVars
<1>5. CASE Msc!TypeOther(i)
  BY <1>0, <1>5 DEF LineTypes, Msc!TypeOther, Msc!lineVars
<1>6. CASE Msc!WriteFile(i)
  BY <1>0, <1>6 DEF LineTypes, Msc!WriteFile, Msc!lineVars
<1>7. CASE Msc!CountBytes(i)
  BY <1>0, <1>1, <1>7 DEF LineTypes, Msc!CountBytes, Msc!lineVars
<1>8. CASE Msc!SendByte(i)
  <2>1. /\ toTool' = Append(toTool, [of |-> response, pos |-> sent[i] + 1])
        /\ sent' = [sent EXCEPT ![i] = sent[i] + 1]
        /\ UNCHANGED <<received, answer, response, count, toScript>>
    BY <1>8 DEF Msc!SendByte
  <2>2. [of |-> response, pos |-> sent[i] + 1] \in AnswerByte
    BY DEF LineTypes, AnswerByte
  <2>3. toTool' \in Seq(AnswerByte) /\ sent' \in [Instances -> Nat]
    BY <2>1, <2>2 DEF LineTypes
  <2> QED
    BY <1>0, <2>1, <2>3 DEF LineTypes
<1>9. CASE Msc!Sent(i)
  BY <1>0, <1>1, <1>9 DEF LineTypes, Msc!Sent, Msc!lineVars
<1> QED
  BY <1>2, <1>3, <1>4, <1>5, <1>6, <1>7, <1>8, <1>9

-----------------------------------------------------------------------------
(* The tool's steps. *)

\* Neither the line nor a read is touched.
LEMMA OutsideSteps ==
    ASSUME OneRequest, UNCHANGED <<mscVars, asked, toScript, toTool>>,
           \/ UNCHANGED <<main, got, shown>>
           \/ main # "read" /\ main' # "read" /\ got' = <<>> /\ shown' = <<>>
           \/ main # "read" /\ main' = "returning" /\ UNCHANGED <<got, shown>>
    PROVE  OneRequest'
<1> USE DEF OneRequest
<1>1. UNCHANGED <<pc, received, answer, response, count, sent, asked, toScript, toTool>>
  BY DEF mscVars
<1>2. got' = got \/ (main # "read" /\ got' = <<>>)
  OBVIOUS
<1>3. Silent => Silent'
  BY <1>1, <1>2 DEF Silent
<1>4. AtMostOne'
  BY <1>1, <1>3 DEF AtMostOne, Holding, Writing
<1>5. Closed'
  BY <1>1, <1>3 DEF Closed, Holding, Writing
<1>6. Open'
  <2>1. CASE main' # "read"
    BY <2>1 DEF Open
  <2>2. CASE main' = "read"
    <3>1. UNCHANGED <<main, got, shown>>
      BY <2>2
    <3>2. (\A a, n : Carries(a, n)' <=> Carries(a, n)) /\ (Silent' <=> Silent)
      BY <1>1, <3>1 DEF Carries, Silent
    <3>3. \A i \in Instances :
            /\ Writing(i)' <=> Writing(i)
            /\ Carries(response, sent[i])' <=> Carries(response, sent[i])
      BY <1>1, <3>1 DEF Writing, Carries
    <3> QED
      BY <1>1, <3>1, <3>2, <3>3 DEF Open
  <2> QED
    BY <2>1, <2>2
<1>7. Printed'
  BY <1>1 DEF Printed
<1> QED
  BY <1>4, <1>5, <1>6, <1>7

\* A request is sent when the last one is closed.
LEMMA SendKeeps ==
    ASSUME LineTypes, OneRequest, Tool!SendFrame, UNCHANGED mscVars
    PROVE  OneRequest'
<1> USE DEF OneRequest
<1>1. /\ main = "prompt" /\ main' = "read" /\ asked' = asked + 1
      /\ toScript' = Append(toScript, asked + 1)
      /\ shown' = <<>> /\ got' = <<>> /\ toTool' = toTool
  BY DEF Tool!SendFrame, Tool!Step
<1>2. UNCHANGED <<pc, received, answer, response, count, sent>>
  BY DEF mscVars
<1>3. /\ toScript = <<>> /\ Silent /\ \A i \in Instances : ~Holding(i) /\ ~Writing(i)
  BY <1>1 DEF Closed
<1>4. toScript' = <<asked'>> /\ Silent' /\ \A i \in Instances : ~Holding(i)' /\ ~Writing(i)'
  BY <1>1, <1>2, <1>3 DEF Silent, Holding, Writing
<1>5. asked' > 0
  BY <1>1 DEF LineTypes
<1>6. AtMostOne' /\ Closed' /\ Printed'
  BY <1>1, <1>4 DEF AtMostOne, Closed, Printed
<1>7. Open'
  BY <1>4, <1>5 DEF Open, Holding
<1> QED
  BY <1>6, <1>7

\* Bytes that go from the line into the tool's hands.
LEMMA TakingKeeps ==
    ASSUME LineTypes, toTool # <<>>,
           got' = Append(got, Head(toTool)), toTool' = Tail(toTool),
           NEW a, NEW n, Carries(a, n)
    PROVE  Carries(a, n)'
<1>1. /\ Len(got) \in Nat /\ Len(toTool) \in Nat /\ Len(toTool) > 0
      /\ Len(got') = Len(got) + 1 /\ Len(toTool') = Len(toTool) - 1
      /\ \A k \in 1 .. Len(got) : got'[k] = got[k]
      /\ got'[Len(got) + 1] = toTool[1]
      /\ \A k \in 1 .. Len(toTool) - 1 : toTool'[k] = toTool[k + 1]
  BY DEF LineTypes
<1>2. Len(got') + Len(toTool') = n
  BY <1>1 DEF Carries
<1>3. ASSUME NEW k \in 1 .. Len(got') PROVE got'[k] = [of |-> a, pos |-> k]
  <2>1. CASE k \in 1 .. Len(got)
    BY <1>1, <2>1 DEF Carries
  <2>2. CASE k = Len(got) + 1
    <3>1. 1 \in 1 .. Len(toTool)
      BY <1>1
    <3> QED
      BY <1>1, <2>2, <3>1 DEF Carries
  <2> QED
    BY <1>1, <2>1, <2>2
<1>4. ASSUME NEW k \in 1 .. Len(toTool') PROVE toTool'[k] = [of |-> a, pos |-> Len(got') + k]
  <2>1. k + 1 \in 1 .. Len(toTool) /\ k \in 1 .. Len(toTool) - 1
    BY <1>1
  <2>2. toTool'[k] = [of |-> a, pos |-> Len(got) + (k + 1)]
    BY <1>1, <2>1 DEF Carries
  <2>3. Len(got) + (k + 1) = Len(got') + k
    BY <1>1
  <2> QED
    BY <2>2, <2>3
<1> QED
  BY <1>2, <1>3, <1>4 DEF Carries

\* The tool reads a byte of the answer.
LEMMA ReadKeeps ==
    ASSUME LineTypes, OneRequest, Tool!ReadByte, UNCHANGED mscVars
    PROVE  OneRequest'
<1> USE DEF OneRequest
<1>1. /\ main = "read" /\ main' = "read" /\ UNCHANGED <<asked, shown, toScript>>
      /\ toTool # <<>> /\ got' = Append(got, Head(toTool)) /\ toTool' = Tail(toTool)
  BY DEF Tool!ReadByte
<1>2. UNCHANGED <<pc, received, answer, response, count, sent>>
  BY DEF mscVars
<1>3. ~Silent
  BY <1>1 DEF Silent
<1>4. toScript = <<>> /\ \A i \in Instances : ~Holding(i)
  BY <1>3 DEF AtMostOne
<1>5. AtMostOne' /\ Closed' /\ Printed'
  <2>1. toScript' = <<>> /\ \A i \in Instances : ~Holding(i)'
    BY <1>1, <1>2, <1>4 DEF Holding
  <2>2. \A i \in Instances : Writing(i)' <=> Writing(i)
    BY <1>2 DEF Writing
  <2> QED
    BY <1>1, <2>1, <2>2 DEF AtMostOne, Closed, Printed
<1>6. \A a, n : Carries(a, n) => Carries(a, n)'
  BY <1>1, TakingKeeps
<1>7. Open'
  <2>1. asked' > 0 /\ toScript' = <<>>
    BY <1>1, <1>4 DEF Open
  <2>2. ASSUME NEW i \in Instances
        PROVE  /\ pc'[i] \notin {"ask", "file", "wc"}
               /\ Writing(i)' =>
                    /\ response'.to = asked' /\ count'[i] = response'.len + 3
                    /\ Carries(response, sent[i])'
    <3>1. pc'[i] \notin {"ask", "file", "wc"}
      BY <1>2, <1>4 DEF Holding
    <3>2. Writing(i)' =>
            response'.to = asked' /\ count'[i] = response'.len + 3 /\ Carries(response, sent[i])
      BY <1>1, <1>2 DEF Open, Writing
    <3>3. Carries(response, sent[i]) => Carries(response, sent[i])'
      <4> DEFINE a == response
                 n == sent[i]
      <4>1. Carries(a, n) => /\ Len(got') + Len(toTool') = n
                             /\ \A k \in 1 .. Len(got') : got'[k] = [of |-> a, pos |-> k]
                             /\ \A k \in 1 .. Len(toTool') :
                                  toTool'[k] = [of |-> a, pos |-> Len(got') + k]
        <5> HIDE DEF a, n
        <5> QED
          BY <1>6 DEF Carries
      <4> QED
        BY <1>2, <4>1 DEF Carries
    <3> QED
      BY <3>1, <3>2, <3>3
  <2>3. \/ \E i \in Instances : Writing(i)'
        \/ \E a \in Answer : a.to = asked' /\ Carries(a, a.len + 3)'
    BY <1>1, <1>2, <1>3, <1>6 DEF Open, Writing
  <2> QED
    BY <2>1, <2>2, <2>3 DEF Open
<1> QED
  BY <1>5, <1>7

\* A whole response is one, so that nothing is left of it.
LEMMA PrintKeeps ==
    ASSUME LineTypes, OneRequest, Tool!PrintResponse, UNCHANGED mscVars,
           \A i \in Instances : sent[i] <= count[i]
    PROVE  OneRequest'
<1> USE DEF OneRequest
<1>1. /\ main = "read" /\ main' = "prompt" /\ UNCHANGED <<asked, toScript, toTool>>
      /\ shown' = got /\ got' = <<>> /\ Len(got) \in Tool!Needed \ {2}
  BY DEF Tool!PrintResponse, Tool!Step, Tool!lineVars
<1>2. UNCHANGED <<pc, received, answer, response, count, sent>>
  BY DEF mscVars
<1>3. /\ Len(got) \in Nat /\ Len(toTool) \in Nat /\ Len(got) >= 2
      /\ \E len \in Tool!Lengths(got[2]) : Len(got) = 3 + len
  BY <1>1 DEF LineTypes, Tool!Needed
<1>4. ~Silent
  BY <1>3 DEF Silent
<1>5. ASSUME NEW a, a.len \in Nat, NEW n, Carries(a, n)
      PROVE  Len(got) = a.len + 3
  <2>1. got[2] = [of |-> a, pos |-> 2]
    BY <1>3, <1>5 DEF Carries
  <2>2. Tool!Lengths(got[2]) = {a.len}
    BY <2>1 DEF Tool!Lengths
  <2> QED
    BY <1>3, <1>5, <2>2
<1>6. toScript = <<>> /\ \A i \in Instances : ~Holding(i)
  BY <1>4 DEF AtMostOne
<1>7. ASSUME NEW i \in Instances, Writing(i) PROVE FALSE
  <2>1. count[i] = response.len + 3 /\ Carries(response, sent[i]) /\ response.len \in Nat
    BY <1>1, <1>7 DEF Open, LineTypes, Answer
  <2>2. Len(got) = response.len + 3
    BY <1>5, <2>1
  <2>3. Len(got) + Len(toTool) = sent[i] /\ sent[i] < count[i]
    BY <1>7, <2>1 DEF Carries, Writing
  <2> QED
    BY <1>3, <2>1, <2>2, <2>3 DEF LineTypes
<1>8. PICK a \in Answer : a.to = asked /\ Carries(a, a.len + 3)
  BY <1>1, <1>4, <1>7 DEF Open
<1>9. Len(got) = a.len + 3 /\ toTool = <<>> /\ \A k \in 1 .. Len(got) : got[k] = [of |-> a, pos |-> k]
  <2>1. a.len \in Nat
    BY DEF Answer
  <2>2. Len(got) = a.len + 3
    BY <1>5, <1>8, <2>1
  <2>3. Len(toTool) = 0
    BY <1>3, <1>8, <2>1, <2>2 DEF Carries
  <2> QED
    BY <1>8, <2>2, <2>3 DEF Carries, LineTypes
<1>10. Silent' /\ toScript' = <<>> /\ \A i \in Instances : ~Holding(i)' /\ ~Writing(i)'
  BY <1>1, <1>2, <1>6, <1>7, <1>9 DEF Silent, Holding, Writing
<1>11. AtMostOne' /\ Closed' /\ Open'
  BY <1>1, <1>10 DEF AtMostOne, Closed, Open
<1>12. Printed'
  BY <1>1, <1>8, <1>9 DEF Printed
<1> QED
  BY <1>11, <1>12

\* Every step of the tool keeps what one request is, unless a read is left.
LEMMA ToolKeeps ==
    ASSUME LineTypes, OneRequest, Tool!Next, UNCHANGED mscVars,
           \A i \in Instances : sent[i] <= count[i],
           main = "read" => main' \in {"read", "prompt"}
    PROVE  OneRequest'
<1>1. CASE Tool!Run
  BY <1>1, OutsideSteps DEF Tool!Run, Tool!Over, Tool!lineVars
<1>2. CASE Tool!Exit
  BY <1>2, OutsideSteps DEF Tool!Exit, Tool!Step, Tool!requestVars, Tool!lineVars
<1>3. CASE Tool!Return \/ Tool!PortThrows \/ Tool!Kill \/ Tool!HandlerExits
  <2>1. /\ main' \in {"ended", "failed"} /\ got' = <<>> /\ shown' = <<>>
        /\ UNCHANGED <<asked, toScript, toTool>>
    BY <1>3 DEF Tool!Return, Tool!PortThrows, Tool!Kill, Tool!HandlerExits, Tool!Ends, Tool!lineVars
  <2> QED
    BY <2>1, OutsideSteps
<1>4. CASE (\E sig \in Signals : Tool!Signal(sig)) \/ Tool!HandlerDeletes \/ Tool!HandlerClears
  BY <1>4, OutsideSteps
     DEF Tool!Signal, Tool!HandlerDeletes, Tool!HandlerClears, Tool!requestVars, Tool!lineVars
<1> QED
  BY <1>1, <1>2, <1>3, <1>4, SendKeeps, ReadKeeps, PrintKeeps, Zenon DEF Tool!Next

-----------------------------------------------------------------------------
(* The scripts' steps. *)

\* Instance i gives up what it had, if it had anything, or the request on the
\* line is lost.
LEMMA LosingKeeps ==
    ASSUME OneRequest, NEW i \in Instances,
           UNCHANGED <<main, asked, shown, got, toTool>>, toScript' \in {toScript, <<>>},
           ~Writing(i), ~Holding(i)', ~Writing(i)',
           \A j \in Instances : j # i =>
             /\ pc'[j] = pc[j] /\ received'[j] = received[j] /\ answer'[j] = answer[j]
             /\ count'[j] = count[j] /\ sent'[j] = sent[j],
           response' = response \/ \A j \in Instances : j # i => pc[j] \notin {"wc", "dd"}
    PROVE  OneRequest'
<1> USE DEF OneRequest
<1>1. /\ Silent' <=> Silent
      /\ toScript' # <<>> => toScript' = toScript
  BY DEF Silent
<1>2. ASSUME NEW j \in Instances, j # i
      PROVE  (Holding(j)' <=> Holding(j)) /\ (Writing(j)' <=> Writing(j))
  BY <1>2 DEF Holding, Writing
<1>3. AtMostOne'
  BY <1>1, <1>2 DEF AtMostOne
<1>4. Closed'
  BY <1>1, <1>2 DEF Closed
<1>5. Open'
  <2>1. \A a, n : Carries(a, n)' <=> Carries(a, n)
    BY DEF Carries
  <2>2. ASSUME NEW j \in Instances, j # i, main = "read"
        PROVE  /\ pc'[j] = "ask" => received'[j] = asked'
               /\ pc'[j] = "file" => answer'[j].to = asked'
               /\ pc'[j] = "wc" => response'.to = asked'
               /\ Writing(j)' =>
                    /\ response'.to = asked' /\ count'[j] = response'.len + 3
                    /\ Carries(response, sent[j])'
    <3>1. pc'[j] \in {"ask", "file"} =>
            /\ pc'[j] = "ask" => received'[j] = asked'
            /\ pc'[j] = "file" => answer'[j].to = asked'
      BY <2>2 DEF Open
    <3>2. CASE pc[j] \in {"wc", "dd"}
      <4>1. response' = response /\ sent'[j] = sent[j]
        BY <2>2, <3>2
      <4>2. Carries(response, sent[j])' <=> Carries(response, sent[j])
        BY <4>1 DEF Carries
      <4> QED
        BY <1>2, <2>2, <3>1, <4>1, <4>2 DEF Open
    <3>3. CASE pc[j] \notin {"wc", "dd"}
      BY <2>2, <3>1, <3>3 DEF Writing
    <3> QED
      BY <3>2, <3>3
  <2>3. pc'[i] \notin {"ask", "file", "wc"}
    BY DEF Holding
  <2>4. main = "read" =>
          \/ Silent' \/ \E j \in Instances : Writing(j)'
          \/ \E a \in Answer : a.to = asked' /\ Carries(a, a.len + 3)'
    <3>1. ASSUME NEW j \in Instances, Writing(j) PROVE Writing(j)'
      BY <1>2, <3>1
    <3> QED
      BY <1>1, <2>1, <3>1 DEF Open
  <2>5. main = "read" => asked' > 0 /\ (toScript' # <<>> => toScript' = <<asked'>>)
    BY <1>1 DEF Open
  <2> QED
    BY <2>2, <2>3, <2>4, <2>5 DEF Open
<1>6. Printed'
  BY DEF Printed
<1> QED
  BY <1>3, <1>4, <1>5, <1>6

\* Instance i has the open request in hand, or its answer.
LEMMA HandingKeeps ==
    ASSUME OneRequest, NEW i \in Instances,
           main = "read", UNCHANGED <<main, asked, shown>>, toScript' = <<>>,
           \A j \in Instances : j # i => ~Holding(j)' /\ ~Writing(j)',
           Holding(i)' => Silent',
           pc'[i] = "ask" => received'[i] = asked,
           pc'[i] = "file" => answer'[i].to = asked,
           pc'[i] = "wc" => response'.to = asked,
           Writing(i)' => /\ response'.to = asked /\ count'[i] = response'.len + 3
                          /\ Carries(response, sent[i])',
           \/ Silent' \/ Writing(i)'
           \/ \E a \in Answer : a.to = asked /\ Carries(a, a.len + 3)'
    PROVE  OneRequest'
<1>1. AtMostOne'
  BY DEF AtMostOne
<1>2. Closed' /\ Printed'
  BY DEF Closed, Printed
<1>3. asked > 0
  BY DEF OneRequest, Open
<1>4. \A j \in Instances : j # i => pc'[j] \notin {"ask", "file", "wc"}
  BY DEF Holding
<1>5. Open'
  BY <1>3, <1>4 DEF Open
<1> QED
  BY <1>1, <1>2, <1>5 DEF OneRequest

\* An instance that has no bytes to write moves to where it has nothing.
LEMMA IdleKeeps ==
    ASSUME MscInv, LineTypes, OneRequest, NEW i \in Instances, UNCHANGED toolVars,
           pc[i] = "dd" => pc'[i] \in {"dd", "wait"},
           \/ Msc!Start(i) \/ Msc!Check(i) \/ Msc!Cat(i) \/ Msc!Ps(i) \/ Msc!RemoveStale(i)
           \/ Msc!Create(i) \/ Msc!Echo(i) \/ Msc!CleanUp(i) \/ Msc!Interrupt(i)
           \/ Msc!TypeOther(i) \/ Msc!Sent(i)
    PROVE  OneRequest'
<1>0. /\ UNCHANGED <<main, asked, shown, got>>
      /\ DOMAIN pc = Instances /\ DOMAIN received = Instances /\ DOMAIN answer = Instances
      /\ DOMAIN count = Instances /\ DOMAIN sent = Instances
  BY DEF toolVars, LineTypes, MscInv, MscTypes, Msc!TypeOK
<1>1. /\ UNCHANGED <<toScript, toTool>>
      /\ \A j \in Instances : j # i =>
           /\ pc'[j] = pc[j] /\ received'[j] = received[j] /\ answer'[j] = answer[j]
           /\ count'[j] = count[j] /\ sent'[j] = sent[j]
      /\ response' = response \/ \A j \in Instances : j # i => pc[j] \notin {"wc", "dd"}
  <2>1. CASE Msc!Interrupt(i)
    BY <1>0, <2>1 DEF Msc!Interrupt, Msc!lineVars
  <2>2. CASE Msc!TypeOther(i)
    BY <1>0, <2>2 DEF Msc!TypeOther, Msc!Step, Msc!lineVars
  <2>3. CASE Msc!Sent(i)
    BY <1>0, <2>3 DEF Msc!Sent, Msc!Step, Msc!lineVars
  <2>4. CASE \/ Msc!Start(i) \/ Msc!Check(i) \/ Msc!Cat(i) \/ Msc!Ps(i) \/ Msc!RemoveStale(i)
             \/ Msc!Create(i) \/ Msc!Echo(i) \/ Msc!CleanUp(i)
    BY <1>0, <2>4
       DEF Msc!Start, Msc!Check, Msc!Cat, Msc!Ps, Msc!RemoveStale, Msc!Create, Msc!Echo,
           Msc!CleanUp, Msc!Step, Msc!answerVars, Msc!lineVars
  <2> QED
    BY <2>1, <2>2, <2>3, <2>4
<1>2. pc'[i] \notin {"ask", "file", "wc", "dd"}
  BY <1>0 DEF Msc!Start, Msc!Check, Msc!Cat, Msc!Ps, Msc!RemoveStale, Msc!Create, Msc!Echo,
              Msc!CleanUp, Msc!Interrupt, Msc!TypeOther, Msc!Sent, Msc!Step
<1>3. ~Writing(i)
  <2>1. CASE Msc!Sent(i)
    <3> SUFFICES ASSUME Writing(i) PROVE FALSE
      OBVIOUS
    <3>1. /\ sent[i] = count[i] \/ sent[i] >= Msc!Size(response)
          /\ sent[i] \in Nat /\ count[i] \in Nat /\ sent[i] < count[i]
      BY <2>1 DEF Msc!Sent, LineTypes, Writing
    <3>2. main = "read" /\ response.to = asked /\ asked > 0 /\ count[i] = response.len + 3
      BY DEF OneRequest, Closed, Open
    <3>3. Msc!Size(response) = response.len + 3
      BY <3>2 DEF Msc!Size, Msc!NoAnswer
    <3> QED
      BY <3>1, <3>2, <3>3
  <2>2. CASE ~Msc!Sent(i)
    <3>1. CASE Msc!Interrupt(i)
      BY <1>0, <3>1 DEF Msc!Interrupt, Writing
    <3>2. CASE ~Msc!Interrupt(i)
      BY <2>2, <3>2 DEF Msc!Start, Msc!Check, Msc!Cat, Msc!Ps, Msc!RemoveStale, Msc!Create,
              Msc!Echo, Msc!CleanUp, Msc!TypeOther, Msc!Step, Writing
    <3> QED
      BY <3>1, <3>2
  <2> QED
    BY <2>1, <2>2
<1>4. ~Holding(i)' /\ ~Writing(i)'
  BY <1>2 DEF Holding, Writing
<1> QED
  BY <1>0, <1>1, <1>3, <1>4, LosingKeeps

\* An instance gets the request, has an answer typed, or puts it in the file.
LEMMA HoldingKeeps ==
    ASSUME MscInv, LineTypes, OneRequest, NEW i \in Instances, UNCHANGED toolVars,
           Msc!Receive(i) \/ Msc!TypeAnswer(i) \/ Msc!WriteFile(i) \/ Msc!CountBytes(i)
    PROVE  OneRequest'
<1>0. /\ UNCHANGED <<main, asked, shown, got>>
      /\ DOMAIN pc = Instances /\ DOMAIN received = Instances /\ DOMAIN answer = Instances
      /\ DOMAIN count = Instances /\ DOMAIN sent = Instances
  BY DEF toolVars, LineTypes, MscInv, MscTypes, Msc!TypeOK
<1>1. toScript # <<>> \/ Holding(i)
  BY DEF Msc!Receive, Msc!TypeAnswer, Msc!WriteFile, Msc!CountBytes, Msc!Step, Holding
<1>2. /\ main = "read" /\ Silent
      /\ \A j \in Instances : j # i => ~Holding(j) /\ ~Writing(j)
      /\ Holding(i) => toScript = <<>>
      /\ toScript # <<>> => toScript = <<asked>>
  BY <1>1 DEF OneRequest, AtMostOne, Closed, Open
<1>3. /\ toScript' = <<>> /\ toTool' = toTool
      /\ \A j \in Instances : j # i =>
           pc'[j] = pc[j] /\ count'[j] = count[j] /\ sent'[j] = sent[j]
  <2>1. CASE Msc!Receive(i)
    BY <1>0, <2>1 DEF Msc!Receive, Msc!Step
  <2>2. CASE Msc!TypeAnswer(i) \/ Msc!WriteFile(i) \/ Msc!CountBytes(i)
    <3>1. Holding(i) /\ UNCHANGED <<toScript, toTool>>
      BY <2>2 DEF Msc!TypeAnswer, Msc!WriteFile, Msc!CountBytes, Msc!Step, Msc!lineVars, Holding
    <3> QED
      BY <1>0, <1>2, <2>2, <3>1 DEF Msc!TypeAnswer, Msc!WriteFile, Msc!CountBytes, Msc!Step
  <2> QED
    BY <2>1, <2>2
<1>4. Silent'
  BY <1>0, <1>2, <1>3 DEF Silent
<1>5. \A j \in Instances : j # i => ~Holding(j)' /\ ~Writing(j)'
  BY <1>2, <1>3 DEF Holding, Writing
<1>6. /\ pc'[i] = "ask" => received'[i] = asked
      /\ pc'[i] = "file" => answer'[i].to = asked
      /\ pc'[i] = "wc" => response'.to = asked
  <2>1. CASE Msc!Receive(i)
    <3>1. pc'[i] = "ask" /\ toScript = <<asked>>
      BY <1>0, <1>2, <2>1 DEF Msc!Receive, Msc!Step
    <3>2. toScript[Len(toScript)] = asked
      BY <3>1
    <3> QED
      BY <1>0, <2>1, <3>1, <3>2 DEF Msc!Receive
  <2>2. CASE Msc!TypeAnswer(i)
    <3>1. pc'[i] = "file" /\ pc[i] = "ask" /\ received[i] = asked
      BY <1>0, <1>2, <2>2 DEF Msc!TypeAnswer, Msc!Step, OneRequest, Open
    <3> QED
      BY <1>0, <2>2, <3>1 DEF Msc!TypeAnswer
  <2>3. CASE Msc!WriteFile(i)
    <3>1. pc'[i] = "wc" /\ pc[i] = "file" /\ answer[i].to = asked
      BY <1>0, <1>2, <2>3 DEF Msc!WriteFile, Msc!Step, OneRequest, Open
    <3> QED
      BY <2>3, <3>1 DEF Msc!WriteFile
  <2>4. CASE Msc!CountBytes(i)
    BY <1>0, <2>4 DEF Msc!CountBytes, Msc!Step
  <2> QED
    BY <2>1, <2>2, <2>3, <2>4
<1>7. Writing(i)' => /\ response'.to = asked /\ count'[i] = response'.len + 3
                     /\ Carries(response, sent[i])'
  <2>1. CASE Msc!CountBytes(i)
    <3>1. /\ response' = response /\ response.to = asked /\ asked > 0
          /\ count'[i] = Msc!Size(response) /\ sent'[i] = 0
      BY <1>0, <1>2, <2>1 DEF Msc!CountBytes, Msc!Step, OneRequest, Open
    <3>2. Msc!Size(response) = response.len + 3
      BY <3>1 DEF Msc!Size, Msc!NoAnswer
    <3>3. Carries(response, sent[i])'
      BY <1>4, <3>1 DEF Silent, Carries
    <3> QED
      BY <3>1, <3>2, <3>3
  <2>2. CASE ~Msc!CountBytes(i)
    <3>1. pc'[i] # "dd"
      BY <1>0, <2>2 DEF Msc!Receive, Msc!TypeAnswer, Msc!WriteFile, Msc!Step
    <3> QED
      BY <3>1 DEF Writing
  <2> QED
    BY <2>1, <2>2
<1> QED
  BY <1>0, <1>2, <1>3, <1>4, <1>5, <1>6, <1>7, HandingKeeps

\* dd puts the next byte of the answer on the line.
LEMMA SendingKeeps ==
    ASSUME LineTypes, OneRequest, NEW i \in Instances, UNCHANGED toolVars, Msc!SendByte(i)
    PROVE  OneRequest'
<1>1. /\ UNCHANGED <<main, asked, shown, got, pc, response, count, toScript>>
      /\ Writing(i) /\ toTool' = Append(toTool, [of |-> response, pos |-> sent[i] + 1])
      /\ sent' = [sent EXCEPT ![i] = sent[i] + 1]
  BY DEF Msc!SendByte, toolVars, Writing
<1>2. sent'[i] = sent[i] + 1 /\ \A j \in Instances : j # i => sent'[j] = sent[j]
  BY <1>1 DEF LineTypes
<1>3. /\ main = "read" /\ toScript = <<>>
      /\ \A j \in Instances : ~Holding(j) /\ (j # i => ~Writing(j))
  <2>1. main = "read"
    BY <1>1 DEF OneRequest, Closed
  <2>2. ~Holding(i)
    BY <1>1 DEF Holding, Writing
  <2> QED
    BY <1>1, <2>1, <2>2 DEF OneRequest, AtMostOne
<1>4. response.to = asked /\ count[i] = response.len + 3 /\ Carries(response, sent[i])
  BY <1>1, <1>3 DEF OneRequest, Open
<1>5. /\ Len(got) \in Nat /\ Len(toTool) \in Nat /\ Len(toTool') = Len(toTool) + 1
      /\ toTool'[Len(toTool) + 1] = [of |-> response, pos |-> sent[i] + 1]
      /\ \A k \in 1 .. Len(toTool) : toTool'[k] = toTool[k]
  BY <1>1 DEF LineTypes
<1>6. Carries(response, sent[i])'
  <2>1. Len(got) + Len(toTool) = sent[i]
    BY <1>4 DEF Carries
  <2>2. Len(got') + Len(toTool') = sent'[i]
    BY <1>1, <1>2, <1>5, <2>1
  <2>3. ASSUME NEW k \in 1 .. Len(toTool')
        PROVE  toTool'[k] = [of |-> response, pos |-> Len(got) + k]
    <3>1. CASE k \in 1 .. Len(toTool)
      BY <1>4, <1>5, <3>1 DEF Carries
    <3>2. CASE k = Len(toTool) + 1
      <4>1. Len(got) + k = sent[i] + 1
        BY <1>5, <2>1, <3>2
      <4> QED
        BY <1>5, <3>2, <4>1
    <3> QED
      BY <1>5, <3>1, <3>2
  <2> QED
    BY <1>1, <1>4, <2>2, <2>3 DEF Carries
<1>7. \A j \in Instances : ~Holding(j)' /\ (j # i => ~Writing(j)')
  BY <1>1, <1>2, <1>3 DEF Holding, Writing
<1>8. Writing(i)' \/ \E a \in Answer : a.to = asked /\ Carries(a, a.len + 3)'
  <2>1. pc'[i] = "dd" /\ sent[i] < count[i] /\ sent[i] \in Nat /\ count[i] \in Nat
    BY <1>1 DEF Writing, LineTypes
  <2>2. CASE sent'[i] < count'[i]
    BY <2>1, <2>2 DEF Writing
  <2>3. CASE sent'[i] = response.len + 3
    <3>1. PICK a \in Answer : a = response
      BY DEF LineTypes
    <3>2. Carries(a, a.len + 3)'
      BY <1>1, <1>6, <2>3, <3>1 DEF Carries
    <3> QED
      BY <1>4, <3>1, <3>2
  <2>4. count'[i] = response.len + 3 /\ response.len \in Nat /\ sent'[i] <= count'[i]
    BY <1>1, <1>2, <1>4, <2>1 DEF LineTypes, Answer
  <2>5. sent'[i] \in Nat
    BY <1>2, <2>1
  <2>6. sent'[i] < count'[i] \/ sent'[i] = response.len + 3
    BY <2>4, <2>5
  <2> QED
    BY <2>2, <2>3, <2>6, Zenon
<1>9. pc'[i] \notin {"ask", "file", "wc"}
  BY <1>7 DEF Holding
<1> QED
  BY <1>1, <1>3, <1>4, <1>6, <1>7, <1>8, <1>9, HandingKeeps

\* What a dd that was left behind reads is lost.
LEMMA OrphanKeeps ==
    ASSUME OneRequest, NEW i \in Instances, UNCHANGED toolVars, Msc!OrphanReads(i)
    PROVE  OneRequest'
<1>1. /\ UNCHANGED <<main, asked, shown, got, toTool, pc, received, answer, response, count, sent>>
      /\ toScript # <<>> /\ toScript' = <<>>
  BY DEF Msc!OrphanReads, toolVars
<1>2. ~Holding(i) /\ ~Writing(i)
  BY <1>1 DEF OneRequest, AtMostOne
<1>3. ~Holding(i)' /\ ~Writing(i)'
  BY <1>1, <1>2 DEF Holding, Writing
<1> QED
  BY <1>1, <1>2, <1>3, LosingKeeps

\* Every step of the scripts keeps the types of what is on its way.
LEMMA MscTypesOfLine == LineTypes /\ Msc!Next /\ UNCHANGED toolVars => LineTypes'
<1> SUFFICES ASSUME LineTypes, Msc!Next, UNCHANGED toolVars PROVE LineTypes'
  OBVIOUS
<1> PICK i \in Instances :
       \/ \/ Msc!Start(i) \/ Msc!Check(i) \/ Msc!Cat(i) \/ Msc!Ps(i) \/ Msc!RemoveStale(i)
          \/ Msc!Create(i) \/ Msc!Echo(i) \/ Msc!CleanUp(i)
       \/ \/ Msc!Interrupt(i) \/ Msc!Receive(i) \/ Msc!OrphanReads(i)
          \/ Msc!TypeAnswer(i) \/ Msc!TypeOther(i)
          \/ Msc!WriteFile(i) \/ Msc!CountBytes(i) \/ Msc!SendByte(i) \/ Msc!Sent(i)
  BY Zenon DEF Msc!Next
<1>1. CASE \/ Msc!Start(i) \/ Msc!Check(i) \/ Msc!Cat(i) \/ Msc!Ps(i) \/ Msc!RemoveStale(i)
           \/ Msc!Create(i) \/ Msc!Echo(i) \/ Msc!CleanUp(i)
  <2>1. /\ UNCHANGED <<asked, shown, got, toScript, toTool>>
        /\ UNCHANGED <<received, answer, response, count, sent>>
    BY <1>1
       DEF Msc!Start, Msc!Check, Msc!Cat, Msc!Ps, Msc!RemoveStale, Msc!Create, Msc!Echo,
           Msc!CleanUp, Msc!answerVars, Msc!lineVars, toolVars
  <2> QED
    BY <2>1 DEF LineTypes
<1> QED
  BY <1>1, MscLineTypes

\* Every step of the scripts keeps what one request is, unless an instance is
\* interrupted while its dd writes.
LEMMA MscKeeps ==
    ASSUME MscInv, LineTypes, OneRequest, Msc!Next, UNCHANGED toolVars,
           \A i \in Instances : pc[i] = "dd" => pc'[i] \in {"dd", "wait"}
    PROVE  OneRequest'
<1> PICK i \in Instances :
       \/ \/ Msc!Start(i) \/ Msc!Check(i) \/ Msc!Cat(i) \/ Msc!Ps(i) \/ Msc!RemoveStale(i)
          \/ Msc!Create(i) \/ Msc!Echo(i) \/ Msc!CleanUp(i) \/ Msc!Interrupt(i)
          \/ Msc!TypeOther(i) \/ Msc!Sent(i)
       \/ Msc!Receive(i) \/ Msc!TypeAnswer(i) \/ Msc!WriteFile(i) \/ Msc!CountBytes(i)
       \/ Msc!OrphanReads(i) \/ Msc!SendByte(i)
  BY Zenon DEF Msc!Next
<1> QED
  BY IdleKeeps, HoldingKeeps, SendingKeeps, OrphanKeeps

\* A step outside of the bench leaves both.
LEMMA LineStays == LineTypes /\ UNCHANGED vars => LineTypes' /\ (OneRequest => OneRequest')
<1> SUFFICES ASSUME LineTypes, UNCHANGED vars PROVE LineTypes' /\ (OneRequest => OneRequest')
  OBVIOUS
<1>1. UNCHANGED <<main, asked, shown, got, toScript, toTool>> /\ UNCHANGED mscVars
  BY DEF vars, toolVars
<1>2. LineTypes'
  BY <1>1 DEF mscVars, LineTypes
<1>3. OneRequest => OneRequest'
  BY <1>1, OutsideSteps
<1> QED
  BY <1>2, <1>3

\* Every step of the bench keeps what is on the line, and what one request is
\* as long as neither end was interrupted in an exchange.
LineInv == MscInv /\ LineTypes /\ Settled

LEMMA LineSteps == LineInv /\ [Next]_vars => LineInv'
<1> SUFFICES ASSUME LineInv, [Next]_vars PROVE LineInv'
  OBVIOUS
<1>1. MscInv'
  BY MscSteps DEF LineInv
<1>2. CASE ToolStep
  <2>1. LineTypes'
    BY <1>2, ToolLineTypes DEF ToolStep, LineInv
  <2>2. ASSUME ~unsettled' PROVE OneRequest'
    <3>1. OneRequest /\ (main = "read" => main' \in {"read", "prompt"})
      BY <1>2, <2>2 DEF ToolStep, LineInv, Settled
    <3>2. \A i \in Instances : sent[i] <= count[i]
      BY DEF LineInv, MscInv, MscTypes, Msc!TypeOK
    <3> QED
      BY <1>2, <3>1, <3>2, ToolKeeps DEF ToolStep, LineInv
  <2> QED
    BY <1>1, <2>1, <2>2 DEF LineInv, Settled
<1>3. CASE MscStep
  <2>1. LineTypes'
    BY <1>3, MscTypesOfLine DEF MscStep, LineInv
  <2>2. ASSUME ~unsettled' PROVE OneRequest'
    <3>1. OneRequest /\ \A i \in Instances : pc[i] = "dd" => pc'[i] \in {"dd", "wait"}
      BY <1>3, <2>2 DEF MscStep, LineInv, Settled
    <3> QED
      BY <1>3, <3>1, MscKeeps DEF MscStep, LineInv
  <2> QED
    BY <1>1, <2>1, <2>2 DEF LineInv, Settled
<1>4. CASE UNCHANGED vars
  <2>1. unsettled' = unsettled
    BY <1>4 DEF vars
  <2> QED
    BY <1>1, <1>4, <2>1, LineStays DEF LineInv, Settled
<1> QED
  BY <1>2, <1>3, <1>4 DEF Next

\* What the tool prints is one whole response, typed in answer to its own
\* request, however many instances of the script run, whatever the lock does and
\* whatever requests a dd left behind has eaten, as long as neither end was
\* interrupted in the middle of an exchange (CommandHandler.cpp:91-93,
\* SerialConnection.cpp:21-34, virtual-msc.sh:70, 121-123, all of src/serial).
THEOREM OwnResponse == Spec => []ResponseIsOwn
<1>1. Init => LineInv
  BY MscInit, LineInit DEF LineInv
<1>2. LineInv /\ [Next]_vars => LineInv'
  BY LineSteps
<1>3. LineInv => ResponseIsOwn
  <2> SUFFICES ASSUME LineInv, main = "prompt", shown # <<>>, ~unsettled
               PROVE  /\ shown[1].of.to = asked
                      /\ Len(shown) = shown[1].of.len + 3
                      /\ \A k \in DOMAIN shown : shown[k] = [of |-> shown[1].of, pos |-> k]
    BY DEF ResponseIsOwn
  <2>1. PICK a \in Answer :
          /\ a.to = asked /\ Len(shown) = a.len + 3
          /\ \A k \in 1 .. Len(shown) : shown[k] = [of |-> a, pos |-> k]
    BY DEF LineInv, Settled, OneRequest, Printed
  <2>2. DOMAIN shown = 1 .. Len(shown) /\ 1 \in 1 .. Len(shown)
    BY <2>1 DEF LineInv, LineTypes, Answer
  <2>3. shown[1].of = a
    <3>1. shown[1] = [of |-> a, pos |-> 1]
      BY <2>1, <2>2
    <3> QED
      BY <3>1
  <2> QED
    BY <2>1, <2>2, <2>3
<1> QED
  BY <1>1, <1>2, <1>3, PTL DEF Spec
=============================================================================
