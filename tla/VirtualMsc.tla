------------------------------ MODULE VirtualMsc ------------------------------
(***************************************************************************)
(* serial/virtual-msc.sh: instances of a script that shows the requests of *)
(* a serial line to its user, who types the answers.  One instance at a    *)
(* time is wanted: a lock file holds its process number.  The bytes of an  *)
(* answer go through a second file, of one name for all instances.         *)
(*                                                                         *)
(* Each instance stands for one process, started once: a restart is        *)
(* another instance.  Its number may be somebody else's once it has ended. *)
(* A file is the instance that created it (inode) and what is in it; one   *)
(* that was removed is written to all the same, and nobody sees it.        *)
(***************************************************************************)
EXTENDS Integers, Sequences

CONSTANTS
    Instances,   \* processes of the script
    Nobody,      \* in an empty file
    AnswerLens   \* bound: payload lengths typed

VARIABLES
    pc,          \* where each instance is
    lockFile,    \* LOCKFILE, or NoFile
    lockPid,     \* LOCKPID: what each instance read in it, until it has used it
    fd,          \* the file that each instance's echo has open, or Nobody
    lapsed,      \* history: the lock file did not do its duty
    received,    \* the last of the requests each instance shows, or 0
    answer,      \* the answer typed at each and not sent yet, or NoAnswer
    response,    \* response.bin, as long as somebody may read it, or NoAnswer
    count, sent, \* dd's count and the bytes it has written
    orphans,     \* instances that left a dd behind that reads the line
    toScript,    \* the line: requests
    toTool       \* the line: bytes of answers

lockVars == <<lockFile, lockPid, fd, lapsed>>
answerVars == <<received, answer, response, count, sent, orphans>>
lineVars == <<toScript, toTool>>
vars == <<pc, lockVars, answerVars, lineVars>>

NoFile == [inode |-> Nobody, pid |-> Nobody]
NoAnswer == [to |-> 0, len |-> 0]

\* ack byte, payload length, payload, crc
Size(a) == IF a = NoAnswer THEN 0 ELSE a.len + 3

Starting == {"check", "cat", "ps", "stale", "create", "echo"}
Running == {"wait", "ask", "file", "wc", "dd"}

Init ==
    /\ pc = [i \in Instances |-> "off"]
    /\ lockFile = NoFile
    /\ lockPid = [i \in Instances |-> Nobody]
    /\ fd = [i \in Instances |-> Nobody]
    /\ lapsed = FALSE
    /\ received = [i \in Instances |-> 0]
    /\ answer = [i \in Instances |-> NoAnswer]
    /\ response = NoAnswer
    /\ count = [i \in Instances |-> 0] /\ sent = [i \in Instances |-> 0]
    /\ orphans = {}
    /\ toScript = <<>> /\ toTool = <<>>

Step(i, from, to) == pc[i] = from /\ pc' = [pc EXCEPT ![i] = to]

Alive(i) == pc[i] \notin {"off", "ended"}

-----------------------------------------------------------------------------
(* The lock. *)

\* One that is started while another is starting may find no file.
Start(i) ==
    /\ Step(i, "off", "check")
    /\ lapsed' = (lapsed \/ \E j \in Instances : pc[j] \in Starting)
    /\ UNCHANGED <<lockFile, lockPid, fd, answerVars, lineVars>>

Check(i) ==
    /\ Step(i, "check", IF lockFile = NoFile THEN "create" ELSE "cat")
    /\ UNCHANGED <<lockVars, answerVars, lineVars>>

Cat(i) ==
    /\ Step(i, "cat", "ps")
    /\ lockPid' = [lockPid EXCEPT ![i] = lockFile.pid]
    /\ UNCHANGED <<lockFile, fd, lapsed, answerVars, lineVars>>

\* Mutant: the file of an instance that runs is taken for a stale one.
Refuses_Never(i) == FALSE

\* ps finds the process of that number; an empty number is nobody's.
Refuses(i) == lockPid[i] # Nobody /\ Alive(lockPid[i])

\* A refused instance exits, and its trap, set before, removes the file.  The
\* number of a process that has ended may be a stranger's by now.
Ps(i) ==
    /\ \/ lockPid[i] # Nobody /\ Step(i, "ps", "cleanup")
       \/ ~Refuses(i) /\ Step(i, "ps", "stale")
    /\ lockPid' = [lockPid EXCEPT ![i] = Nobody]
    /\ UNCHANGED <<lockFile, fd, lapsed, answerVars, lineVars>>

RemoveStale(i) ==
    /\ Step(i, "stale", "create")
    /\ lockFile' = NoFile
    /\ UNCHANGED <<lockPid, fd, lapsed, answerVars, lineVars>>

\* echo $$ > LOCKFILE creates the file, or empties it, and then writes.
Create(i) ==
    /\ Step(i, "create", "echo")
    /\ LET inode == IF lockFile = NoFile THEN i ELSE lockFile.inode
       IN  lockFile' = [inode |-> inode, pid |-> Nobody] /\ fd' = [fd EXCEPT ![i] = inode]
    /\ UNCHANGED <<lockPid, lapsed, answerVars, lineVars>>

\* The script ends here when it was not given a device.
Echo(i) ==
    /\ \/ Step(i, "echo", "wait")
       \/ Step(i, "echo", "cleanup")
    /\ lockFile' = IF lockFile.inode = fd[i] THEN [lockFile EXCEPT !.pid = i] ELSE lockFile
    /\ fd' = [fd EXCEPT ![i] = Nobody]
    /\ UNCHANGED <<lockPid, lapsed, answerVars, lineVars>>

\* cleanup, the trap of every exit: the file is removed, whoever's it is.
CleanUp(i) ==
    /\ Step(i, "cleanup", "ended")
    /\ lockFile' = NoFile
    /\ lapsed' = (lapsed \/ (lockFile.inode \notin {Nobody, i} /\ Alive(lockFile.inode)))
    /\ UNCHANGED <<lockPid, fd, answerVars, lineVars>>

\* SIGINT and SIGTERM run the trap, SIGKILL does not; of SIGTERM and SIGKILL
\* the dd that waits for a request knows nothing.
Interrupt(i) ==
    /\ pc[i] \in Starting \cup Running \cup {"cleanup"}
    /\ pc' \in {[pc EXCEPT ![i] = "cleanup"], [pc EXCEPT ![i] = "ended"]}
    /\ orphans' \in {orphans} \cup (IF pc[i] = "wait" THEN {orphans \cup {i}} ELSE {})
    /\ lockPid' = [lockPid EXCEPT ![i] = Nobody]
    /\ fd' = [fd EXCEPT ![i] = Nobody]
    /\ answer' = [answer EXCEPT ![i] = NoAnswer]
    /\ received' = [received EXCEPT ![i] = 0]
    /\ count' = [count EXCEPT ![i] = 0] /\ sent' = [sent EXCEPT ![i] = 0]
    /\ UNCHANGED <<lockFile, lapsed, response, lineVars>>

-----------------------------------------------------------------------------
(* The loop. *)

\* dd takes what is on the line, several requests if there are; reading nothing
\* would only begin another dd.
Receive(i) ==
    /\ Step(i, "wait", "ask")
    /\ toScript # <<>>
    /\ toScript' = <<>>
    /\ received' = [received EXCEPT ![i] = toScript[Len(toScript)]]
    /\ UNCHANGED <<lockVars, answer, response, count, sent, orphans, toTool>>

\* What a dd that was left behind reads is lost.
OrphanReads(i) ==
    /\ i \in orphans
    /\ toScript # <<>>
    /\ toScript' = <<>>
    /\ orphans' = orphans \ {i}
    /\ UNCHANGED <<pc, lockVars, received, answer, response, count, sent, toTool>>

\* The user answers the last request shown.
TypeAnswer(i) ==
    /\ Step(i, "ask", "file")
    /\ \E len \in AnswerLens :
         answer' = [answer EXCEPT ![i] =
                      [to |-> received[i], len |-> len]]
    /\ received' = [received EXCEPT ![i] = 0]
    /\ UNCHANGED <<lockVars, response, count, sent, orphans, lineVars>>

\* A number of bytes other than the one typed is an error, and the loop waits
\* for the next request; quit, or an answer without a number, ends the script.
TypeOther(i) ==
    /\ Step(i, "ask", "wait") \/ Step(i, "ask", "cleanup")
    /\ received' = [received EXCEPT ![i] = 0]
    /\ UNCHANGED <<lockVars, answer, response, count, sent, orphans, lineVars>>

WriteFile(i) ==
    /\ Step(i, "file", "wc")
    /\ response' = answer[i]
    /\ UNCHANGED <<lockVars, received, answer, count, sent, orphans, lineVars>>

CountBytes(i) ==
    /\ Step(i, "wc", "dd")
    /\ count' = [count EXCEPT ![i] = Size(response)]
    /\ sent' = [sent EXCEPT ![i] = 0]
    /\ UNCHANGED <<lockVars, received, answer, response, orphans, lineVars>>

\* dd of one byte at a time, from the file as it is
SendByte(i) ==
    /\ pc[i] = "dd"
    /\ sent[i] < count[i] /\ sent[i] < Size(response)
    /\ toTool' = Append(toTool, [of |-> response, pos |-> sent[i] + 1])
    /\ sent' = [sent EXCEPT ![i] = sent[i] + 1]
    /\ UNCHANGED <<pc, lockVars, received, answer, response, count, orphans, toScript>>

\* Mutant: dd goes on where it ended.
Sent_KeepsPlace(i) ==
    /\ Step(i, "dd", "wait")
    /\ sent[i] = count[i] \/ sent[i] >= Size(response)
    /\ answer' = [answer EXCEPT ![i] = NoAnswer]
    /\ response' = IF \E j \in Instances \ {i} : pc[j] \in {"wc", "dd"} THEN response ELSE NoAnswer
    /\ count' = [count EXCEPT ![i] = 0] /\ UNCHANGED sent
    /\ UNCHANGED <<lockVars, received, orphans, lineVars>>

\* The file is left, and written before it is read again.
Sent(i) ==
    /\ Step(i, "dd", "wait")
    /\ sent[i] = count[i] \/ sent[i] >= Size(response)
    /\ answer' = [answer EXCEPT ![i] = NoAnswer]
    /\ response' = IF \E j \in Instances \ {i} : pc[j] \in {"wc", "dd"} THEN response ELSE NoAnswer
    /\ count' = [count EXCEPT ![i] = 0] /\ sent' = [sent EXCEPT ![i] = 0]
    /\ UNCHANGED <<lockVars, received, orphans, lineVars>>

Next == \E i \in Instances :
    \/ Start(i) \/ Check(i) \/ Cat(i) \/ Ps(i) \/ RemoveStale(i) \/ Create(i) \/ Echo(i)
    \/ CleanUp(i) \/ Interrupt(i)
    \/ Receive(i) \/ OrphanReads(i) \/ TypeAnswer(i) \/ TypeOther(i)
    \/ WriteFile(i) \/ CountBytes(i) \/ SendByte(i) \/ Sent(i)

-----------------------------------------------------------------------------
(* What has to be true of it. *)

TypeOK ==
    /\ pc \in [Instances -> {"off", "cleanup", "ended"} \cup Starting \cup Running]
    /\ lockFile \in [inode : Instances \cup {Nobody}, pid : Instances \cup {Nobody}]
    /\ lockPid \in [Instances -> Instances \cup {Nobody}]
    /\ fd \in [Instances -> Instances \cup {Nobody}]
    /\ lapsed \in BOOLEAN
    /\ \A i \in Instances : sent[i] <= count[i]

\* Unless two instances were started together, or a cleanup removed the file of
\* another that was alive (virtual-msc.sh:10, 16, 25), the file names the instance
\* that runs, so there is one; a stale file of a killed instance does no harm.
LockHeld ==
    ~lapsed =>
        \A i \in Instances : pc[i] \in Running => lockFile = [inode |-> i, pid |-> i]
=============================================================================
