---------------------------- MODULE TimelapseProofs ----------------------------
(***************************************************************************)
(* For all names of prints, lengths of the command channel, captures,      *)
(* frames, requests, restarts and crashes: a video is of one print and     *)
(* shows no frame that another video of its directory has shown, and       *)
(* undisturbed captures end with their print.                              *)
(*                                                                         *)
(* A directory does not belong to one capture: after a restart the same    *)
(* directory may be in s.active and in s.resume, and after a crash nobody  *)
(* knows whose it is.  What keeps the prints apart is the name: each name  *)
(* the program has for a directory with frames, in s.active, in s.resume   *)
(* and in .meta, is the name of the print of all its frames, or "unknown", *)
(* which no start can resume.                                              *)
(***************************************************************************)
EXTENDS Timelapse, FiniteSetTheorems, SequenceTheorems, TLAPS

Starts(q) == {i \in DOMAIN q : q[i].op = "start"}
Begins(r) == {x \in {r} : x.op = "send" /\ x.cmd.op = "start"}

(* There is a directory left for each start that is under way.             *)
Budget == made + Cardinality(Starts(cmds)) + Cardinality(Begins(api)) <= MaxDirs

(* One frame of a number, all of one print, which .meta names if it names  *)
(* any; nothing is in a directory that was not made yet.                   *)
DirsInv ==
  \A d \in Dirs :
    /\ \A f, g \in FramesIn(d) : f.number = g.number => f = g
    /\ \A f, g \in FramesIn(d) : f.of = g.of
    /\ \A f \in FramesIn(d) : dirs[d].meta \in {f.of, "unknown"}
    /\ d > made => FramesIn(d) = {}

(* What is being captured and what is paused know whose frames they have.  *)
OwnerInv ==
  /\ Capturing =>
       /\ active.capture.dir <= made
       /\ active.of = active.capture.file
       /\ \A f \in FramesIn(active.capture.dir) : f.of = active.of
  /\ Paused =>
       /\ resume.capture.dir <= made
       /\ \A f \in FramesIn(resume.capture.dir) : resume.capture.file \in {f.of, "unknown"}
  /\ Capturing /\ Paused /\ active.capture.dir = resume.capture.dir =>
       resume.capture.file \in {active.of, "unknown"}

(* What is in the directory of a video was captured after it.              *)
LaterFrames ==
  \A i \in DOMAIN videos :
    videos[i].dir \notin torn => \A f \in FramesIn(videos[i].dir) : f.after >= i

(* An undisturbed capture has its end before it: a start that is in the    *)
(* queue when nothing is printed any more is followed by an end.           *)
Ends(q)  == {i \in DOMAIN q : q[i].op \in {"finish", "fail"}}
Ended(q) == \A i \in Starts(q) : \E j \in Ends(q) : j > i
FollowInv ==
  undisturbed =>
    /\ Capturing => enabled
    /\ reported # "printing" => Ended(cmds) /\ (Capturing => Ends(cmds) # {})

TimelapseInv ==
  TypeOK /\ Budget /\ DirsInv /\ OwnerInv /\ LaterFrames /\ VideosDoNotMix /\ FollowInv

-------------------------------------------------------------------------------
(* The queue and the starts in it. *)

LEMMA StartsFinite ==
  ASSUME NEW q \in Seq(Commands)
  PROVE  IsFiniteSet(Starts(q)) /\ Cardinality(Starts(q)) \in Nat
<1>1. Starts(q) \subseteq 1 .. Len(q)
  BY DEF Starts
<1>2. IsFiniteSet(1 .. Len(q))
  BY FS_Interval
<1>3. IsFiniteSet(Starts(q))
  BY <1>1, <1>2, FS_Subset
<1> QED
  BY <1>3, FS_CardinalityType

LEMMA StartsOfAppend ==
  ASSUME NEW q \in Seq(Commands), NEW c \in Commands
  PROVE  Cardinality(Starts(Append(q, c)))
           = Cardinality(Starts(q)) + (IF c.op = "start" THEN 1 ELSE 0)
<1>1. /\ DOMAIN Append(q, c) = 1 .. (Len(q) + 1)
      /\ \A i \in 1 .. Len(q) : Append(q, c)[i] = q[i]
      /\ Append(q, c)[Len(q) + 1] = c
  BY AppendProperties
<1>2. Starts(Append(q, c))
        = IF c.op = "start" THEN Starts(q) \cup {Len(q) + 1} ELSE Starts(q)
  BY <1>1, Len(q) \in Nat, DOMAIN q = 1 .. Len(q) DEF Starts
<1>3. Len(q) + 1 \notin Starts(q)
  BY Len(q) \in Nat, DOMAIN q = 1 .. Len(q) DEF Starts
<1>4. Cardinality(Starts(q) \cup {Len(q) + 1}) = Cardinality(Starts(q)) + 1
  <2>1. IsFiniteSet(Starts(q))
    BY StartsFinite
  <2> QED
    BY <1>3, <2>1, FS_AddElement
<1> QED
  BY <1>2, <1>4, StartsFinite

LEMMA StartsOfTail ==
  ASSUME NEW q \in Seq(Commands), q # << >>
  PROVE  Cardinality(Starts(q))
           = Cardinality(Starts(Tail(q))) + (IF Head(q).op = "start" THEN 1 ELSE 0)
<1> DEFINE rest == Starts(Tail(q))
           moved == Starts(q) \ {1}
           shift == [i \in rest |-> i + 1]
<1>1. /\ Tail(q) \in Seq(Commands)
      /\ Len(q) \in Nat \ {0} /\ Len(Tail(q)) = Len(q) - 1
      /\ DOMAIN Tail(q) = 1 .. Len(q) - 1 /\ DOMAIN q = 1 .. Len(q)
      /\ \A i \in 1 .. Len(q) - 1 : Tail(q)[i] = q[i + 1]
  BY HeadTailProperties, EmptySeq, LenProperties
<1>2. Head(q) = q[1]
  BY <1>1
<1>3. \A i \in rest : shift[i] \in moved
  BY <1>1 DEF Starts
<1>4. \A j \in moved : j - 1 \in rest /\ shift[j - 1] = j
  BY <1>1 DEF Starts
<1>5. \A i, j \in rest : shift[i] = shift[j] => i = j
  BY <1>1 DEF Starts
<1>6. shift \in Bijection(rest, moved)
  <2>1. shift \in [rest -> moved]
    BY <1>3
  <2> QED
    BY <2>1, <1>4, <1>5 DEF Bijection, Injection, IsInjective, Surjection
<1>7. Cardinality(moved) = Cardinality(rest)
  BY <1>1, <1>6, StartsFinite, FS_Bijection DEF ExistsBijection
<1>8. 1 \in Starts(q) <=> Head(q).op = "start"
  BY <1>1, <1>2 DEF Starts
<1>9. Cardinality(moved)
        = IF 1 \in Starts(q) THEN Cardinality(Starts(q)) - 1 ELSE Cardinality(Starts(q))
  BY StartsFinite, FS_RemoveElement
<1> QED
  BY <1>1, <1>7, <1>8, <1>9, StartsFinite

LEMMA BeginsCount ==
  ASSUME NEW r
  PROVE  Cardinality(Begins(r)) = IF r.op = "send" /\ r.cmd.op = "start" THEN 1 ELSE 0
<1>1. CASE r.op = "send" /\ r.cmd.op = "start"
  <2>1. Begins(r) = {r}
    BY <1>1 DEF Begins
  <2> QED
    BY <1>1, <2>1, FS_Singleton
<1>2. CASE ~(r.op = "send" /\ r.cmd.op = "start")
  <2>1. Begins(r) = {}
    BY <1>2 DEF Begins
  <2> QED
    BY <1>2, <2>1, FS_EmptySet
<1> QED
  BY <1>1, <1>2

(* What a command is, by its name. *)
LEMMA CommandFields ==
  ASSUME NEW c \in Commands
  PROVE  /\ c.op \in {"start", "config", "finish", "fail"}
         /\ c.op = "start" => c.file \in Names \union {"unknown"}
         /\ c.op = "config" => c.on \in BOOLEAN
         /\ c.op = "finish" => c.final \in BOOLEAN
BY DEF Commands

LEMMA SendKeeps ==
  ASSUME TypeOK, NEW c \in Commands, Send(c)
  PROVE  /\ cmds' \in Seq(Commands) /\ Len(cmds') <= QueueCap
         /\ Cardinality(Starts(cmds')) \in Nat
         /\ Cardinality(Starts(cmds'))
              <= Cardinality(Starts(cmds)) + (IF c.op = "start" THEN 1 ELSE 0)
<1>1. cmds \in Seq(Commands) /\ Len(cmds) <= QueueCap /\ QueueCap \in Nat
  BY BoundAssumption DEF TypeOK
<1>2. Cardinality(Starts(cmds)) \in Nat
  BY <1>1, StartsFinite
<1>3. CASE Len(cmds) < QueueCap
  <2>1. cmds' = Append(cmds, c)
    BY <1>3 DEF Send
  <2>2. cmds' \in Seq(Commands) /\ Len(cmds') = Len(cmds) + 1
    BY <1>1, <2>1, AppendProperties
  <2>3. Cardinality(Starts(cmds'))
          = Cardinality(Starts(cmds)) + (IF c.op = "start" THEN 1 ELSE 0)
    BY <1>1, <2>1, StartsOfAppend
  <2> QED
    BY <1>1, <1>2, <1>3, <2>2, <2>3
<1>4. CASE ~(Len(cmds) < QueueCap)
  BY <1>1, <1>2, <1>4 DEF Send
<1> QED
  BY <1>3, <1>4

LEMMA HandleKeeps ==
  ASSUME TypeOK, NEW o, Handle(o)
  PROVE  /\ cmds' \in Seq(Commands) /\ Len(cmds') = Len(cmds) - 1
         /\ Head(cmds) \in Commands
         /\ \A i \in 1 .. Len(cmds) - 1 : cmds'[i] = cmds[i + 1]
         /\ Cardinality(Starts(cmds')) \in Nat
         /\ Cardinality(Starts(cmds))
              = Cardinality(Starts(cmds')) + (IF o = "start" THEN 1 ELSE 0)
<1>1. /\ cmds \in Seq(Commands) /\ cmds # << >>
      /\ cmds' = Tail(cmds) /\ Head(cmds).op = o
  BY DEF TypeOK, Handle
<1> QED
  BY <1>1, HeadTailProperties, StartsOfTail, StartsFinite

-------------------------------------------------------------------------------
(* Types. *)

ActiveType == {NoCapture} \union [capture : Captures, of : Names \union {"unknown"}]
ResumeType == {NoCapture} \union [capture : Captures, expired : BOOLEAN]

QueueOK  == cmds \in Seq(Commands) /\ Len(cmds) <= QueueCap /\ api \in Requests
MemoryOK == enabled \in BOOLEAN /\ active \in ActiveType /\ resume \in ResumeType
LoopOK   ==
  /\ worker \in {"stopped", "recovering", "ready"}
  /\ ctx \in {"live", "cancelled"}
  /\ job \in {NoJob} \union [dir : Dirs, count : 0..MaxFrames, from : {"run", "recovery"}]
  /\ orphans \subseteq Found
DiskOK   ==
  /\ dirs \in [Dirs -> Directory]
  /\ made \in 0..MaxDirs
  /\ newer \subseteq Dirs \X Dirs
VideosOK ==
  /\ videos \in Seq([dir : Dirs, frames : SUBSET Frame])
  /\ torn \subseteq Dirs
RestOK   ==
  /\ reported \in {"idle", "printing", "paused", "aborted"}
  /\ undisturbed \in BOOLEAN
  /\ stops \in 0..MaxStops
  /\ asked \in 0..MaxRequests

LEMMA TypeParts ==
  TypeOK <=> QueueOK /\ MemoryOK /\ LoopOK /\ DiskOK /\ VideosOK /\ RestOK
BY DEF TypeOK, QueueOK, MemoryOK, LoopOK, DiskOK, VideosOK, RestOK, ActiveType, ResumeType

(* A directory has at most as many frames as there are numbers.            *)
LEMMA CountOfFrames ==
  ASSUME TypeOK, DirsInv, NEW d \in Dirs
  PROVE  FoundIn(d) \in Found
<1> DEFINE F == FramesIn(d)
           number == [f \in F |-> f.number]
<1>1. F \subseteq Frame /\ \A f, g \in F : f.number = g.number => f = g
  BY DEF TypeOK, DirsInv, Directory, FramesIn
<1>2. number \in Injection(F, Numbers)
  BY <1>1 DEF Injection, IsInjective, Frame
<1>3. IsFiniteSet(Numbers) /\ Cardinality(Numbers) = MaxFrames
  BY BoundAssumption, FS_Interval DEF Numbers
<1>4. IsFiniteSet(F) /\ Cardinality(F) <= MaxFrames
  BY <1>2, <1>3, FS_Injection
<1>5. Cardinality(F) \in 0 .. MaxFrames
  BY <1>4, FS_CardinalityType, BoundAssumption
<1> QED
  BY <1>5 DEF FoundIn, Found

(* The queue and the request under way, and that every start has room.     *)
LEMMA QueueStep ==
  ASSUME TypeOK, Budget, [Next]_vars
  PROVE  QueueOK' /\ Budget'
<1> USE BoundAssumption
<1>1. QueueOK /\ MemoryOK /\ made \in Nat
  BY TypeParts DEF DiskOK
<1>2. /\ Cardinality(Starts(cmds)) \in Nat
      /\ Cardinality(Begins(api)) \in {0, 1}
      /\ made + Cardinality(Starts(cmds)) + Cardinality(Begins(api)) <= MaxDirs
  BY <1>1, StartsFinite, BeginsCount DEF QueueOK, Budget
<1>3. ASSUME NEW c \in Commands, Send(c), c.op # "start", UNCHANGED <<api, made>>
      PROVE  QueueOK' /\ Budget'
  <2>1. /\ cmds' \in Seq(Commands) /\ Len(cmds') <= QueueCap
        /\ Cardinality(Starts(cmds')) \in Nat
        /\ Cardinality(Starts(cmds')) <= Cardinality(Starts(cmds))
    BY <1>2, <1>3, SendKeeps
  <2> QED
    BY <1>1, <1>2, <1>3, <2>1 DEF QueueOK, Budget
<1>4. ASSUME NEW r \in Requests, r.op = "send" => r.cmd.op # "start",
             api' = r, UNCHANGED <<cmds, made>>
      PROVE  QueueOK' /\ Budget'
  <2>1. Cardinality(Begins(api')) = 0
    BY <1>4, BeginsCount
  <2> QED
    BY <1>1, <1>2, <1>4, <2>1 DEF QueueOK, Budget
<1>5. ASSUME UNCHANGED <<cmds, api, made>>
      PROVE  QueueOK' /\ Budget'
  BY <1>1, <1>5 DEF QueueOK, Budget, Starts, Begins
<1>6. NoRequest \in Requests /\ NoRequest.op = "none"
  BY DEF Requests, NoRequest
<1>7. /\ \A on \in BOOLEAN : [op |-> "config", on |-> on] \in Commands
      /\ \A final \in BOOLEAN : [op |-> "finish", final |-> final] \in Commands
      /\ [op |-> "fail"] \in Commands
      /\ \A f \in Names \union {"unknown"} : [op |-> "start", file |-> f] \in Commands
  BY DEF Commands
<1>8. ASSUME NEW f \in Files, NotifyPrinting(f)
      PROVE  QueueOK' /\ Budget'
  <2> DEFINE c == [op |-> "start", file |-> f]
  <2>1. c \in Commands /\ Send(c) /\ UNCHANGED <<api, made>>
    BY <1>7, <1>8 DEF NotifyPrinting, Report, Names, disk
  <2>2. made + Cardinality(Starts(cmds)) + Cardinality(Begins(api)) < MaxDirs
    BY <1>8 DEF NotifyPrinting, Room, Starts, Begins
  <2>3. /\ cmds' \in Seq(Commands) /\ Len(cmds') <= QueueCap
        /\ Cardinality(Starts(cmds')) \in Nat
        /\ Cardinality(Starts(cmds')) <= Cardinality(Starts(cmds)) + 1
    BY <1>2, <2>1, SendKeeps
  <2> QED
    BY <1>1, <1>2, <2>1, <2>2, <2>3 DEF QueueOK, Budget
<1>9. CASE NotifyPaused \/ NotifyIdle \/ NotifyAborted
  BY <1>3, <1>7, <1>9 DEF NotifyPaused, NotifyIdle, NotifyAborted, Report, disk
<1>10. ASSUME NEW on \in BOOLEAN, Configure(on)
       PROVE  QueueOK' /\ Budget'
  BY <1>3, <1>5, <1>7, <1>10 DEF Configure, disk
<1>11. CASE ManualStart \/ ManualResume
  <2>1. PICK f \in Names \union {"unknown"} :
          /\ api = NoRequest /\ api' = Later([op |-> "start", file |-> f])
          /\ Room /\ UNCHANGED <<cmds, made>>
    <3>1. CASE ManualStart
      BY <3>1 DEF ManualStart, Ask, Names, disk
    <3>2. CASE ManualResume
      <4>1. resume.capture.file \in Names \union {"unknown"}
        BY <1>1, <3>2 DEF ManualResume, MemoryOK, ResumeType, Captures, Paused
      <4> QED
        BY <3>2, <4>1 DEF ManualResume, Ask, disk
    <3> QED
      BY <1>11, <3>1, <3>2
  <2>2. api' \in Requests
    BY <1>7, <2>1 DEF Later, Requests
  <2>3. Cardinality(Begins(api)) = 0 /\ Cardinality(Begins(api')) = 1
    BY <1>6, <2>1, BeginsCount DEF Later
  <2>4. made + Cardinality(Starts(cmds)) + Cardinality(Begins(api)) < MaxDirs
    BY <2>1 DEF Room, Starts, Begins
  <2> QED
    BY <1>1, <1>2, <2>1, <2>2, <2>3, <2>4 DEF QueueOK, Budget
<1>12. CASE ManualPause \/ ManualStop
  <2>1. PICK final \in BOOLEAN : /\ api' = Later([op |-> "finish", final |-> final])
                                 /\ UNCHANGED <<cmds, made>>
    BY <1>12 DEF ManualPause, ManualStop, Ask, disk
  <2>2. api' \in Requests /\ api'.op = "send" /\ api'.cmd.op # "start"
    BY <1>7, <2>1 DEF Later, Requests
  <2> QED
    BY <1>4, <2>1, <2>2
<1>13. CASE ManualSends
  <2>1. /\ api.op = "send" /\ Send(api.cmd) /\ api' = NoRequest /\ made' = made
        /\ api.cmd \in Commands
    BY <1>1, <1>13 DEF ManualSends, QueueOK, Requests, NoRequest, disk
  <2>2. /\ cmds' \in Seq(Commands) /\ Len(cmds') <= QueueCap
        /\ Cardinality(Starts(cmds')) \in Nat
        /\ Cardinality(Starts(cmds'))
             <= Cardinality(Starts(cmds)) + (IF api.cmd.op = "start" THEN 1 ELSE 0)
    BY <2>1, SendKeeps
  <2>3. /\ Cardinality(Begins(api)) = IF api.cmd.op = "start" THEN 1 ELSE 0
        /\ Cardinality(Begins(api')) = 0
    BY <1>6, <2>1, BeginsCount
  <2> QED
    BY <1>1, <1>2, <1>6, <2>1, <2>2, <2>3 DEF QueueOK, Budget
<1>14. ASSUME NEW d \in Dirs, DeleteResolves(d)
       PROVE  QueueOK' /\ Budget'
  <2>1. [op |-> "check", dir |-> d] \in Requests
    BY DEF Requests
  <2> QED
    BY <1>4, <1>14, <2>1 DEF DeleteResolves, Ask, disk
<1>15. CASE DeleteChecks
  <2>1. api' \in {NoRequest, [op |-> "remove", dir |-> api.dir]} /\ UNCHANGED <<cmds, made>>
    BY <1>15 DEF DeleteChecks, disk
  <2>2. api.dir \in Dirs
    BY <1>1, <1>15 DEF DeleteChecks, QueueOK, Requests, NoRequest
  <2>3. [op |-> "remove", dir |-> api.dir] \in Requests
    BY <2>2 DEF Requests
  <2> QED
    BY <1>4, <1>6, <2>1, <2>3
<1>16. CASE DeleteRemoves
  BY <1>4, <1>6, <1>16 DEF DeleteRemoves
<1>17. ASSUME NEW o \in {"config", "finish", "fail"}, Handle(o), made' = made
       PROVE  QueueOK' /\ Budget'
  <2>1. /\ cmds' \in Seq(Commands) /\ Len(cmds') = Len(cmds) - 1 /\ api' = api
        /\ Cardinality(Starts(cmds')) = Cardinality(Starts(cmds))
    BY <1>2, <1>17, HandleKeeps DEF Handle
  <2> QED
    BY <1>1, <1>2, <1>17, <2>1 DEF QueueOK, Budget
<1>18. ASSUME Handle("start"), made' \in {made, made + 1}
       PROVE  QueueOK' /\ Budget'
  <2>1. /\ cmds' \in Seq(Commands) /\ Len(cmds') = Len(cmds) - 1 /\ api' = api
        /\ Cardinality(Starts(cmds')) \in Nat
        /\ Cardinality(Starts(cmds)) = Cardinality(Starts(cmds')) + 1
    BY <1>18, HandleKeeps DEF Handle
  <2> QED
    BY <1>1, <1>2, <1>18, <2>1 DEF QueueOK, Budget
<1>19. CASE HandleCommand
  BY <1>17, <1>18, <1>19
    DEF HandleCommand, HandleConfig, HandleStartRefused, HandleStartResumes, HandleStartAnew,
        HandlePause, HandleFinish, HandleFail, HandleEndIgnored, disk
<1>20. CASE Crash
  <2>1. PICK on \in BOOLEAN : cmds' = <<[op |-> "config", on |-> on]>>
    BY <1>20 DEF Crash
  <2>2. api' = NoRequest /\ made' = made
    BY <1>20 DEF Crash
  <2>3. cmds' \in Seq(Commands) /\ Len(cmds') = 1 /\ cmds'[1] = [op |-> "config", on |-> on]
    BY <1>7, <2>1
  <2>4. Starts(cmds') = {}
    BY <2>3 DEF Starts
  <2>5. Cardinality(Starts(cmds')) = 0 /\ Cardinality(Begins(api')) = 0
    BY <1>6, <2>2, <2>4, BeginsCount, FS_EmptySet
  <2> QED
    BY <1>2, <1>6, <1>1, <2>2, <2>3, <2>5 DEF QueueOK, Budget
<1>21. CASE \/ ManualDismiss \/ TickFinalizes \/ TickCaptures \/ AssemblyEnds \/ Recovery
            \/ Restart \/ (\E d \in Dirs : DirectoryAges(d)) \/ DeadlinePasses
            \/ UNCHANGED vars
  BY <1>5, <1>21
    DEF ManualDismiss, TickFinalizes, TickCaptures, AssemblyEnds, Recovery, WorkerRunReturns,
        WorkerStarts, RecoverNext, RecoveryEnds, Restart, DirectoryAges, DeadlinePasses,
        vars, disk
<1> QED
  BY <1>8, <1>9, <1>10, <1>11, <1>12, <1>13, <1>14, <1>15, <1>16, <1>19, <1>20, <1>21 DEF Next

LEMMA MemoryStep ==
  ASSUME TypeOK, Budget, DirsInv, [Next]_vars
  PROVE  MemoryOK'
<1> USE BoundAssumption
<1>1. QueueOK /\ MemoryOK /\ DiskOK
  BY TypeParts
<1>2. CASE UNCHANGED memory
  BY <1>1, <1>2 DEF memory, MemoryOK
<1>3. ASSUME NEW on \in BOOLEAN, Configure(on)
      PROVE  MemoryOK'
  BY <1>1, <1>3 DEF Configure, MemoryOK
<1>4. CASE ManualDismiss \/ DeleteChecks
  BY <1>1, <1>4 DEF ManualDismiss, DeleteChecks, MemoryOK, ResumeType
<1>5. CASE HandleConfig
  <2>1. Head(cmds) \in Commands /\ Head(cmds).op = "config"
    BY <1>5, HandleKeeps DEF HandleConfig, Handle
  <2> QED
    BY <1>1, <1>5, <2>1, CommandFields DEF HandleConfig, MemoryOK
<1>6. CASE HandleStartResumes
  <2>1. Head(cmds) \in Commands /\ Head(cmds).op = "start"
    BY <1>6, HandleKeeps DEF HandleStartResumes, Handle
  <2>2. resume.capture \in Captures
    BY <1>1, <1>6 DEF HandleStartResumes, Resumes, Paused, MemoryOK, ResumeType
  <2>3. active' \in ActiveType
    BY <1>6, <2>1, <2>2, CommandFields DEF HandleStartResumes, ActiveType
  <2> QED
    BY <1>1, <1>6, <2>3 DEF HandleStartResumes, MemoryOK, ResumeType
<1>7. CASE HandleStartAnew
  <2>1. Head(cmds) \in Commands /\ Head(cmds).op = "start"
    BY <1>7, HandleKeeps DEF HandleStartAnew, Handle
  <2>2. made + 1 \in Dirs
    <3>1. Cardinality(Starts(cmds)) \in Nat \ {0}
      BY <1>7, HandleKeeps DEF HandleStartAnew
    <3>2. Cardinality(Begins(api)) \in Nat
      BY BeginsCount
    <3>3. made + Cardinality(Starts(cmds)) + Cardinality(Begins(api)) <= MaxDirs
      BY DEF Budget
    <3>4. made \in 0 .. MaxDirs
      BY <1>1 DEF DiskOK
    <3> QED
      BY <3>1, <3>2, <3>3, <3>4 DEF Dirs
  <2>3. [dir |-> made + 1, file |-> Head(cmds).file, count |-> 0] \in Captures
    BY <2>1, <2>2, CommandFields DEF Captures
  <2> QED
    BY <1>1, <1>7, <2>1, <2>3, CommandFields
      DEF HandleStartAnew, MemoryOK, ActiveType, ResumeType
<1>8. CASE HandlePause \/ HandleFinish \/ HandleFail
  <2>1. active.capture \in Captures
    BY <1>1, <1>8 DEF HandlePause, HandleFinish, HandleFail, Capturing, MemoryOK, ActiveType
  <2>2. active' \in ActiveType /\ enabled' = enabled
    BY <1>8 DEF HandlePause, HandleFinish, HandleFail, ActiveType
  <2>3. [capture |-> active.capture, expired |-> FALSE] \in ResumeType
    BY <2>1 DEF ResumeType
  <2>4. resume' \in ResumeType
    BY <1>8, <2>3 DEF HandlePause, HandleFinish, HandleFail, ResumeType
  <2> QED
    BY <1>1, <2>2, <2>4 DEF MemoryOK
<1>9. CASE TickFinalizes
  BY <1>1, <1>9 DEF TickFinalizes, MemoryOK, ResumeType
<1>10. CASE TickCaptures
  <2>1. active \in [capture : Captures, of : Names \union {"unknown"}]
    BY <1>1, <1>10 DEF TickCaptures, Capturing, MemoryOK, ActiveType
  <2>2. active.capture.count + 1 \in 0 .. MaxFrames
    BY <1>10, <2>1 DEF TickCaptures, Captures
  <2>3. active' \in [capture : Captures, of : Names \union {"unknown"}]
    BY <1>10, <2>1, <2>2 DEF TickCaptures, Captures
  <2> QED
    BY <1>1, <1>10, <2>3 DEF TickCaptures, MemoryOK, ActiveType
<1>11. CASE WorkerStarts
  <2>1. ASSUME NEW d \in Dirs,
               resume' = [capture |-> [dir |-> d, file |-> dirs[d].meta, count |-> FoundIn(d).count],
                          expired |-> FALSE]
        PROVE  resume' \in ResumeType
    <3>1. FoundIn(d).count \in 0 .. MaxFrames
      BY CountOfFrames DEF Found
    <3>2. dirs[d].meta \in Names \union {"unknown"}
      BY <1>1 DEF DiskOK, Directory
    <3> QED
      BY <2>1, <3>1, <3>2 DEF ResumeType, Captures
  <2> QED
    BY <1>1, <1>11, <2>1 DEF WorkerStarts, MemoryOK
<1>12. CASE DeadlinePasses
  BY <1>1, <1>12 DEF DeadlinePasses, Paused, MemoryOK, ResumeType
<1>13. CASE Crash
  BY <1>13 DEF Crash, MemoryOK, ActiveType, ResumeType
<1>14. CASE HandleCommand
  BY <1>2, <1>5, <1>6, <1>7, <1>8, <1>14 DEF HandleCommand, HandleStartRefused, HandleEndIgnored
<1> QED
  BY <1>2, <1>3, <1>4, <1>9, <1>10, <1>11, <1>12, <1>13, <1>14
    DEF Next, NotifyPrinting, NotifyPaused, NotifyIdle, NotifyAborted, Report, ManualStart,
        ManualPause, ManualStop, ManualResume, DeleteResolves, Ask, ManualSends, DeleteRemoves,
        AssemblyEnds, Recovery, WorkerRunReturns, RecoverNext, RecoveryEnds, Restart,
        DirectoryAges, vars

LEMMA LoopStep ==
  ASSUME TypeOK, DirsInv, [Next]_vars
  PROVE  LoopOK'
<1>1. MemoryOK /\ LoopOK
  BY TypeParts
<1>2. CASE UNCHANGED goroutine
  BY <1>1, <1>2 DEF goroutine, LoopOK
<1>3. ASSUME NEW c \in Captures, Assemble(c), UNCHANGED <<worker, ctx, orphans>>
      PROVE  LoopOK'
  BY <1>1, <1>3 DEF Assemble, LoopOK, Captures
<1>4. CASE HandleFinish \/ HandleFail
  <2>1. active.capture \in Captures
    BY <1>1, <1>4 DEF HandleFinish, HandleFail, Capturing, MemoryOK, ActiveType
  <2> QED
    BY <1>3, <1>4, <2>1 DEF HandleFinish, HandleFail, Handle
<1>5. CASE TickFinalizes
  <2>1. resume.capture \in Captures
    BY <1>1, <1>5 DEF TickFinalizes, Paused, MemoryOK, ResumeType
  <2> QED
    BY <1>3, <1>5, <2>1 DEF TickFinalizes
<1>6. CASE HandleCommand
  BY <1>2, <1>4, <1>6
    DEF HandleCommand, Handle, HandleConfig, HandleStartRefused, HandleStartResumes,
        HandleStartAnew, HandlePause, HandleEndIgnored, goroutine
<1>7. CASE WorkerStarts
  <2>1. \A e \in Dirs : FoundIn(e) \in Found
    BY CountOfFrames
  <2>2. orphans' \subseteq Found
    BY <1>7, <2>1 DEF WorkerStarts, FoundDirs
  <2> QED
    BY <1>1, <1>7, <2>2 DEF WorkerStarts, LoopOK
<1>8. CASE RecoverNext
  BY <1>1, <1>8 DEF RecoverNext, LoopOK, Found
<1>9. CASE AssemblyEnds \/ RecoveryEnds \/ Restart \/ WorkerRunReturns \/ Crash
  BY <1>1, <1>9 DEF AssemblyEnds, RecoveryEnds, Restart, WorkerRunReturns, Crash, LoopOK
<1> QED
  BY <1>2, <1>5, <1>6, <1>7, <1>8, <1>9
    DEF Next, NotifyPrinting, NotifyPaused, NotifyIdle, NotifyAborted, Report, Configure,
        ManualStart, ManualPause, ManualStop, ManualResume, DeleteResolves, Ask, ManualSends,
        ManualDismiss, DeleteChecks, DeleteRemoves, TickCaptures, Recovery,
        DirectoryAges, DeadlinePasses, vars

LEMMA RestStep ==
  ASSUME TypeOK, [Next]_vars
  PROVE  RestOK'
<1> USE BoundAssumption
<1>1. QueueOK /\ RestOK
  BY TypeParts
<1>2. undisturbed' \in BOOLEAN
  <2>1. CASE UNCHANGED undisturbed
    BY <1>1, <2>1 DEF RestOK
  <2>2. CASE undisturbed' = TRUE
    BY <2>2
  <2>3. ASSUME NEW P, undisturbed' = (undisturbed /\ P)
        PROVE  undisturbed' \in BOOLEAN
    BY <2>3, Zenon
  <2>4. CASE HandleCommand
    BY <2>1, <2>3, <2>4
      DEF HandleCommand, HandleConfig, HandleStartRefused, HandleStartResumes,
          HandleStartAnew, HandlePause, HandleFinish, HandleFail, HandleEndIgnored
  <2>5. CASE \/ \E f \in Files : NotifyPrinting(f)
             \/ NotifyPaused \/ NotifyIdle \/ NotifyAborted
    BY <2>3, <2>5 DEF NotifyPrinting, NotifyPaused, NotifyIdle, NotifyAborted, Report
  <2>6. CASE (\E on \in BOOLEAN : Configure(on)) \/ ManualSends
    BY <2>1, <2>3, <2>6 DEF Configure, ManualSends
  <2>7. CASE Crash
    BY <2>2, <2>7 DEF Crash
  <2> QED
    BY <2>1, <2>4, <2>5, <2>6, <2>7
      DEF Next, ManualStart, ManualPause, ManualStop, ManualResume, DeleteResolves, Ask,
          ManualDismiss, DeleteChecks, DeleteRemoves, TickFinalizes, TickCaptures,
          AssemblyEnds, Recovery, WorkerRunReturns, WorkerStarts, RecoverNext, RecoveryEnds,
          Restart, DirectoryAges, DeadlinePasses, vars
<1>3. reported' \in {"idle", "printing", "paused", "aborted"}
  BY <1>1
    DEF RestOK, Next, NotifyPrinting, NotifyPaused, NotifyIdle, NotifyAborted, Report, Configure,
        ManualStart, ManualPause, ManualStop, ManualResume, DeleteResolves, Ask, ManualSends,
        ManualDismiss, DeleteChecks, DeleteRemoves, HandleCommand, Handle, HandleConfig,
        HandleStartRefused, HandleStartResumes, HandleStartAnew, HandlePause, HandleFinish,
        HandleFail, HandleEndIgnored, TickFinalizes, TickCaptures, AssemblyEnds, Recovery,
        WorkerRunReturns, WorkerStarts, RecoverNext, RecoveryEnds, Restart, Crash, DirectoryAges,
        DeadlinePasses, vars
<1>4. stops' \in 0 .. MaxStops /\ asked' \in 0 .. MaxRequests
  <2>1. CASE UNCHANGED counters
    BY <1>1, <2>1 DEF RestOK, counters
  <2>2. ASSUME asked < MaxRequests, asked' = asked + 1, UNCHANGED stops
        PROVE  stops' \in 0 .. MaxStops /\ asked' \in 0 .. MaxRequests
    BY <1>1, <2>2 DEF RestOK
  <2>3. ASSUME stops < MaxStops, stops' = stops + 1, UNCHANGED asked
        PROVE  stops' \in 0 .. MaxStops /\ asked' \in 0 .. MaxRequests
    BY <1>1, <2>3 DEF RestOK
  <2>4. CASE HandleCommand
    BY <2>1, <2>4
      DEF HandleCommand, Handle, HandleConfig, HandleStartRefused, HandleStartResumes,
          HandleStartAnew, HandlePause, HandleFinish, HandleFail, HandleEndIgnored
  <2>5. CASE Restart \/ Crash
    BY <2>3, <2>5 DEF Restart, Crash
  <2> QED
    BY <2>1, <2>2, <2>4, <2>5
      DEF Next, NotifyPrinting, NotifyPaused, NotifyIdle, NotifyAborted, Report, Configure,
          ManualStart, ManualPause, ManualStop, ManualResume, DeleteResolves, Ask, ManualSends,
          ManualDismiss, DeleteChecks, DeleteRemoves, TickFinalizes, TickCaptures, AssemblyEnds,
          Recovery, WorkerRunReturns, WorkerStarts, RecoverNext, RecoveryEnds, DirectoryAges,
          DeadlinePasses, vars, counters
<1> QED
  BY <1>2, <1>3, <1>4 DEF RestOK

LEMMA NamedCaptures ==
  ASSUME TypeOK
  PROVE  /\ Capturing => active.capture \in Captures /\ active.of \in Names \union {"unknown"}
         /\ Paused => resume.capture \in Captures
BY TypeParts DEF MemoryOK, ActiveType, ResumeType, Capturing, Paused

LEMMA DiskStep ==
  ASSUME TypeOK, Budget, [Next]_vars
  PROVE  DiskOK'
<1> USE BoundAssumption
<1>1. DiskOK /\ QueueOK /\ \A d \in Dirs : dirs[d] \in Directory
  BY TypeParts DEF DiskOK
<1>2. Removed \in Directory
  BY DEF Removed, Directory
<1>3. ASSUME UNCHANGED disk
      PROVE  DiskOK'
  BY <1>1, <1>3 DEF disk, DiskOK
<1>4. ASSUME NEW ds, RemoveAll(ds), made' = made
      PROVE  DiskOK'
  BY <1>1, <1>2, <1>4 DEF RemoveAll, DiskOK
<1>5. CASE HandleStartAnew
  <2>1. Head(cmds) \in Commands /\ Head(cmds).op = "start"
    BY <1>5, HandleKeeps DEF HandleStartAnew, Handle
  <2>2. [Removed EXCEPT !.meta = Head(cmds).file] \in Directory
    BY <2>1, CommandFields DEF Removed, Directory
  <2>3. made' \in 0 .. MaxDirs
    <3>1. Cardinality(Starts(cmds)) \in Nat \ {0}
      BY <1>5, HandleKeeps DEF HandleStartAnew
    <3>2. Cardinality(Begins(api)) \in Nat
      BY BeginsCount
    <3>3. made + Cardinality(Starts(cmds)) + Cardinality(Begins(api)) <= MaxDirs
      BY DEF Budget
    <3>4. made \in 0 .. MaxDirs /\ made' = made + 1
      BY <1>1, <1>5 DEF DiskOK, HandleStartAnew
    <3> QED
      BY <3>1, <3>2, <3>3, <3>4
  <2>4. dirs' \in [Dirs -> Directory]
    BY <1>1, <1>2, <1>5, <2>2 DEF HandleStartAnew
  <2>5. newer' \subseteq Dirs \X Dirs
    BY <1>1, <1>5 DEF HandleStartAnew, DiskOK
  <2> QED
    BY <2>3, <2>4, <2>5 DEF DiskOK
<1>6. CASE TickCaptures
  <2> DEFINE c      == active.capture
             others == {f \in dirs[c.dir].frames : f.number # c.count}
             frame  == [number |-> c.count, of |-> active.of, after |-> Len(videos)]
             now    == [frames |-> others \union {frame}, meta |-> c.file, age |-> "fresh"]
  <2>1. c \in Captures /\ active.of \in Names \union {"unknown"}
    BY <1>6, NamedCaptures DEF TickCaptures
  <2>2. Len(videos) \in Nat
    BY TypeParts DEF VideosOK
  <2>3. frame \in Frame
    BY <1>6, <2>1, <2>2 DEF TickCaptures, Captures, Frame, Numbers
  <2>4. now \in Directory
    BY <1>1, <2>1, <2>3 DEF Captures, Directory
  <2>5. dirs' = [dirs EXCEPT ![c.dir] = now] /\ made' = made
    BY <1>6 DEF TickCaptures
  <2>6. newer' \subseteq Dirs \X Dirs
    BY <1>1, <1>6, <2>1 DEF TickCaptures, Captures, DiskOK
  <2>7. dirs' \in [Dirs -> Directory]
    BY <1>1, <2>4, <2>5 DEF DiskOK
  <2> QED
    BY <1>1, <2>5, <2>6, <2>7 DEF DiskOK
<1>7. CASE Crash
  <2>1. UNCHANGED <<made, newer>>
    BY <1>7 DEF Crash
  <2>2. CASE UNCHANGED dirs
    BY <1>1, <2>1, <2>2 DEF DiskOK
  <2>3. CASE Capturing /\ dirs' = [dirs EXCEPT ![active.capture.dir].meta = "unknown"]
    <3>1. active.capture.dir \in Dirs
      BY <2>3, NamedCaptures DEF Captures
    <3>2. [dirs[active.capture.dir] EXCEPT !.meta = "unknown"] \in Directory
      BY <1>1, <3>1 DEF Directory
    <3>3. dirs' \in [Dirs -> Directory]
      BY <1>1, <2>3, <3>1, <3>2 DEF DiskOK
    <3> QED
      BY <1>1, <2>1, <3>3 DEF DiskOK
  <2> QED
    BY <1>7, <2>2, <2>3 DEF Crash
<1>8. ASSUME NEW d \in Dirs, DirectoryAges(d)
      PROVE  DiskOK'
  <2>1. Older(Age(d)) \in {"stale", "old"}
    BY <1>1 DEF Older, Age, Directory
  <2>2. [dirs[d] EXCEPT !.age = Older(Age(d))] \in Directory
    BY <1>1, <2>1 DEF Directory
  <2>3. dirs' \in [Dirs -> Directory]
    BY <1>1, <1>8, <2>2 DEF DirectoryAges, DiskOK
  <2> QED
    BY <1>1, <1>8, <2>3 DEF DirectoryAges, DiskOK
<1>9. CASE DeleteRemoves \/ AssemblyEnds \/ WorkerStarts
  BY <1>4, <1>9 DEF DeleteRemoves, AssemblyEnds, WorkerStarts
<1>10. CASE HandleCommand
  BY <1>3, <1>5, <1>10
    DEF HandleCommand, HandleConfig, HandleStartRefused, HandleStartResumes,
        HandlePause, HandleFinish, HandleFail, HandleEndIgnored
<1> QED
  BY <1>3, <1>6, <1>7, <1>8, <1>9, <1>10
    DEF Next, NotifyPrinting, NotifyPaused, NotifyIdle, NotifyAborted, Report, Configure,
        ManualStart, ManualPause, ManualStop, ManualResume, DeleteResolves, Ask, ManualSends,
        ManualDismiss, DeleteChecks, TickFinalizes, Recovery, WorkerRunReturns,
        RecoverNext, RecoveryEnds, Restart, DeadlinePasses, vars

(* Videos are only added, and only by the assembly of a capture.           *)
LEMMA VideosChange ==
  ASSUME [Next]_vars, ~AssemblyEnds, ~Crash
  PROVE  UNCHANGED history
BY DEF history, Next, NotifyPrinting, NotifyPaused, NotifyIdle, NotifyAborted, Report, Configure,
       ManualStart, ManualPause, ManualStop, ManualResume, DeleteResolves, Ask, ManualSends,
       ManualDismiss, DeleteChecks, DeleteRemoves, HandleCommand, Handle, HandleConfig,
       HandleStartRefused, HandleStartResumes, HandleStartAnew, HandlePause, HandleFinish,
       HandleFail, HandleEndIgnored, TickFinalizes, TickCaptures, Recovery, WorkerRunReturns,
       WorkerStarts, RecoverNext, RecoveryEnds, Restart, DirectoryAges, DeadlinePasses, vars

LEMMA ReadableIsFrames ==
  ASSUME NEW d
  PROVE  Readable(d) \subseteq FramesIn(d)
BY DEF Readable

(* The video of an assembly. *)
LEMMA EncodeAppends ==
  ASSUME TypeOK, CanEncode, Encode
  PROVE  /\ job.dir \in Dirs
         /\ [dir |-> job.dir, frames |-> Readable(job.dir)] \in [dir : Dirs, frames : SUBSET Frame]
         /\ videos' \in Seq([dir : Dirs, frames : SUBSET Frame])
         /\ Len(videos) \in Nat /\ Len(videos') = Len(videos) + 1
         /\ \A i \in 1 .. Len(videos) : videos'[i] = videos[i]
         /\ videos'[Len(videos) + 1] = [dir |-> job.dir, frames |-> Readable(job.dir)]
<1> DEFINE v == [dir |-> job.dir, frames |-> Readable(job.dir)]
<1>1. LoopOK /\ VideosOK /\ DiskOK
  BY TypeParts
<1>2. job.dir \in Dirs
  BY <1>1 DEF CanEncode, LoopOK
<1>3. FramesIn(job.dir) \subseteq Frame
  BY <1>1, <1>2 DEF DiskOK, Directory, FramesIn
<1>4. v \in [dir : Dirs, frames : SUBSET Frame]
  BY <1>2, <1>3, ReadableIsFrames
<1>5. videos' = Append(videos, v) /\ videos \in Seq([dir : Dirs, frames : SUBSET Frame])
  BY <1>1 DEF Encode, VideosOK
<1> QED
  BY <1>2, <1>4, <1>5, AppendProperties

LEMMA VideosStep ==
  ASSUME TypeOK, [Next]_vars
  PROVE  VideosOK'
<1>1. VideosOK
  BY TypeParts
<1>2. CASE UNCHANGED history
  BY <1>1, <1>2 DEF history, VideosOK
<1>3. ASSUME CanEncode, Encode, torn' \in {torn, torn \union {job.dir}}
      PROVE  VideosOK'
  BY <1>1, <1>3, EncodeAppends DEF VideosOK
<1>4. CASE AssemblyEnds \/ Crash
  BY <1>2, <1>3, <1>4 DEF AssemblyEnds, Crash, history
<1> QED
  BY <1>2, <1>4, VideosChange

LEMMA TypeStep ==
  ASSUME TypeOK, Budget, DirsInv, [Next]_vars
  PROVE  TypeOK' /\ Budget'
<1>1. QueueOK' /\ MemoryOK' /\ LoopOK' /\ DiskOK' /\ VideosOK' /\ RestOK'
  BY QueueStep, MemoryStep, LoopStep, DiskStep, VideosStep, RestStep
<1>2. TypeOK'
  BY <1>1 DEF TypeOK, QueueOK, MemoryOK, LoopOK, DiskOK, VideosOK, RestOK, ActiveType, ResumeType
<1> QED
  BY <1>2, QueueStep

-------------------------------------------------------------------------------
(* Whose the frames are. *)

(* Most steps touch neither the directories nor who owns them. *)
LEMMA OwnersChange ==
  ASSUME [Next]_vars,
         ~TickCaptures, ~AssemblyEnds, ~DeleteRemoves, ~DeleteChecks, ~ManualDismiss,
         ~HandleStartResumes, ~HandleStartAnew, ~HandlePause, ~HandleFinish, ~HandleFail,
         ~TickFinalizes, ~WorkerStarts, ~Crash, ~DeadlinePasses,
         ~(\E d \in Dirs : DirectoryAges(d))
  PROVE  UNCHANGED <<dirs, made, active, resume>>
BY DEF disk, memory, Next, NotifyPrinting, NotifyPaused, NotifyIdle, NotifyAborted, Report,
       Configure, ManualStart, ManualPause, ManualStop, ManualResume, DeleteResolves, Ask,
       ManualSends, HandleCommand, HandleConfig, HandleStartRefused, HandleEndIgnored,
       Recovery, WorkerRunReturns, RecoverNext, RecoveryEnds, Restart, vars

(* Frames that are taken away disturb neither invariant. *)
LEMMA FewerFrames ==
  ASSUME DirsInv, UNCHANGED made,
         \A d \in Dirs : /\ FramesIn(d)' \subseteq FramesIn(d)
                         /\ FramesIn(d)' # {} => dirs[d].meta = dirs'[d].meta
  PROVE  DirsInv'
BY DEF DirsInv, FramesIn

(* Nor does an owner that lets go of its directory. *)
LEMMA FewerOwners ==
  ASSUME TypeOK, OwnerInv, made' \in {made, made + 1},
         \A d \in Dirs : FramesIn(d)' \subseteq FramesIn(d),
         active' \in {active, NoCapture},
         \/ resume' \in {resume, NoCapture}
         \/ Paused /\ resume' = [resume EXCEPT !.expired = TRUE]
  PROVE  OwnerInv'
<1>1. Capturing' => Capturing /\ active' = active
  BY DEF Capturing
<1>2. Paused' => Paused /\ resume'.capture = resume.capture
  <2>1. CASE resume' \in {resume, NoCapture}
    BY <2>1 DEF Paused
  <2>2. CASE Paused /\ resume' = [resume EXCEPT !.expired = TRUE]
    <3>1. resume \in [capture : Captures, expired : BOOLEAN]
      BY <2>2, TypeParts DEF MemoryOK, ResumeType, Paused
    <3> QED
      BY <2>2, <3>1 DEF Paused
  <2> QED
    BY <2>1, <2>2
<1>3. /\ Capturing => active.capture.dir \in Dirs
      /\ Paused => resume.capture.dir \in Dirs
  BY NamedCaptures DEF Captures
<1>4. Dirs \subseteq Nat /\ made \in Nat
  BY BoundAssumption, TypeParts DEF DiskOK, Dirs
<1> QED
  BY <1>1, <1>2, <1>3, <1>4 DEF OwnerInv

LEMMA RemoveAllFrames ==
  ASSUME TypeOK, NEW ds, RemoveAll(ds)
  PROVE  \A d \in Dirs : /\ FramesIn(d)' = IF d \in ds THEN {} ELSE FramesIn(d)
                         /\ d \notin ds => dirs'[d] = dirs[d]
BY TypeParts DEF RemoveAll, FramesIn, Removed, DiskOK

(* The step of every action on the directories and their owners.           *)
LEMMA CaptureKeeps ==
  ASSUME TypeOK, DirsInv, OwnerInv, TickCaptures
  PROVE  DirsInv' /\ OwnerInv'
<1> DEFINE c     == active.capture
           frame == [number |-> c.count, of |-> active.of, after |-> Len(videos)]
<1>1. Capturing /\ c \in Captures
  BY NamedCaptures DEF TickCaptures
<1>2. PICK e \in Dirs : e = c.dir
  BY <1>1 DEF Captures
<1>3. dirs \in [Dirs -> Directory] /\ UNCHANGED <<made, resume>>
  BY TypeParts DEF DiskOK, TickCaptures
<1>4. /\ dirs'[e].meta = c.file
      /\ FramesIn(e)' = {f \in FramesIn(e) : f.number # c.count} \union {frame}
      /\ \A d \in Dirs \ {e} : dirs'[d] = dirs[d]
  BY <1>2, <1>3 DEF TickCaptures, FramesIn
<1>5. active'.capture.dir = e /\ active'.capture.file = c.file /\ active'.of = active.of
  <2>1. active \in [capture : Captures, of : Names \union {"unknown"}]
    BY <1>1, TypeParts DEF MemoryOK, ActiveType, Capturing
  <2>2. active' = [active EXCEPT !.capture.count = @ + 1]
    BY DEF TickCaptures
  <2> QED
    BY <1>2, <2>1, <2>2 DEF Captures
<1>6. e <= made /\ active.of = c.file /\ \A f \in FramesIn(e) : f.of = active.of
  BY <1>1, <1>2 DEF OwnerInv
<1>7. \A f \in FramesIn(e)' : f.of = active.of
  BY <1>4, <1>6
<1>8. DirsInv'
  <2> SUFFICES ASSUME NEW d \in Dirs
               PROVE  /\ \A f, g \in FramesIn(d)' : f.number = g.number => f = g
                      /\ \A f, g \in FramesIn(d)' : f.of = g.of
                      /\ \A f \in FramesIn(d)' : dirs'[d].meta \in {f.of, "unknown"}
                      /\ d > made' => FramesIn(d)' = {}
    BY DEF DirsInv
  <2>1. CASE d = e
    <3>1. \A f, g \in FramesIn(e) : f.number = g.number => f = g
      BY DEF DirsInv
    <3>2. \A f, g \in FramesIn(e)' : f.number = g.number => f = g
      BY <1>4, <3>1
    <3>3. ~(e > made')
      BY <1>3, <1>6, BoundAssumption, TypeParts DEF DiskOK, Dirs
    <3> QED
      BY <1>4, <1>6, <1>7, <2>1, <3>2, <3>3
  <2>2. CASE d # e
    BY <1>3, <1>4, <2>2 DEF DirsInv, FramesIn
  <2> QED
    BY <2>1, <2>2
<1>9. OwnerInv'
  <2>1. Capturing' =>
          /\ active'.capture.dir <= made'
          /\ active'.of = active'.capture.file
          /\ \A f \in dirs'[active'.capture.dir].frames : f.of = active'.of
    BY <1>3, <1>5, <1>6, <1>7 DEF FramesIn
  <2>2. ASSUME Paused
        PROVE  /\ resume.capture.dir <= made
               /\ \A f \in dirs'[resume.capture.dir].frames :
                    resume.capture.file \in {f.of, "unknown"}
    <3>1. resume.capture.dir \in Dirs
      BY <2>2, NamedCaptures DEF Captures
    <3>2. CASE resume.capture.dir = e
      BY <1>1, <1>2, <1>7, <2>2, <3>2 DEF OwnerInv, FramesIn
    <3>3. CASE resume.capture.dir # e
      BY <1>4, <2>2, <3>1, <3>3 DEF OwnerInv, FramesIn
    <3> QED
      BY <3>2, <3>3
  <2>3. Paused /\ e = resume.capture.dir => resume.capture.file \in {active.of, "unknown"}
    BY <1>1, <1>2 DEF OwnerInv
  <2>4. Paused' <=> Paused
    BY <1>3 DEF Paused
  <2> QED
    BY <1>3, <1>5, <2>1, <2>2, <2>3, <2>4 DEF OwnerInv, FramesIn
<1> QED
  BY <1>8, <1>9

LEMMA StartAnewKeeps ==
  ASSUME TypeOK, Budget, DirsInv, OwnerInv, HandleStartAnew
  PROVE  DirsInv' /\ OwnerInv'
<1> DEFINE f == Head(cmds).file
           d == made + 1
<1>1. /\ dirs \in [Dirs -> Directory] /\ Dirs \subseteq Nat /\ made \in Nat
      /\ d \in Dirs
  <2>1. DiskOK' /\ DiskOK
    BY TypeParts, DiskStep DEF Next, HandleCommand
  <2> QED
    BY <2>1, BoundAssumption DEF DiskOK, Dirs, HandleStartAnew
<1>2. /\ made' = d /\ resume' = NoCapture
      /\ active' = [capture |-> [dir |-> d, file |-> f, count |-> 0], of |-> f]
  BY DEF HandleStartAnew
<1>3. \A e \in Dirs : dirs'[e] = IF e = d THEN [Removed EXCEPT !.meta = f]
                                 ELSE IF PausedIn(e) THEN Removed ELSE dirs[e]
  BY <1>1 DEF HandleStartAnew
<1>4. \A e \in Dirs : FramesIn(e)' = IF e = d \/ PausedIn(e) THEN {} ELSE FramesIn(e)
  BY <1>3 DEF FramesIn, Removed
<1>5. DirsInv'
  BY <1>1, <1>2, <1>3, <1>4 DEF DirsInv, FramesIn
<1>6. OwnerInv'
  BY <1>1, <1>2, <1>4 DEF OwnerInv, Paused, Capturing, FramesIn
<1> QED
  BY <1>5, <1>6

LEMMA RecoveryKeeps ==
  ASSUME TypeOK, DirsInv, OwnerInv, WorkerStarts
  PROVE  DirsInv' /\ OwnerInv'
<1> DEFINE old == {d \in Dirs : Age(d) = "old"}
<1>1. UNCHANGED <<made, active>> /\ RemoveAll(old)
  BY DEF WorkerStarts
<1>2. \A d \in Dirs : /\ FramesIn(d)' = IF d \in old THEN {} ELSE FramesIn(d)
                      /\ d \notin old => dirs'[d] = dirs[d]
  BY <1>1, RemoveAllFrames
<1>3. DirsInv'
  BY <1>1, <1>2, FewerFrames
<1>4. CASE UNCHANGED resume
  <2>1. \A d \in Dirs : FramesIn(d)' \subseteq FramesIn(d)
    BY <1>2
  <2>2. active' \in {active, NoCapture}
    BY <1>1
  <2>3. \/ resume' \in {resume, NoCapture}
        \/ Paused /\ resume' = [resume EXCEPT !.expired = TRUE]
    BY <1>4
  <2>4. made' \in {made, made + 1}
    BY <1>1
  <2> QED
    BY <1>3, <2>1, <2>2, <2>3, <2>4, FewerOwners
<1>5. ASSUME NEW d \in Dirs, Resumable(d),
             resume' = [capture |-> [dir |-> d, file |-> dirs[d].meta, count |-> FoundIn(d).count],
                        expired |-> FALSE]
      PROVE  OwnerInv'
  <2>1. FramesIn(d) # {} /\ FramesIn(d)' = FramesIn(d)
    BY <1>2, <1>5 DEF Resumable, FoundDirs
  <2>2. resume'.capture.dir = d /\ resume'.capture.file = dirs[d].meta
    BY <1>5
  <2>3. d <= made /\ \A f \in FramesIn(d) : dirs[d].meta \in {f.of, "unknown"}
    BY <2>1, BoundAssumption, TypeParts DEF DirsInv, DiskOK, Dirs
  <2>4. Capturing => /\ active.capture.dir \in Dirs
                     /\ active.capture.dir <= made
                     /\ active.of = active.capture.file
                     /\ \A f \in FramesIn(active.capture.dir) : f.of = active.of
    BY NamedCaptures DEF OwnerInv, Captures
  <2>5. Capturing => \A f \in dirs'[active.capture.dir].frames : f.of = active.of
    BY <1>2, <2>4 DEF FramesIn
  <2>6. Capturing /\ active.capture.dir = d => dirs[d].meta \in {active.of, "unknown"}
    BY <2>1, <2>3, <2>4
  <2> QED
    BY <1>1, <2>1, <2>2, <2>3, <2>4, <2>5, <2>6 DEF OwnerInv, Capturing, FramesIn
<1> QED
  BY <1>3, <1>4, <1>5 DEF WorkerStarts

LEMMA OwnerStep ==
  ASSUME TypeOK, Budget, DirsInv, OwnerInv, [Next]_vars
  PROVE  DirsInv' /\ OwnerInv'
<1>1. CASE UNCHANGED <<dirs, made, active, resume>>
  BY <1>1 DEF DirsInv, OwnerInv, FramesIn, Capturing, Paused
<1>2. ASSUME UNCHANGED <<dirs, made>>
      PROVE  DirsInv' /\ \A d \in Dirs : FramesIn(d)' \subseteq FramesIn(d)
  BY <1>2 DEF DirsInv, FramesIn
<1>3. CASE ManualDismiss \/ DeleteChecks \/ HandleFinish \/ HandleFail \/ TickFinalizes
           \/ DeadlinePasses
  <2>1. /\ UNCHANGED <<dirs, made>>
        /\ active' \in {active, NoCapture}
        /\ \/ resume' \in {resume, NoCapture}
           \/ Paused /\ resume' = [resume EXCEPT !.expired = TRUE]
    BY <1>3 DEF ManualDismiss, DeleteChecks, HandleFinish, HandleFail, TickFinalizes,
                DeadlinePasses, disk
  <2> QED
    BY <1>2, <2>1, FewerOwners
<1>4. CASE AssemblyEnds \/ DeleteRemoves
  <2>1. PICK ds : RemoveAll(ds)
    BY <1>4 DEF AssemblyEnds, DeleteRemoves
  <2>2. UNCHANGED <<made, active, resume>>
    BY <1>4 DEF AssemblyEnds, DeleteRemoves, memory
  <2>3. \A d \in Dirs : /\ FramesIn(d)' \subseteq FramesIn(d)
                        /\ FramesIn(d)' # {} => dirs[d].meta = dirs'[d].meta
    BY <2>1, RemoveAllFrames
  <2> QED
    BY <2>2, <2>3, FewerFrames, FewerOwners
<1>5. ASSUME NEW d \in Dirs, DirectoryAges(d)
      PROVE  DirsInv' /\ OwnerInv'
  <2>1. UNCHANGED <<made, active, resume>>
    BY <1>5 DEF DirectoryAges, memory
  <2>2. \A e \in Dirs : dirs'[e].frames = dirs[e].frames /\ dirs'[e].meta = dirs[e].meta
    BY <1>5, TypeParts DEF DirectoryAges, DiskOK, Directory
  <2> QED
    BY <2>1, <2>2, FewerFrames, FewerOwners DEF FramesIn
<1>6. CASE Crash
  <2>1. made' = made /\ active' = NoCapture /\ resume' = NoCapture
    BY <1>6 DEF Crash
  <2>2. \A e \in Dirs : /\ dirs'[e].frames = dirs[e].frames
                        /\ dirs'[e].meta \in {dirs[e].meta, "unknown"}
    BY <1>6, NamedCaptures, TypeParts DEF Crash, DiskOK, Directory, Captures
  <2>3. DirsInv'
    BY <2>1, <2>2 DEF DirsInv, FramesIn
  <2> QED
    BY <2>1, <2>3 DEF OwnerInv, Capturing, Paused
<1>7. CASE HandleStartResumes
  <2>1. /\ UNCHANGED <<dirs, made>> /\ resume' = NoCapture
        /\ Paused /\ resume.capture.file = Head(cmds).file /\ Head(cmds).file # "unknown"
        /\ active' = [capture |-> resume.capture, of |-> Head(cmds).file]
    BY <1>7 DEF HandleStartResumes, Resumes, Named, disk
  <2>2. OwnerInv'
    BY <2>1 DEF OwnerInv, Capturing, Paused, FramesIn
  <2> QED
    BY <1>2, <2>1, <2>2
<1>8. CASE HandlePause
  <2>1. /\ UNCHANGED <<dirs, made>> /\ active' = NoCapture /\ Capturing
        /\ resume' = [capture |-> active.capture, expired |-> FALSE]
    BY <1>8 DEF HandlePause, disk
  <2>2. OwnerInv'
    BY <2>1 DEF OwnerInv, Capturing, Paused, FramesIn
  <2> QED
    BY <1>2, <2>1, <2>2
<1> QED
  BY <1>1, <1>3, <1>4, <1>5, <1>6, <1>7, <1>8, CaptureKeeps, StartAnewKeeps, RecoveryKeeps,
     OwnersChange

-------------------------------------------------------------------------------
(* Videos. *)

(* Only a capture adds a frame to a directory. *)
LEMMA FramesOnlyCaptured ==
  ASSUME TypeOK, [Next]_vars, ~TickCaptures
  PROVE  \A d \in Dirs : FramesIn(d)' \subseteq FramesIn(d)
<1>1. DiskOK
  BY TypeParts
<1>2. CASE UNCHANGED dirs
  BY <1>2 DEF FramesIn
<1>3. CASE AssemblyEnds \/ DeleteRemoves \/ WorkerStarts
  <2>1. PICK ds : RemoveAll(ds)
    BY <1>3 DEF AssemblyEnds, DeleteRemoves, WorkerStarts
  <2> QED
    BY <2>1, RemoveAllFrames
<1>4. CASE HandleStartAnew
  BY <1>1, <1>4 DEF HandleStartAnew, FramesIn, DiskOK, Removed
<1>5. CASE Crash
  BY <1>1, <1>5, NamedCaptures DEF Crash, FramesIn, DiskOK, Directory, Captures
<1>6. ASSUME NEW d \in Dirs, DirectoryAges(d)
      PROVE  \A e \in Dirs : FramesIn(e)' \subseteq FramesIn(e)
  BY <1>1, <1>6 DEF DirectoryAges, FramesIn, DiskOK, Directory
<1>7. CASE HandleCommand
  BY <1>2, <1>4, <1>7
    DEF HandleCommand, HandleConfig, HandleStartRefused, HandleStartResumes,
        HandlePause, HandleFinish, HandleFail, HandleEndIgnored, disk
<1> QED
  BY <1>2, <1>3, <1>5, <1>6, <1>7
    DEF Next, NotifyPrinting, NotifyPaused, NotifyIdle, NotifyAborted, Report, Configure,
        ManualStart, ManualPause, ManualStop, ManualResume, DeleteResolves, Ask, ManualSends,
        ManualDismiss, DeleteChecks, TickFinalizes, Recovery, WorkerRunReturns,
        RecoverNext, RecoveryEnds, Restart, DeadlinePasses, vars, disk

LEMMA VideoStep ==
  ASSUME TypeOK, DirsInv, LaterFrames, VideosDoNotMix, [Next]_vars
  PROVE  LaterFrames' /\ VideosDoNotMix'
<1>1. DiskOK /\ VideosOK /\ Len(videos) \in Nat /\ DOMAIN videos = 1 .. Len(videos)
  BY TypeParts DEF VideosOK
<1>2. \A i \in DOMAIN videos : videos[i].dir \in Dirs
  <2>1. \A i \in 1 .. Len(videos) : videos[i] \in [dir : Dirs, frames : SUBSET Frame]
    BY <1>1, ElementOfSeq DEF VideosOK
  <2> QED
    BY <1>1, <2>1
<1>3. ASSUME UNCHANGED history,
             \A d \in Dirs : \A f \in FramesIn(d)' : f \in FramesIn(d) \/ f.after = Len(videos)
      PROVE  LaterFrames' /\ VideosDoNotMix'
  <2>1. LaterFrames'
    BY <1>1, <1>2, <1>3 DEF LaterFrames, history, FramesIn
  <2> QED
    BY <1>3, <2>1 DEF VideosDoNotMix, OneFilePerVideo, FrameInOneVideo, history
<1>4. ASSUME CanEncode, Encode, torn \subseteq torn',
             \A e \in Dirs : FramesIn(e)' \subseteq FramesIn(e),
             NEW d \in Dirs, d = job.dir, FramesIn(d)' = {} \/ d \in torn'
      PROVE  LaterFrames' /\ VideosDoNotMix'
  <2>1. PICK n : n = Len(videos)
    OBVIOUS
  <2>2. /\ d \in Dirs /\ DOMAIN videos' = 1 .. n + 1
        /\ \A i \in 1 .. n : videos'[i] = videos[i]
        /\ videos'[n + 1].dir = d /\ videos'[n + 1].frames \subseteq FramesIn(d)
    <3>1. videos' \in Seq([dir : Dirs, frames : SUBSET Frame]) /\ Len(videos') = n + 1
      BY <1>4, <2>1, EncodeAppends
    <3>2. videos'[n + 1] = [dir |-> d, frames |-> Readable(d)]
      BY <1>4, <2>1, EncodeAppends
    <3> QED
      BY <1>1, <1>4, <2>1, <3>1, <3>2, EncodeAppends, ReadableIsFrames
  <2>3. LaterFrames'
    <3> SUFFICES ASSUME NEW i \in DOMAIN videos', videos'[i].dir \notin torn',
                        NEW f \in dirs'[videos'[i].dir].frames
                 PROVE  f.after >= i
      BY DEF LaterFrames, FramesIn
    <3>1. CASE i = n + 1
      BY <1>4, <2>1, <2>2, <3>1 DEF FramesIn
    <3>2. CASE i # n + 1
      <4>1. i \in 1 .. n /\ videos'[i] = videos[i] /\ videos[i].dir \in Dirs
        BY <1>1, <1>2, <2>1, <2>2, <3>2
      <4>2. f \in FramesIn(videos[i].dir)
        BY <1>4, <4>1 DEF FramesIn
      <4> QED
        BY <1>1, <1>4, <2>1, <4>1, <4>2 DEF LaterFrames
    <3> QED
      BY <3>1, <3>2
  <2>4. OneFilePerVideo'
    <3>1. \A f, g \in FramesIn(d) : f.of = g.of
      BY <2>2 DEF DirsInv
    <3>2. OneFilePerVideo /\ n \in Nat
      BY <1>1, <2>1 DEF VideosDoNotMix
    <3> QED
      BY <1>1, <2>1, <2>2, <3>1, <3>2 DEF OneFilePerVideo
  <2>5. FrameInOneVideo'
    <3> SUFFICES ASSUME NEW i \in DOMAIN videos', NEW j \in DOMAIN videos',
                        i < j, videos'[i].dir = videos'[j].dir, videos'[i].dir \notin torn',
                        NEW f \in videos'[j].frames
                 PROVE  f.after >= i
      BY DEF FrameInOneVideo
    <3>1. i \in 1 .. n /\ videos'[i] = videos[i] /\ n \in Nat
      BY <1>1, <2>1, <2>2
    <3>2. videos[i].dir \notin torn
      BY <1>4, <3>1
    <3>3. CASE j = n + 1
      <4>1. f \in FramesIn(videos[i].dir)
        BY <2>2, <3>1, <3>3
      <4> QED
        BY <1>1, <2>1, <3>1, <3>2, <4>1 DEF LaterFrames
    <3>4. CASE j # n + 1
      <4>1. j \in 1 .. n /\ videos'[j] = videos[j]
        BY <2>2, <3>1, <3>4
      <4> QED
        BY <1>1, <2>1, <3>1, <3>2, <4>1 DEF VideosDoNotMix, FrameInOneVideo
    <3> QED
      BY <3>3, <3>4
  <2> QED
    BY <2>3, <2>4, <2>5 DEF VideosDoNotMix
<1>5. CASE AssemblyEnds
  <2>1. RemoveAll({job.dir}) /\ torn' = torn
    BY <1>5 DEF AssemblyEnds
  <2>2. \A d \in Dirs : FramesIn(d)' = IF d \in {job.dir} THEN {} ELSE FramesIn(d)
    BY <2>1, RemoveAllFrames
  <2>3. CASE UNCHANGED videos
    BY <1>3, <2>1, <2>2, <2>3 DEF history
  <2>4. CASE CanEncode /\ Encode
    <3>1. PICK d \in Dirs : d = job.dir
      BY <2>4, EncodeAppends
    <3>2. FramesIn(d)' = {}
      BY <2>2, <3>1
    <3> QED
      BY <1>4, <2>1, <2>2, <2>4, <3>1, <3>2
  <2> QED
    BY <1>5, <2>3, <2>4 DEF AssemblyEnds
<1>6. CASE Crash
  <2>1. \A e \in Dirs : FramesIn(e)' = FramesIn(e)
    BY <1>1, <1>6, NamedCaptures DEF Crash, DiskOK, Directory, Captures, FramesIn
  <2>2. CASE UNCHANGED history
    BY <1>3, <2>1, <2>2
  <2>3. CASE CanEncode /\ Encode /\ torn' = torn \union {job.dir}
    <3>1. PICK d \in Dirs : d = job.dir
      BY <2>3, EncodeAppends
    <3> QED
      BY <1>4, <2>1, <2>3, <3>1
  <2> QED
    BY <1>6, <2>2, <2>3 DEF Crash
<1>7. CASE TickCaptures
  <2>1. UNCHANGED history
    BY <1>7 DEF TickCaptures
  <2>2. \A d \in Dirs : \A f \in FramesIn(d)' : f \in FramesIn(d) \/ f.after = Len(videos)
    BY <1>1, <1>7 DEF TickCaptures, FramesIn, DiskOK
  <2> QED
    BY <1>3, <2>1, <2>2
<1>8. CASE ~AssemblyEnds /\ ~Crash /\ ~TickCaptures
  <2>1. UNCHANGED history
    BY <1>8, VideosChange
  <2>2. \A d \in Dirs : FramesIn(d)' \subseteq FramesIn(d)
    BY <1>8, FramesOnlyCaptured
  <2> QED
    BY <1>3, <2>1, <2>2
<1> QED
  BY <1>5, <1>6, <1>7, <1>8

-------------------------------------------------------------------------------
(* Captures end with their print. *)

LEMMA EndedAppend ==
  ASSUME NEW q \in Seq(Commands), NEW c \in Commands,
         (c.op # "start" /\ Ended(q)) \/ c.op \in {"finish", "fail"}
  PROVE  /\ Ended(Append(q, c))
         /\ Ends(q) # {} \/ c.op \in {"finish", "fail"} => Ends(Append(q, c)) # {}
<1>1. /\ DOMAIN q = 1 .. Len(q) /\ Len(q) \in Nat
      /\ DOMAIN Append(q, c) = 1 .. (Len(q) + 1)
      /\ \A i \in 1 .. Len(q) : Append(q, c)[i] = q[i]
      /\ Append(q, c)[Len(q) + 1] = c
  BY AppendProperties, LenProperties
<1>2. /\ Starts(Append(q, c)) \subseteq Starts(q)
      /\ Ends(q) \subseteq Ends(Append(q, c))
      /\ c.op \in {"finish", "fail"} => Len(q) + 1 \in Ends(Append(q, c))
      /\ \A i \in Starts(q) : i < Len(q) + 1
  BY <1>1 DEF Starts, Ends
<1> QED
  BY <1>2 DEF Ended

LEMMA EndedTail ==
  ASSUME NEW q \in Seq(Commands), q # << >>, Ended(q)
  PROVE  /\ Ended(Tail(q))
         /\ Head(q).op = "start" => Ends(Tail(q)) # {}
         /\ Ends(q) # {} /\ Head(q).op \notin {"finish", "fail"} => Ends(Tail(q)) # {}
<1>1. /\ Len(q) \in Nat \ {0}
      /\ DOMAIN Tail(q) = 1 .. Len(q) - 1 /\ DOMAIN q = 1 .. Len(q)
      /\ \A i \in 1 .. Len(q) - 1 : Tail(q)[i] = q[i + 1]
      /\ Head(q) = q[1]
  BY HeadTailProperties, EmptySeq, LenProperties
<1>2. /\ \A i \in Starts(Tail(q)) : i + 1 \in Starts(q)
      /\ \A j \in Ends(q) : j > 1 => j - 1 \in Ends(Tail(q))
      /\ Head(q).op = "start" => 1 \in Starts(q)
      /\ Head(q).op \notin {"finish", "fail"} => \A j \in Ends(q) : j > 1
      /\ Starts(Tail(q)) \subseteq Nat \ {0} /\ Ends(q) \subseteq Nat
  BY <1>1 DEF Starts, Ends
<1> QED
  BY <1>2 DEF Ended

LEMMA FollowStep ==
  ASSUME TypeOK, FollowInv, [Next]_vars
  PROVE  FollowInv'
<1>1. QueueOK /\ MemoryOK /\ RestOK
  BY TypeParts
<1>2. ASSUME UNCHANGED <<cmds, undisturbed, enabled, reported>>, Capturing' => Capturing
      PROVE  FollowInv'
  BY <1>2 DEF FollowInv, Ended, Ends, Starts
<1>3. ASSUME NEW c \in Commands, Send(c), c.op # "start", UNCHANGED <<enabled, active, reported>>,
             undisturbed' => undisturbed
      PROVE  FollowInv'
  <2>1. CASE cmds' = Append(cmds, c)
    BY <1>1, <1>3, <2>1, EndedAppend DEF FollowInv, QueueOK, Capturing
  <2>2. CASE cmds' = cmds
    BY <1>3, <2>2 DEF FollowInv, Capturing
  <2> QED
    BY <1>3, <2>1, <2>2 DEF Send
<1>4. ASSUME NEW f \in Files, NotifyPrinting(f)
      PROVE  FollowInv'
  BY <1>4 DEF NotifyPrinting, Report, FollowInv, Capturing, memory
<1>5. CASE NotifyPaused \/ NotifyIdle \/ NotifyAborted
  <2>1. PICK c \in Commands :
          /\ c.op \in {"finish", "fail"} /\ Send(c)
          /\ undisturbed' = (undisturbed /\ Len(cmds) < QueueCap)
          /\ UNCHANGED <<enabled, active>>
    BY <1>5 DEF NotifyPaused, NotifyIdle, NotifyAborted, Report, Commands, memory
  <2>2. Len(cmds) < QueueCap => cmds' = Append(cmds, c)
    BY <2>1 DEF Send
  <2> QED
    BY <1>1, <2>1, <2>2, EndedAppend DEF FollowInv, Capturing, QueueOK
<1>6. ASSUME NEW on \in BOOLEAN, Configure(on)
      PROVE  FollowInv'
  <2> DEFINE c == [op |-> "config", on |-> on]
  <2>1. c \in Commands /\ c.op = "config"
    BY DEF Commands
  <2>2. CASE Send(c) /\ UNCHANGED <<enabled, undisturbed>>
    BY <1>3, <1>6, <2>1, <2>2 DEF Configure
  <2>3. CASE enabled' = on /\ undisturbed' = (undisturbed /\ on) /\ cmds' = cmds
    BY <1>6, <2>3 DEF Configure, FollowInv, Capturing
  <2> QED
    BY <1>6, <2>2, <2>3 DEF Configure
<1>7. CASE ManualSends
  <2>1. api.op = "send" => api.cmd \in Commands
    BY <1>1 DEF QueueOK, Requests, NoRequest
  <2>2. CASE api.cmd.op # "start"
    BY <1>3, <1>7, <2>1, <2>2 DEF ManualSends, memory
  <2>3. CASE api.cmd.op = "start"
    BY <1>7, <2>3 DEF ManualSends, FollowInv
  <2> QED
    BY <2>2, <2>3
<1>8. CASE HandleCommand
  <2>1. PICK o : Handle(o)
    BY <1>8 DEF HandleCommand, HandleConfig, HandleStartRefused, HandleStartResumes,
                HandleStartAnew, HandlePause, HandleFinish, HandleFail, HandleEndIgnored
  <2>2. /\ cmds \in Seq(Commands) /\ cmds # << >> /\ cmds' = Tail(cmds) /\ reported' = reported
        /\ Head(cmds).op = o
    BY <1>1, <2>1 DEF Handle, QueueOK
  <2>3. Ended(cmds) =>
          /\ Ended(cmds')
          /\ o = "start" => Ends(cmds') # {}
          /\ Ends(cmds) # {} /\ o \notin {"finish", "fail"} => Ends(cmds') # {}
    BY <2>2, EndedTail
  <2>4. CASE HandleConfig
    BY <2>2, <2>3, <2>4 DEF HandleConfig, Handle, FollowInv, Capturing
  <2>5. CASE HandleStartRefused \/ HandleStartResumes \/ HandleStartAnew
    BY <2>2, <2>3, <2>5 DEF HandleStartRefused, HandleStartResumes, HandleStartAnew, Handle,
                            FollowInv, Capturing, memory
  <2>6. CASE HandlePause \/ HandleFinish \/ HandleFail
    BY <2>2, <2>3, <2>6 DEF HandlePause, HandleFinish, HandleFail, FollowInv, Capturing
  <2>7. CASE HandleEndIgnored
    BY <2>2, <2>3, <2>7 DEF HandleEndIgnored, FollowInv, Capturing, memory
  <2> QED
    BY <1>8, <2>4, <2>5, <2>6, <2>7 DEF HandleCommand
<1>9. CASE Crash
  <2>1. PICK on \in BOOLEAN : cmds' = <<[op |-> "config", on |-> on]>>
    BY <1>9 DEF Crash
  <2>2. Starts(cmds') = {}
    BY <2>1 DEF Starts
  <2> QED
    BY <1>9, <2>2 DEF Crash, FollowInv, Ended, Capturing
<1>10. CASE TickCaptures
  BY <1>2, <1>10 DEF TickCaptures
<1>11. CASE ManualStart \/ ManualPause \/ ManualStop \/ ManualResume \/ ManualDismiss
            \/ DeleteChecks \/ DeleteRemoves \/ (\E d \in Dirs : DeleteResolves(d))
  BY <1>2, <1>11 DEF ManualStart, ManualPause, ManualStop, ManualResume, Ask, ManualDismiss,
                     DeleteChecks, DeleteRemoves, DeleteResolves, Capturing, memory
<1>12. CASE TickFinalizes \/ AssemblyEnds \/ Recovery \/ Restart \/ DeadlinePasses
            \/ (\E d \in Dirs : DirectoryAges(d))
  BY <1>2, <1>12 DEF TickFinalizes, AssemblyEnds, Recovery, WorkerRunReturns, WorkerStarts,
                     RecoverNext, RecoveryEnds, Restart, DeadlinePasses, DirectoryAges,
                     Capturing, memory
<1>13. CASE UNCHANGED vars
  BY <1>2, <1>13 DEF vars, memory, Capturing
<1> QED
  BY <1>4, <1>5, <1>6, <1>7, <1>8, <1>9, <1>10, <1>11, <1>12, <1>13 DEF Next

-------------------------------------------------------------------------------
LEMMA TimelapseInit ==
  ASSUME Init
  PROVE  TimelapseInv
<1> USE BoundAssumption
<1>1. /\ api = NoRequest /\ job = NoJob /\ orphans = {} /\ made = 0 /\ newer = {}
      /\ active = NoCapture /\ resume = NoCapture /\ enabled = FALSE
      /\ dirs = [d \in Dirs |-> Removed]
      /\ videos = <<>> /\ torn = {} /\ DOMAIN videos = {}
  BY DEF Init, Boot
<1>2. PICK on \in BOOLEAN : cmds = <<[op |-> "config", on |-> on]>>
  BY DEF Init, Boot
<1>3. [op |-> "config", on |-> on] \in Commands
  BY DEF Commands
<1>4. /\ cmds \in Seq(Commands) /\ Len(cmds) = 1
      /\ Starts(cmds) = {}
  BY <1>2, <1>3 DEF Starts
<1>5. /\ Cardinality(Starts(cmds)) = 0
      /\ Cardinality(Begins(api)) = 0
  BY <1>1, <1>4, BeginsCount, FS_EmptySet DEF NoRequest
<1>6. TypeOK
  <2>1. QueueOK
    BY <1>1, <1>4 DEF QueueOK, Requests
  <2>2. MemoryOK
    BY <1>1 DEF MemoryOK, ActiveType, ResumeType
  <2>3. LoopOK
    BY <1>1 DEF Init, Boot, LoopOK
  <2>4. RestOK
    BY DEF Init, Boot, RestOK
  <2>5. DiskOK
    BY <1>1 DEF DiskOK, Directory, Removed
  <2>6. VideosOK
    BY <1>1, EmptySeq DEF VideosOK
  <2> QED
    BY <2>1, <2>2, <2>3, <2>4, <2>5, <2>6, TypeParts
<1>7. Budget
  BY <1>1, <1>5 DEF Budget
<1>8. DirsInv /\ OwnerInv
  BY <1>1 DEF DirsInv, OwnerInv, FramesIn, Removed, Capturing, Paused
<1>9. LaterFrames /\ VideosDoNotMix
  BY <1>1 DEF LaterFrames, VideosDoNotMix, OneFilePerVideo, FrameInOneVideo
<1>10. FollowInv
  BY <1>1, <1>4 DEF FollowInv, Ended, Capturing
<1> QED
  BY <1>6, <1>7, <1>8, <1>9, <1>10 DEF TimelapseInv

(* The invariant holds in every state the program reaches. *)
THEOREM TimelapseInvariant == Spec => []TimelapseInv
<1>1. Init => TimelapseInv
  BY TimelapseInit
<1>2. TimelapseInv /\ [Next]_vars => TimelapseInv'
  <2> SUFFICES ASSUME TimelapseInv, [Next]_vars
               PROVE  TimelapseInv'
    OBVIOUS
  <2>1. TypeOK' /\ Budget'
    BY TypeStep DEF TimelapseInv
  <2>2. DirsInv' /\ OwnerInv'
    BY OwnerStep DEF TimelapseInv
  <2>3. LaterFrames' /\ VideosDoNotMix'
    BY VideoStep DEF TimelapseInv
  <2>4. FollowInv'
    BY FollowStep DEF TimelapseInv
  <2> QED
    BY <2>1, <2>2, <2>3, <2>4 DEF TimelapseInv
<1> QED
  BY <1>1, <1>2, PTL DEF Spec

(* Commands, captures, directories and videos keep their types: no channel *)
(* holds more than its capacity, and nothing found has more frames than    *)
(* there are numbers.                                                      *)
THEOREM TimelapseTypeCorrect == Spec => []TypeOK
<1>1. TimelapseInv => TypeOK
  BY DEF TimelapseInv
<1> QED
  BY <1>1, TimelapseInvariant, PTL

(* A video is of one print and shows every moment of it at most once,      *)
(* whatever was paused, resumed, deleted, interrupted and recovered.       *)
THEOREM VideosNeverMix == Spec => []VideosDoNotMix
<1>1. TimelapseInv => VideosDoNotMix
  BY DEF TimelapseInv
<1> QED
  BY <1>1, TimelapseInvariant, PTL

(* While no command is dropped and nothing is disabled or started by hand, *)
(* nothing is captured of a print that is not under way, unless the end of *)
(* the capture is in the channel.                                          *)
THEOREM CapturesFollowPrints == Spec => []CaptureFollowsPrint
<1>1. TimelapseInv => CaptureFollowsPrint
  <2>1. Ends(cmds) # {} => cmds # <<>>
    BY DEF Ends
  <2> QED
    BY <2>1 DEF TimelapseInv, FollowInv, CaptureFollowsPrint
<1> QED
  BY <1>1, TimelapseInvariant, PTL

===============================================================================
