----------------------- MODULE SessionThreads_proofs -----------------------
(***************************************************************************)
(* Theorems of the session threads, for any sessions, any number of        *)
(* brokers, restarts and retries, and whatever Discord answers but where a *)
(* theorem says otherwise.                                                 *)
(***************************************************************************)
EXTENDS SessionThreads, SequenceTheorems, TLAPS

USE SessionsAssumption

-----------------------------------------------------------------------------
(* Jobs and frames are what the queues hold.                               *)

LEMMA FrameType ==
  ASSUME NEW kind \in {"register", "release"}, NEW s \in Sessions
  PROVE  Frame(kind, s) \in Frames
  BY DEF Frame, Frames

LEMMA JobType ==
  ASSUME NEW kind \in {"open", "adopt", "archive"}, NEW s \in Sessions,
         NEW t \in {NoThread} \cup ThreadIds
  PROVE  Job(kind, s, t) \in Jobs
  BY DEF Job, Jobs

LEMMA ScheduleType ==
  ASSUME PumpTypes, NEW g \in Gens, NEW j \in Jobs, Schedule(g, j)
  PROVE  queue' \in [Gens -> Seq(Jobs)]
<1>1. Append(queue[g], j) \in Seq(Jobs)
  BY AppendProperties DEF PumpTypes
<1> QED
  BY <1>1 DEF Schedule, PumpTypes

LEMMA TakeType ==
  ASSUME PumpTypes, NEW g \in Gens, queue[g] # <<>>, Take(g)
  PROVE  queue' \in [Gens -> Seq(Jobs)] /\ NextJob(g) \in Jobs
<1>1. Tail(queue[g]) \in Seq(Jobs) /\ Head(queue[g]) \in Jobs
  BY HeadTailProperties DEF PumpTypes
<1> QED
  BY <1>1 DEF Take, NextJob, PumpTypes

LEMMA SaveType ==
  ASSUME BookTypes, NEW g \in Gens, NEW s \in Sessions, NEW r \in Records,
         SaveRecord(g, s, r)
  PROVE  reg' \in [Gens -> [Sessions -> Records]] /\ disk' \in [Sessions -> Records]
<1>1. [reg[g] EXCEPT ![s] = r] \in [Sessions -> Records]
  BY DEF BookTypes
<1> QED
  BY <1>1 DEF SaveRecord, BookTypes

LEMMA HoldType ==
  ASSUME PumpTypes, NEW g \in Gens, NEW s \in Sessions,
         NEW t \in {NoThread} \cup ThreadIds, Hold(g, s, t)
  PROVE  threads' \in [Gens -> [Sessions -> {NoThread} \cup ThreadIds]]
<1>1. [threads[g] EXCEPT ![s] = t] \in [Sessions -> {NoThread} \cup ThreadIds]
  BY DEF PumpTypes
<1> QED
  BY <1>1 DEF Hold, PumpTypes

LEMMA JobSetType ==
  ASSUME PumpTypes, NEW g \in Gens, NEW j \in Jobs \cup {NoJob},
         j.kind = "archive" => j.thread \in ThreadIds,
         job' = [job EXCEPT ![g] = j]
  PROVE  /\ job' \in [Gens -> Jobs \cup {NoJob}]
         /\ \A h \in Gens : job'[h].kind = "archive" => job'[h].thread \in ThreadIds
  BY DEF PumpTypes

-----------------------------------------------------------------------------
(* What a step leaves alone keeps its type.                                *)

LEMMA ClientFrame == ClientTypes /\ UNCHANGED clientVars => ClientTypes'
  BY DEF ClientTypes, clientVars

LEMMA ServeFrame == ServeTypes /\ UNCHANGED serveVars => ServeTypes'
  BY DEF ServeTypes, serveVars

LEMMA BookFrame == BookTypes /\ UNCHANGED bookVars => BookTypes'
  BY DEF BookTypes, bookVars

LEMMA CareFrame == CareTypes /\ UNCHANGED careVars => CareTypes'
  BY DEF CareTypes, careVars

LEMMA PumpFrame == PumpTypes /\ UNCHANGED pumpVars => PumpTypes'
  BY DEF PumpTypes, pumpVars

LEMMA WorldFrame == WorldTypes /\ UNCHANGED worldVars => WorldTypes'
  BY DEF WorldTypes, worldVars

-----------------------------------------------------------------------------
LEMMA TypeInit == Init => TypeOK
<1> SUFFICES ASSUME Init PROVE TypeOK
  OBVIOUS
<1>1. ClientTypes /\ CareTypes /\ WorldTypes
  BY DEF Init, ClientTypes, CareTypes, WorldTypes
<1>2. ServeTypes
  BY EmptySeq DEF Init, ServeTypes, IdleLoop, Gens
<1>3. BookTypes
  BY DEF Init, BookTypes, Records
<1>4. PumpTypes
  BY EmptySeq DEF Init, PumpTypes, NoJob
<1> QED
  BY <1>1, <1>2, <1>3, <1>4 DEF TypeOK

LEMMA WireType ==
  ASSUME ServeTypes, wire # <<>>
  PROVE  /\ Head(wire) \in Frames /\ Head(wire).session \in Sessions
         /\ Tail(wire) \in Seq(Frames)
<1>1. Head(wire) \in Frames /\ Tail(wire) \in Seq(Frames)
  BY HeadTailProperties DEF ServeTypes
<1> QED
  BY <1>1 DEF Frames

LEMMA ForgetBook ==
  ASSUME BookTypes, gen \in Gens, NEW s \in Sessions, Forget(s)
  PROVE  BookTypes'
<1>1. CASE reg[gen][s] = NoRecord
  BY <1>1 DEF Forget, BookTypes
<1>2. CASE reg[gen][s] # NoRecord
  BY <1>2, SaveType DEF Forget, BookTypes, Records
<1> QED
  BY <1>1, <1>2

LEMMA ForgetPump ==
  ASSUME PumpTypes, gen \in Gens, NEW s \in Sessions, Forget(s),
         UNCHANGED <<job, threads>>
  PROVE  PumpTypes'
  BY JobType, ScheduleType DEF Forget, PumpTypes

LEMMA RecordType ==
  ASSUME BookTypes, NEW g \in Gens, NEW s \in Sessions, NEW t \in ThreadIds,
         RecordThread(g, s, t), UNCHANGED <<claimed, suspect>>
  PROVE  BookTypes'
  BY SaveType DEF RecordThread, BookTypes, Records

LEMMA TypeNext == TypeOK /\ [Next]_vars => TypeOK'
<1> SUFFICES ASSUME TypeOK, [Next]_vars PROVE TypeOK'
  OBVIOUS
<1> USE DEF TypeOK
<1>1. ASSUME NEW s \in Sessions, SendRegister(s) PROVE TypeOK'
  <2>0. SendRegister(s)
    BY <1>1
  <2>1. ClientTypes'
    BY <2>0 DEF SendRegister, ClientTypes
  <2>2. ServeTypes'
    BY <2>0, FrameType, AppendProperties DEF SendRegister, ServeTypes
  <2> QED
    BY <2>0, <2>1, <2>2,
       BookFrame, CareFrame, PumpFrame, WorldFrame
       DEF SendRegister, bookVars, careVars, pumpVars, worldVars
<1>2. ASSUME NEW s \in Sessions, SendRelease(s) PROVE TypeOK'
  <2>0. SendRelease(s)
    BY <1>2
  <2>1. ClientTypes'
    BY <2>0 DEF SendRelease, ClientTypes
  <2>2. ServeTypes'
    BY <2>0, FrameType, AppendProperties DEF SendRelease, ServeTypes
  <2> QED
    BY <2>0, <2>1, <2>2,
       BookFrame, CareFrame, PumpFrame, WorldFrame
       DEF SendRelease, bookVars, careVars, pumpVars, worldVars
<1>3. ASSUME NEW s \in Sessions, Die(s) PROVE TypeOK'
  <2>0. Die(s)
    BY <1>3
  <2>1. ClientTypes'
    BY <2>0 DEF Die, ClientTypes
  <2> QED
    BY <2>0, <2>1,
       ServeFrame, BookFrame, CareFrame, PumpFrame, WorldFrame
       DEF Die, serveVars, bookVars, careVars, pumpVars, worldVars
<1>4. ASSUME BeginRegister PROVE TypeOK'
  <2>0. BeginRegister
    BY <1>4
  <2>2. ServeTypes'
    <3>1. Tail(wire) \in Seq(Frames)
      BY <2>0, WireType DEF BeginRegister
    <3>2. Head(wire).session \in Sessions
      BY <2>0, WireType DEF BeginRegister
    <3>3. KeepThread(Head(wire).session) \in {NoThread} \cup ThreadIds
      BY DEF KeepThread
    <3> QED
      BY <2>0, <3>1, <3>2, <3>3 DEF BeginRegister, ServeTypes
  <2> QED
    BY <2>0, <2>2,
       ClientFrame, BookFrame, CareFrame, PumpFrame, WorldFrame
       DEF BeginRegister, clientVars, bookVars, careVars, pumpVars, worldVars
<1>5. ASSUME Upsert PROVE TypeOK'
  <2>0. Upsert
    BY <1>5
  <2>2. ServeTypes'
    BY <2>0 DEF Upsert, ServeTypes
  <2>3. BookTypes'
    <3>1. handler.session \in Sessions /\ handler.thread \in Records /\ gen \in Gens
      BY <2>0 DEF Upsert, ServeTypes, Records
    <3> QED
      BY <2>0, <3>1, SaveType DEF Upsert, BookTypes
  <2> QED
    BY <2>0, <2>2, <2>3,
       ClientFrame, CareFrame, PumpFrame, WorldFrame
       DEF Upsert, clientVars, careVars, pumpVars, worldVars
<1>6. ASSUME Claim PROVE TypeOK'
  <2>0. Claim
    BY <1>6
  <2>2. ServeTypes'
    BY <2>0 DEF Claim, ServeTypes, IdleLoop
  <2>3. BookTypes'
    BY <2>0 DEF Claim, BookTypes, ServeTypes
  <2> QED
    BY <2>0, <2>2, <2>3,
       ClientFrame, CareFrame, PumpFrame, WorldFrame
       DEF Claim, clientVars, careVars, pumpVars, worldVars
<1>7. ASSUME OpenThread PROVE TypeOK'
  <2>0. OpenThread
    BY <1>7
  <2>2. ServeTypes'
    BY <2>0 DEF OpenThread, ServeTypes, IdleLoop
  <2>5. PumpTypes'
    <3>1. Job("open", handler.session, NoThread) \in Jobs /\ gen \in Gens
      BY <2>0, JobType DEF OpenThread, ServeTypes
    <3> QED
      BY <2>0, <3>1, ScheduleType DEF OpenThread, PumpTypes
  <2> QED
    BY <2>0, <2>2, <2>5,
       ClientFrame, BookFrame, CareFrame, WorldFrame
       DEF OpenThread, clientVars, bookVars, careVars, worldVars
<1>8. ASSUME Release PROVE TypeOK'
  <2>0. Release
    BY <1>8
  <2>2. ServeTypes'
    <3>1. Tail(wire) \in Seq(Frames)
      BY <2>0, WireType DEF Release
    <3> QED
      BY <2>0, <3>1 DEF Release, ServeTypes
  <2>3. BookTypes'
    <3>1. Head(wire).session \in Sessions /\ gen \in Gens
      BY <2>0, WireType DEF Release, ServeTypes
    <3> QED
      BY <2>0, <3>1, ForgetBook DEF Release
  <2>5. PumpTypes'
    <3>1. Head(wire).session \in Sessions /\ gen \in Gens
      BY <2>0, WireType DEF Release, ServeTypes
    <3> QED
      BY <2>0, <3>1, ForgetPump DEF Release
  <2> QED
    BY <2>0, <2>2, <2>3, <2>5,
       ClientFrame, CareFrame, WorldFrame
       DEF Release, clientVars, careVars, worldVars
<1>9. ASSUME RefuseRelease PROVE TypeOK'
  <2>0. RefuseRelease
    BY <1>9
  <2>1. ClientTypes'
    <3>1. Head(wire).session \in Sessions
      BY <2>0, WireType DEF RefuseRelease
    <3> QED
      BY <2>0, <3>1 DEF RefuseRelease, ClientTypes
  <2>2. ServeTypes'
    <3> DEFINE s == Head(wire).session
    <3>1. s \in Sessions /\ Tail(wire) \in Seq(Frames)
      BY <2>0, WireType DEF RefuseRelease
    <3>2. Frame("register", s) \in Frames /\ Frame("release", s) \in Frames
      BY <3>1, FrameType
    <3>3. <<Frame("register", s), Frame("release", s)>> \in Seq(Frames)
      BY <3>2
    <3>4. Tail(wire) \o <<Frame("register", s), Frame("release", s)>> \in Seq(Frames)
      BY <3>1, <3>3, ConcatProperties
    <3>5. wire' \in Seq(Frames)
      BY <2>0, <3>1, <3>4 DEF RefuseRelease
    <3> QED
      BY <2>0, <3>5 DEF RefuseRelease, ServeTypes
  <2> QED
    BY <2>0, <2>1, <2>2,
       BookFrame, CareFrame, PumpFrame, WorldFrame
       DEF RefuseRelease, bookVars, careVars, pumpVars, worldVars
<1>10. ASSUME NEW s \in Sessions, Suspect(s) PROVE TypeOK'
  <2>0. Suspect(s)
    BY <1>10
  <2>3. BookTypes'
    BY <2>0 DEF Suspect, BookTypes
  <2> QED
    BY <2>0, <2>3,
       ClientFrame, ServeFrame, CareFrame, PumpFrame, WorldFrame
       DEF Suspect, clientVars, serveVars, careVars, pumpVars, worldVars
<1>11. ASSUME NEW s \in Sessions, HearFrom(s) PROVE TypeOK'
  <2>0. HearFrom(s)
    BY <1>11
  <2>3. BookTypes'
    BY <2>0 DEF HearFrom, BookTypes
  <2> QED
    BY <2>0, <2>3,
       ClientFrame, ServeFrame, CareFrame, PumpFrame, WorldFrame
       DEF HearFrom, clientVars, serveVars, careVars, pumpVars, worldVars
<1>12. ASSUME SweepCollect PROVE TypeOK'
  <2>0. SweepCollect
    BY <1>12
  <2>4. CareTypes'
    BY <2>0 DEF SweepCollect, CareTypes
  <2> QED
    BY <2>0, <2>4,
       ClientFrame, ServeFrame, BookFrame, PumpFrame, WorldFrame
       DEF SweepCollect, clientVars, serveVars, bookVars, pumpVars, worldVars
<1>13. ASSUME NEW s \in Sessions, SweepNext(s) PROVE TypeOK'
  <2>0. SweepNext(s)
    BY <1>13
  <2>3. BookTypes'
    <3>1. gen \in Gens
      BY DEF ServeTypes
    <3> QED
      BY <2>0, <3>1, ForgetBook DEF SweepNext
  <2>4. CareTypes'
    BY <2>0 DEF SweepNext, CareTypes
  <2>5. PumpTypes'
    <3>1. gen \in Gens
      BY DEF ServeTypes
    <3> QED
      BY <2>0, <3>1, ForgetPump DEF SweepNext
  <2> QED
    BY <2>0, <2>3, <2>4, <2>5,
       ClientFrame, ServeFrame, WorldFrame
       DEF SweepNext, clientVars, serveVars, worldVars
<1>14. ASSUME AdoptBegin PROVE TypeOK'
  <2>0. AdoptBegin
    BY <1>14
  <2>2. ServeTypes'
    BY <2>0 DEF AdoptBegin, ServeTypes
  <2>4. CareTypes'
    BY <2>0 DEF AdoptBegin, CareTypes
  <2> QED
    BY <2>0, <2>2, <2>4,
       ClientFrame, BookFrame, PumpFrame, WorldFrame
       DEF AdoptBegin, clientVars, bookVars, pumpVars, worldVars
<1>15. ASSUME AdoptNext PROVE TypeOK'
  <2>0. AdoptNext
    BY <1>15
  <2>2. ServeTypes'
    BY <2>0 DEF AdoptNext, ServeTypes
  <2>4. CareTypes'
    BY <2>0 DEF AdoptNext, CareTypes
  <2>5. PumpTypes'
    <3>1. CASE toAdopt = {}
      BY <2>0, <3>1, PumpFrame DEF AdoptNext, pumpVars
    <3>2. CASE toAdopt # {}
      <4>1. PICK st \in toAdopt : Schedule(gen, Job("adopt", st[1], st[2]))
        BY <2>0, <3>2 DEF AdoptNext
      <4>2. Job("adopt", st[1], st[2]) \in Jobs /\ gen \in Gens
        BY <4>1, JobType DEF CareTypes, ServeTypes
      <4> QED
        BY <2>0, <4>1, <4>2, ScheduleType DEF AdoptNext, PumpTypes
    <3> QED
      BY <3>1, <3>2
  <2> QED
    BY <2>0, <2>2, <2>4, <2>5,
       ClientFrame, BookFrame, WorldFrame
       DEF AdoptNext, clientVars, bookVars, worldVars
<1>16. ASSUME StandDown PROVE TypeOK'
  <2>0. StandDown
    BY <1>16
  <2>2. ServeTypes'
    BY <2>0, EmptySeq DEF StandDown, ServeTypes
  <2> QED
    BY <2>0, <2>2,
       ClientFrame, BookFrame, CareFrame, PumpFrame, WorldFrame
       DEF StandDown, clientVars, bookVars, careVars, pumpVars, worldVars
<1>17. ASSUME Elect PROVE TypeOK'
  <2>0. Elect
    BY <1>17
  <2>2. ServeTypes'
    BY <2>0 DEF Elect, ServeTypes, Gens
  <2>3. BookTypes'
    BY <2>0 DEF Elect, BookTypes
  <2> QED
    BY <2>0, <2>2, <2>3,
       ClientFrame, CareFrame, PumpFrame, WorldFrame
       DEF Elect, clientVars, careVars, pumpVars, worldVars
<1>18. ASSUME Restart PROVE TypeOK'
  <2>0. Restart
    BY <1>18
  <2>2. ServeTypes'
    BY <2>0, EmptySeq DEF Restart, ServeTypes, IdleLoop
  <2>3. BookTypes'
    BY <2>0 DEF Restart, BookTypes
  <2> QED
    BY <2>0, <2>2, <2>3,
       ClientFrame, CareFrame, PumpFrame, WorldFrame
       DEF Restart, clientVars, careVars, pumpVars, worldVars
<1>19. ASSUME NEW g \in Gens, Crash(g) PROVE TypeOK'
  <2>0. Crash(g)
    BY <1>19
  <2>2. ServeTypes'
    <3>1. status' \in [Gens -> {"waiting", "started", "adopting", "serving",
                              "draining", "gone"}]
      BY <2>0 DEF Crash, ServeTypes
    <3>2. wire' \in Seq(Frames)
      BY <2>0, EmptySeq DEF Crash, ServeTypes
    <3>3. handler' = handler \/ handler' = IdleLoop
      BY <2>0 DEF Crash
    <3>4. UNCHANGED <<gen, restarts>>
      BY <2>0 DEF Crash
    <3> QED
      BY <3>1, <3>2, <3>3, <3>4 DEF ServeTypes, IdleLoop
  <2>4. CareTypes'
    BY <2>0 DEF Crash, CareTypes, careVars
  <2>5. PumpTypes'
    <3>1. queue' \in [Gens -> Seq(Jobs)]
      BY <2>0, EmptySeq DEF Crash, PumpTypes
    <3>2. threads' \in [Gens -> [Sessions -> {NoThread} \cup ThreadIds]]
      BY <2>0 DEF Crash, PumpTypes
    <3>3. NoJob \in Jobs \cup {NoJob} /\ NoJob.kind # "archive"
      BY DEF NoJob
    <3> QED
      BY <2>0, <3>1, <3>2, <3>3, JobSetType DEF Crash, PumpTypes
  <2> QED
    BY <2>0, <2>2, <2>4, <2>5,
       ClientFrame, BookFrame, WorldFrame
       DEF Crash, clientVars, bookVars, worldVars
<1>20. ASSUME NEW g \in Gens, OpenExisting(g) PROVE TypeOK'
  <2>0. OpenExisting(g)
    BY <1>20
  <2>3. BookTypes'
    <3>1. NextJob(g).session \in Sessions
      BY <2>0, TakeType DEF OpenExisting, Jobs
    <3>2. threads[g][NextJob(g).session] \in ThreadIds
      BY <2>0, <3>1 DEF OpenExisting, HasThread, PumpTypes
    <3> QED
      BY <2>0, <3>1, <3>2, RecordType DEF OpenExisting
  <2>5. PumpTypes'
    <3>1. queue' \in [Gens -> Seq(Jobs)]
      BY <2>0, TakeType DEF OpenExisting
    <3> QED
      BY <2>0, <3>1 DEF OpenExisting, PumpTypes
  <2> QED
    BY <2>0, <2>3, <2>5,
       ClientFrame, ServeFrame, CareFrame, WorldFrame
       DEF OpenExisting, clientVars, serveVars, careVars, worldVars
<1>21. ASSUME NEW g \in Gens, OpenBegin(g) PROVE TypeOK'
  <2>0. OpenBegin(g)
    BY <1>21
  <2>5. PumpTypes'
    <3>1. queue' \in [Gens -> Seq(Jobs)] /\ NextJob(g) \in Jobs
      BY <2>0, TakeType DEF OpenBegin
    <3> QED
      BY <2>0, <3>1, JobSetType DEF OpenBegin, PumpTypes
  <2> QED
    BY <2>0, <2>5,
       ClientFrame, ServeFrame, BookFrame, CareFrame, WorldFrame
       DEF OpenBegin, clientVars, serveVars, bookVars, careVars, worldVars
<1>22. ASSUME NEW g \in Gens, Created(g) PROVE TypeOK'
  <2>0. Created(g)
    BY <1>22
  <2>5. PumpTypes'
    <3>1. PICK t \in ThreadIds : /\ Hold(g, job[g].session, t)
                                   /\ job' = [job EXCEPT ![g] = [@ EXCEPT !.thread = t]]
      BY <2>0 DEF Created
    <3>2. job[g] \in Jobs
      BY <2>0 DEF Created, PumpTypes, NoJob
    <3>3. job[g].session \in Sessions /\ [job[g] EXCEPT !.thread = t] \in Jobs
      BY <3>2 DEF Jobs
    <3>4. [job[g] EXCEPT !.thread = t].kind # "archive"
      BY <2>0, <3>2 DEF Created, Jobs
    <3>5. job' = [job EXCEPT ![g] = [job[g] EXCEPT !.thread = t]]
      BY <3>1 DEF PumpTypes
    <3>6. threads' \in [Gens -> [Sessions -> {NoThread} \cup ThreadIds]]
      BY <3>1, <3>3, HoldType
    <3>7. /\ job' \in [Gens -> Jobs \cup {NoJob}]
          /\ \A h \in Gens : job'[h].kind = "archive" => job'[h].thread \in ThreadIds
      BY <3>3, <3>4, <3>5, JobSetType
    <3> QED
      BY <2>0, <3>6, <3>7 DEF Created, PumpTypes
  <2>6. WorldTypes'
    <3>1. job[g].session \in Sessions
      BY <2>0 DEF Created, PumpTypes, NoJob, Jobs
    <3>2. g \in 0 .. MaxGens
      BY DEF Gens
    <3> QED
      BY <2>0, <3>1, <3>2 DEF Created, WorldTypes
  <2> QED
    BY <2>0, <2>5, <2>6,
       ClientFrame, ServeFrame, BookFrame, CareFrame
       DEF Created, clientVars, serveVars, bookVars, careVars
<1>23. ASSUME NEW g \in Gens, CreateFails(g) PROVE TypeOK'
  <2>0. CreateFails(g)
    BY <1>23
  <2>5. PumpTypes'
    <3>1. NoJob \in Jobs \cup {NoJob} /\ NoJob.kind # "archive"
      BY DEF NoJob
    <3> QED
      BY <2>0, <3>1, JobSetType DEF CreateFails, PumpTypes
  <2> QED
    BY <2>0, <2>5,
       ClientFrame, ServeFrame, BookFrame, CareFrame, WorldFrame
       DEF CreateFails, clientVars, serveVars, bookVars, careVars, worldVars
<1>24. ASSUME NEW g \in Gens, Opened(g) PROVE TypeOK'
  <2>0. Opened(g)
    BY <1>24
  <2>3. BookTypes'
    <3>1. job[g].session \in Sessions /\ job[g].thread \in ThreadIds
      BY <2>0 DEF Opened, PumpTypes, NoJob, Jobs
    <3> QED
      BY <2>0, <3>1, RecordType DEF Opened
  <2>5. PumpTypes'
    <3>1. NoJob \in Jobs \cup {NoJob} /\ NoJob.kind # "archive"
      BY DEF NoJob
    <3> QED
      BY <2>0, <3>1, JobSetType DEF Opened, PumpTypes
  <2> QED
    BY <2>0, <2>3, <2>5,
       ClientFrame, ServeFrame, CareFrame, WorldFrame
       DEF Opened, clientVars, serveVars, careVars, worldVars
<1>25. ASSUME NEW g \in Gens, AdoptJobBegin(g) PROVE TypeOK'
  <2>0. AdoptJobBegin(g)
    BY <1>25
  <2>5. PumpTypes'
    <3>1. queue' \in [Gens -> Seq(Jobs)] /\ NextJob(g) \in Jobs
      BY <2>0, TakeType DEF AdoptJobBegin
    <3> QED
      BY <2>0, <3>1, JobSetType DEF AdoptJobBegin, PumpTypes
  <2> QED
    BY <2>0, <2>5,
       ClientFrame, ServeFrame, BookFrame, CareFrame, WorldFrame
       DEF AdoptJobBegin, clientVars, serveVars, bookVars, careVars, worldVars
<1>26. ASSUME NEW g \in Gens, Adopted(g) PROVE TypeOK'
  <2>0. Adopted(g)
    BY <1>26
  <2>5. PumpTypes'
    <3>1. job[g].session \in Sessions /\ job[g].thread \in {NoThread} \cup ThreadIds
      BY <2>0 DEF Adopted, PumpTypes, NoJob, Jobs
    <3>2. threads' \in [Gens -> [Sessions -> {NoThread} \cup ThreadIds]]
      BY <2>0, <3>1, HoldType DEF Adopted, PumpTypes
    <3>3. NoJob \in Jobs \cup {NoJob} /\ NoJob.kind # "archive"
      BY DEF NoJob
    <3> QED
      BY <2>0, <3>2, <3>3, JobSetType DEF Adopted, PumpTypes
  <2> QED
    BY <2>0, <2>5,
       ClientFrame, ServeFrame, BookFrame, CareFrame, WorldFrame
       DEF Adopted, clientVars, serveVars, bookVars, careVars, worldVars
<1>27. ASSUME NEW g \in Gens, ArchiveJobBegin(g) PROVE TypeOK'
  <2>0. ArchiveJobBegin(g)
    BY <1>27
  <2>5. PumpTypes'
    <3> DEFINE s == NextJob(g).session
    <3>1. queue' \in [Gens -> Seq(Jobs)] /\ s \in Sessions
      BY <2>0, TakeType DEF ArchiveJobBegin, Jobs
    <3>2. CASE HasThread(g, s)
      <4>1. threads[g][s] \in ThreadIds
        BY <3>1, <3>2 DEF HasThread, PumpTypes
      <4>2. Job("archive", s, threads[g][s]) \in Jobs
        BY <3>1, <4>1, JobType
      <4>3. Job("archive", s, threads[g][s]).thread \in ThreadIds
        BY <4>1 DEF Job
      <4>4. threads' \in [Gens -> [Sessions -> {NoThread} \cup ThreadIds]]
        BY <2>0, <3>1, <3>2, HoldType DEF ArchiveJobBegin
      <4>5. job' = [job EXCEPT ![g] = Job("archive", s, threads[g][s])]
        BY <2>0, <3>2 DEF ArchiveJobBegin
      <4> QED
        BY <3>1, <4>2, <4>3, <4>4, <4>5, JobSetType DEF PumpTypes
    <3>3. CASE ~HasThread(g, s)
      BY <2>0, <3>1, <3>3 DEF ArchiveJobBegin, PumpTypes
    <3> QED
      BY <3>2, <3>3
  <2> QED
    BY <2>0, <2>5,
       ClientFrame, ServeFrame, BookFrame, CareFrame, WorldFrame
       DEF ArchiveJobBegin, clientVars, serveVars, bookVars, careVars, worldVars
<1>28. ASSUME NEW g \in Gens, Archived(g) PROVE TypeOK'
  <2>0. Archived(g)
    BY <1>28
  <2>5. PumpTypes'
    <3>1. NoJob \in Jobs \cup {NoJob} /\ NoJob.kind # "archive"
      BY DEF NoJob
    <3> QED
      BY <2>0, <3>1, JobSetType DEF Archived, PumpTypes
  <2>6. WorldTypes'
    <3>1. job[g].thread \in ThreadIds
      BY <2>0 DEF Archived, PumpTypes
    <3> QED
      BY <2>0, <3>1 DEF Archived, WorldTypes
  <2> QED
    BY <2>0, <2>5, <2>6,
       ClientFrame, ServeFrame, BookFrame, CareFrame
       DEF Archived, clientVars, serveVars, bookVars, careVars
<1>29. CASE UNCHANGED vars
  BY <1>29, ClientFrame, ServeFrame, BookFrame, CareFrame, PumpFrame, WorldFrame
     DEF vars
<1> QED
  BY <1>1, <1>2, <1>3, <1>4, <1>5, <1>6, <1>7, <1>8, <1>9, <1>10, <1>11,
     <1>12, <1>13, <1>14, <1>15, <1>16, <1>17, <1>18, <1>19, <1>20, <1>21,
     <1>22, <1>23, <1>24, <1>25, <1>26, <1>27, <1>28, <1>29
     DEF Next, ClientStep, AcceptStep, SuspectStep, SweepStep, AdoptStep, Pump,
         BrokerStep

\* Type correctness: the brokers, gateways and threads stay in their types,
\* for any number of sessions, brokers and retries.
THEOREM TypeCorrect == Spec => []TypeOK
<1>1. Init => TypeOK
  BY TypeInit
<1>2. TypeOK /\ [Next]_vars => TypeOK'
  BY TypeNext
<1> QED
  BY <1>1, <1>2, PTL DEF Spec

-----------------------------------------------------------------------------
(* Whose threads.  Every thread id the brokers keep belongs to the session *)
(* it is kept for, and every archive on its way is one for a session that  *)
(* ended: that is what makes the archiving of a thread harmless, however   *)
(* late it happens and whichever broker asked for it.                      *)

OwnThread(r, s) == r \in ThreadIds => s \in Sessions /\ owner[r] = s

RightFrames == {f \in Frames : f.kind = "release" => client[f.session] # "live"}
RightJobs ==
  {j \in Jobs : /\ j.kind = "archive" => client[j.session] # "live"
                /\ OwnThread(j.thread, j.session)}

RightServe == /\ wire \in Seq(RightFrames)
              /\ OwnThread(handler.thread, handler.session)
RightBook == \A s \in Sessions : /\ OwnThread(disk[s], s)
                                 /\ \A g \in Gens : OwnThread(reg[g][s], s)
RightCare == /\ \A s \in sweep : client[s] # "live"
             /\ \A st \in toAdopt : OwnThread(st[2], st[1])
RightPump == /\ queue \in [Gens -> Seq(RightJobs)]
             /\ job \in [Gens -> RightJobs \cup {NoJob}]
             /\ \A g \in Gens, s \in Sessions : OwnThread(threads[g][s], s)

RightOwners == TypeOK /\ RightServe /\ RightBook /\ RightCare /\ RightPump

\* No session comes back to life, no thread changes hands.
Onward ==
  /\ \A s \in Sessions : client[s] # "live" => client'[s] # "live"
  /\ \A t \in ThreadIds : owner[t] # NoSession => owner'[t] = owner[t]

LEMMA NoThreadIsNoId == NoThread \notin ThreadIds /\ NoRecord \notin ThreadIds
  BY DEF ThreadIds

LEMMA OwnOnward ==
  ASSUME Onward, NEW r, NEW s \in Sessions, OwnThread(r, s)
  PROVE  OwnThread(r, s)'
  BY DEF Onward, OwnThread

LEMMA SeqGrows ==
  ASSUME NEW A, NEW B, A \subseteq B, NEW q \in Seq(A)
  PROVE  q \in Seq(B)
  BY SeqMonotonic

LEMMA RightGrows ==
  ASSUME Onward
  PROVE  RightFrames \subseteq RightFrames' /\ RightJobs \subseteq RightJobs'
<1>1. RightFrames \subseteq RightFrames'
  BY DEF Onward, RightFrames, Frames
<1>2. ASSUME NEW j \in RightJobs PROVE j \in RightJobs'
  <2>1. j \in Jobs /\ j.session \in Sessions
    BY DEF RightJobs, Jobs
  <2>2. OwnThread(j.thread, j.session)'
    BY <2>1, OwnOnward DEF RightJobs
  <2> QED
    BY <2>1, <2>2 DEF Onward, RightJobs
<1> QED
  BY <1>1, <1>2

LEMMA ServeKeeps ==
  ASSUME ServeTypes, RightServe, Onward, UNCHANGED <<wire, handler>>
  PROVE  RightServe'
<1>1. wire' \in Seq(RightFrames')
  BY RightGrows, SeqGrows DEF RightServe
<1>2. OwnThread(handler.thread, handler.session)'
  BY DEF Onward, OwnThread, RightServe, ServeTypes
<1> QED
  BY <1>1, <1>2 DEF RightServe

LEMMA BookKeeps ==
  ASSUME RightBook, Onward, UNCHANGED <<reg, disk>>
  PROVE  RightBook'
  BY DEF RightBook, Onward, OwnThread

LEMMA CareKeeps ==
  ASSUME CareTypes, RightCare, Onward, UNCHANGED <<sweep, toAdopt>>
  PROVE  RightCare'
  BY DEF CareTypes, RightCare, Onward, OwnThread

LEMMA QueueKeeps ==
  ASSUME queue \in [Gens -> Seq(RightJobs)], Onward, UNCHANGED queue
  PROVE  queue' \in [Gens -> Seq(RightJobs')]
<1>1. \A g \in Gens : queue[g] \in Seq(RightJobs')
  BY RightGrows, SeqGrows
<1> QED
  BY <1>1

LEMMA PumpKeeps ==
  ASSUME RightPump, Onward, UNCHANGED <<queue, job, threads>>
  PROVE  RightPump'
<1>1. queue' \in [Gens -> Seq(RightJobs')]
  BY QueueKeeps DEF RightPump
<1>2. job' \in [Gens -> RightJobs' \cup {NoJob}]
  BY RightGrows DEF RightPump
<1>3. \A g \in Gens, s \in Sessions : OwnThread(threads[g][s], s)'
  BY OwnOnward DEF RightPump, Onward, OwnThread
<1> QED
  BY <1>1, <1>2, <1>3 DEF RightPump

LEMMA Steady ==
  ASSUME UNCHANGED <<client, owner>>
  PROVE  /\ Onward
         /\ RightFrames' = RightFrames /\ RightJobs' = RightJobs
         /\ \A r, s : OwnThread(r, s)' <=> OwnThread(r, s)
<1>1. \A r, s : OwnThread(r, s)' <=> OwnThread(r, s)
  BY DEF OwnThread
<1>2. RightFrames' = RightFrames
  BY DEF RightFrames
<1>3. RightJobs' = RightJobs
  BY <1>1 DEF RightJobs
<1> QED
  BY <1>1, <1>2, <1>3 DEF Onward

LEMMA RightHead ==
  ASSUME RightServe, wire # <<>>
  PROVE  Head(wire) \in RightFrames /\ Tail(wire) \in Seq(RightFrames)
  BY HeadTailProperties DEF RightServe

LEMMA RightTake ==
  ASSUME RightPump, NEW g \in Gens, queue[g] # <<>>, Take(g)
  PROVE  queue' \in [Gens -> Seq(RightJobs)] /\ NextJob(g) \in RightJobs
<1>1. Tail(queue[g]) \in Seq(RightJobs) /\ Head(queue[g]) \in RightJobs
  BY HeadTailProperties DEF RightPump
<1> QED
  BY <1>1 DEF Take, NextJob, RightPump

LEMMA RightSchedule ==
  ASSUME RightPump, NEW g \in Gens, NEW j \in RightJobs, Schedule(g, j)
  PROVE  queue' \in [Gens -> Seq(RightJobs)]
<1>1. Append(queue[g], j) \in Seq(RightJobs)
  BY AppendProperties DEF RightPump
<1> QED
  BY <1>1 DEF Schedule, RightPump

LEMMA RightSave ==
  ASSUME BookTypes, RightBook, NEW g \in Gens, NEW s \in Sessions, NEW r,
         OwnThread(r, s), SaveRecord(g, s, r), UNCHANGED owner
  PROVE  RightBook'
<1>1. disk' = [reg[g] EXCEPT ![s] = r] /\ reg' = [reg EXCEPT ![g] = [reg[g] EXCEPT ![s] = r]]
  BY DEF SaveRecord, BookTypes
<1>2. \A h \in Gens, u \in Sessions :
        reg'[h][u] = IF h = g /\ u = s THEN r ELSE reg[h][u]
  BY <1>1 DEF BookTypes
<1>3. \A u \in Sessions : disk'[u] = IF u = s THEN r ELSE reg[g][u]
  BY <1>1 DEF BookTypes
<1> QED
  BY <1>2, <1>3 DEF RightBook, OwnThread

LEMMA RightRecord ==
  ASSUME BookTypes, RightBook, NEW g \in Gens, NEW s \in Sessions, NEW t,
         OwnThread(t, s), RecordThread(g, s, t), UNCHANGED owner
  PROVE  RightBook'
<1>1. CASE reg[g][s] \in {NoRecord, t}
  BY <1>1 DEF RecordThread, RightBook, OwnThread
<1>2. CASE reg[g][s] \notin {NoRecord, t}
  BY <1>2, RightSave DEF RecordThread
<1> QED
  BY <1>1, <1>2

LEMMA RightHold ==
  ASSUME PumpTypes, RightPump, NEW g \in Gens, NEW s \in Sessions, NEW t,
         Hold(g, s, t), Onward, OwnThread(t, s)'
  PROVE  \A h \in Gens, u \in Sessions : OwnThread(threads[h][u], u)'
<1>1. \A h \in Gens, u \in Sessions :
        threads'[h][u] = IF h = g /\ u = s THEN t ELSE threads[h][u]
  BY DEF Hold, PumpTypes
<1> QED
  BY <1>1, OwnOnward DEF RightPump, OwnThread, Onward

LEMMA RightForget ==
  ASSUME RightOwners, NEW s \in Sessions, client[s] # "live", Forget(s),
         UNCHANGED <<client, owner, job, threads>>
  PROVE  RightBook' /\ RightPump'
<1> USE DEF RightOwners, TypeOK
<1>1. gen \in Gens
  BY DEF ServeTypes
<1>2. RightBook'
  BY <1>1, RightSave, Steady, BookKeeps, NoThreadIsNoId DEF Forget, OwnThread
<1>3. Job("archive", s, NoThread) \in RightJobs
  BY JobType, NoThreadIsNoId DEF RightJobs, OwnThread, Job
<1>4. queue' \in [Gens -> Seq(RightJobs)]
  BY <1>1, <1>3, RightSchedule DEF Forget
<1> QED
  BY <1>2, <1>4, Steady DEF RightPump, OwnThread

-----------------------------------------------------------------------------
LEMMA OnwardNext == TypeOK /\ [Next]_vars => Onward
<1> SUFFICES ASSUME TypeOK, [Next]_vars PROVE Onward
  OBVIOUS
<1> USE DEF TypeOK
<1>1. ASSUME NEW s \in Sessions, SendRegister(s) PROVE Onward
  BY <1>1, Steady DEF SendRegister, clientVars, worldVars
<1>2. ASSUME NEW s \in Sessions, SendRelease(s) PROVE Onward
  BY <1>2 DEF SendRelease, Onward, worldVars, ClientTypes
<1>3. ASSUME NEW s \in Sessions, Die(s) PROVE Onward
  BY <1>3 DEF Die, Onward, worldVars, ClientTypes
<1>4. ASSUME BeginRegister PROVE Onward
  BY <1>4, Steady DEF BeginRegister, clientVars, worldVars
<1>5. ASSUME Upsert PROVE Onward
  BY <1>5, Steady DEF Upsert, clientVars, worldVars
<1>6. ASSUME Claim PROVE Onward
  BY <1>6, Steady DEF Claim, clientVars, worldVars
<1>7. ASSUME OpenThread PROVE Onward
  BY <1>7, Steady DEF OpenThread, clientVars, worldVars
<1>8. ASSUME Release PROVE Onward
  BY <1>8, Steady DEF Release, clientVars, worldVars
<1>9. ASSUME RefuseRelease PROVE Onward
  BY <1>9, Steady DEF RefuseRelease, clientVars, worldVars
<1>10. ASSUME NEW s \in Sessions, Suspect(s) PROVE Onward
  BY <1>10, Steady DEF Suspect, clientVars, worldVars
<1>11. ASSUME NEW s \in Sessions, HearFrom(s) PROVE Onward
  BY <1>11, Steady DEF HearFrom, clientVars, worldVars
<1>12. ASSUME SweepCollect PROVE Onward
  BY <1>12, Steady DEF SweepCollect, clientVars, worldVars
<1>13. ASSUME NEW s \in Sessions, SweepNext(s) PROVE Onward
  BY <1>13, Steady DEF SweepNext, clientVars, worldVars
<1>14. ASSUME AdoptBegin PROVE Onward
  BY <1>14, Steady DEF AdoptBegin, clientVars, worldVars
<1>15. ASSUME AdoptNext PROVE Onward
  BY <1>15, Steady DEF AdoptNext, clientVars, worldVars
<1>16. ASSUME StandDown PROVE Onward
  BY <1>16, Steady DEF StandDown, clientVars, worldVars
<1>17. ASSUME Elect PROVE Onward
  BY <1>17, Steady DEF Elect, clientVars, worldVars
<1>18. ASSUME Restart PROVE Onward
  BY <1>18, Steady DEF Restart, clientVars, worldVars
<1>19. ASSUME NEW g \in Gens, Crash(g) PROVE Onward
  BY <1>19, Steady DEF Crash, clientVars, worldVars
<1>20. ASSUME NEW g \in Gens, OpenExisting(g) PROVE Onward
  BY <1>20, Steady DEF OpenExisting, clientVars, worldVars
<1>21. ASSUME NEW g \in Gens, OpenBegin(g) PROVE Onward
  BY <1>21, Steady DEF OpenBegin, clientVars, worldVars
<1>22. ASSUME NEW g \in Gens, Created(g) PROVE Onward
  BY <1>22 DEF Created, Onward, clientVars, WorldTypes
<1>23. ASSUME NEW g \in Gens, CreateFails(g) PROVE Onward
  BY <1>23, Steady DEF CreateFails, clientVars, worldVars
<1>24. ASSUME NEW g \in Gens, Opened(g) PROVE Onward
  BY <1>24, Steady DEF Opened, clientVars, worldVars
<1>25. ASSUME NEW g \in Gens, AdoptJobBegin(g) PROVE Onward
  BY <1>25, Steady DEF AdoptJobBegin, clientVars, worldVars
<1>26. ASSUME NEW g \in Gens, Adopted(g) PROVE Onward
  BY <1>26, Steady DEF Adopted, clientVars, worldVars
<1>27. ASSUME NEW g \in Gens, ArchiveJobBegin(g) PROVE Onward
  BY <1>27, Steady DEF ArchiveJobBegin, clientVars, worldVars
<1>28. ASSUME NEW g \in Gens, Archived(g) PROVE Onward
  BY <1>28, Steady DEF Archived, clientVars, worldVars
<1>29. CASE UNCHANGED vars
  BY <1>29, Steady DEF vars, clientVars, worldVars
<1> QED
  BY <1>1, <1>2, <1>3, <1>4, <1>5, <1>6, <1>7, <1>8, <1>9, <1>10, <1>11,
     <1>12, <1>13, <1>14, <1>15, <1>16, <1>17, <1>18, <1>19, <1>20, <1>21,
     <1>22, <1>23, <1>24, <1>25, <1>26, <1>27, <1>28, <1>29
     DEF Next, ClientStep, AcceptStep, SuspectStep, SweepStep, AdoptStep, Pump,
         BrokerStep

LEMMA RightInit == Init => RightOwners
<1> SUFFICES ASSUME Init PROVE RightOwners
  OBVIOUS
<1> USE NoThreadIsNoId DEF Init, OwnThread
<1>1. RightServe
  BY EmptySeq DEF RightServe, IdleLoop
<1>2. RightBook /\ RightCare
  BY DEF RightBook, RightCare
<1>3. RightPump
  BY EmptySeq DEF RightPump
<1> QED
  BY <1>1, <1>2, <1>3, TypeInit DEF RightOwners

LEMMA RightNext == RightOwners /\ [Next]_vars => RightOwners'
<1> SUFFICES ASSUME RightOwners, [Next]_vars PROVE RightOwners'
  OBVIOUS
<1>0. TypeOK /\ TypeOK' /\ Onward
  BY TypeNext, OnwardNext DEF RightOwners
<1> USE DEF RightOwners, TypeOK
<1>1. ASSUME NEW s \in Sessions, SendRegister(s) PROVE RightOwners'
  <2>0. SendRegister(s)
    BY <1>1
  <2>9. Onward
    BY <1>0
  <2>1. RightServe'
    <3>0. UNCHANGED <<client, owner>>
      BY <2>0 DEF SendRegister, clientVars, worldVars
    <3>1. Frame("register", s) \in RightFrames
      BY FrameType DEF RightFrames, Frame
    <3>2. wire' \in Seq(RightFrames)
      BY <2>0, <3>1, AppendProperties DEF SendRegister, RightServe
    <3> QED
      BY <2>0, <3>0, <3>2, Steady DEF SendRegister, RightServe
  <2>2. RightBook'
    BY <2>0, <2>9, BookKeeps DEF SendRegister, bookVars
  <2>3. RightCare'
    BY <2>0, <2>9, CareKeeps DEF SendRegister, careVars
  <2>4. RightPump'
    BY <2>0, <2>9, PumpKeeps DEF SendRegister, pumpVars
  <2> QED
    BY <1>0, <2>1, <2>2, <2>3, <2>4
<1>2. ASSUME NEW s \in Sessions, SendRelease(s) PROVE RightOwners'
  <2>0. SendRelease(s)
    BY <1>2
  <2>9. Onward
    BY <1>0
  <2>1. RightServe'
    <3>1. Frame("release", s) \in RightFrames'
      BY <2>0, FrameType DEF SendRelease, RightFrames, Frame, ClientTypes
    <3>2. wire \in Seq(RightFrames')
      BY <2>9, RightGrows, SeqGrows DEF RightServe
    <3>3. wire' \in Seq(RightFrames')
      BY <2>0, <3>1, <3>2, AppendProperties DEF SendRelease
    <3>4. UNCHANGED <<handler, owner>>
      BY <2>0 DEF SendRelease, worldVars
    <3> QED
      BY <3>3, <3>4 DEF RightServe, OwnThread
  <2>2. RightBook'
    BY <2>0, <2>9, BookKeeps DEF SendRelease, bookVars
  <2>3. RightCare'
    BY <2>0, <2>9, CareKeeps DEF SendRelease, careVars
  <2>4. RightPump'
    BY <2>0, <2>9, PumpKeeps DEF SendRelease, pumpVars
  <2> QED
    BY <1>0, <2>1, <2>2, <2>3, <2>4
<1>3. ASSUME NEW s \in Sessions, Die(s) PROVE RightOwners'
  <2>0. Die(s)
    BY <1>3
  <2>9. Onward
    BY <1>0
  <2>1. RightServe'
    BY <2>0, <2>9, ServeKeeps DEF Die, serveVars
  <2>2. RightBook'
    BY <2>0, <2>9, BookKeeps DEF Die, bookVars
  <2>3. RightCare'
    BY <2>0, <2>9, CareKeeps DEF Die, careVars
  <2>4. RightPump'
    BY <2>0, <2>9, PumpKeeps DEF Die, pumpVars
  <2> QED
    BY <1>0, <2>1, <2>2, <2>3, <2>4
<1>4. ASSUME BeginRegister PROVE RightOwners'
  <2>0. BeginRegister
    BY <1>4
  <2>9. Onward
    BY <1>0
  <2>1. RightServe'
    <3>0. UNCHANGED <<client, owner>>
      BY <2>0 DEF BeginRegister, clientVars, worldVars
    <3>1. Tail(wire) \in Seq(RightFrames) /\ Head(wire).session \in Sessions
      BY <2>0, RightHead, WireType DEF BeginRegister
    <3>2. OwnThread(KeepThread(Head(wire).session), Head(wire).session)
      BY <3>1, NoThreadIsNoId DEF KeepThread, OwnThread, RightBook, ServeTypes
    <3> QED
      BY <2>0, <3>0, <3>1, <3>2, Steady DEF BeginRegister, RightServe
  <2>2. RightBook'
    BY <2>0, <2>9, BookKeeps DEF BeginRegister, bookVars
  <2>3. RightCare'
    BY <2>0, <2>9, CareKeeps DEF BeginRegister, careVars
  <2>4. RightPump'
    BY <2>0, <2>9, PumpKeeps DEF BeginRegister, pumpVars
  <2> QED
    BY <1>0, <2>1, <2>2, <2>3, <2>4
<1>5. ASSUME Upsert PROVE RightOwners'
  <2>0. Upsert
    BY <1>5
  <2>9. Onward
    BY <1>0
  <2>1. RightServe'
    <3>0. UNCHANGED <<client, owner>>
      BY <2>0 DEF Upsert, clientVars, worldVars
    <3>1. wire' = wire /\ handler'.thread = handler.thread /\ handler'.session = handler.session
      BY <2>0 DEF Upsert, ServeTypes
    <3> QED
      BY <3>0, <3>1, Steady DEF RightServe, OwnThread
  <2>2. RightBook'
    <3>1. handler.session \in Sessions /\ gen \in Gens
      BY <2>0 DEF Upsert, ServeTypes
    <3> QED
      BY <2>0, <3>1, RightSave DEF Upsert, RightServe, worldVars
  <2>3. RightCare'
    BY <2>0, <2>9, CareKeeps DEF Upsert, careVars
  <2>4. RightPump'
    BY <2>0, <2>9, PumpKeeps DEF Upsert, pumpVars
  <2> QED
    BY <1>0, <2>1, <2>2, <2>3, <2>4
<1>6. ASSUME Claim PROVE RightOwners'
  <2>0. Claim
    BY <1>6
  <2>9. Onward
    BY <1>0
  <2>1. RightServe'
    <3>0. UNCHANGED <<client, owner>>
      BY <2>0 DEF Claim, clientVars, worldVars
    <3>1. wire' = wire /\ (handler' = IdleLoop \/
            (handler'.thread = handler.thread /\ handler'.session = handler.session))
      BY <2>0 DEF Claim, ServeTypes
    <3> QED
      BY <3>0, <3>1, Steady, NoThreadIsNoId DEF RightServe, OwnThread, IdleLoop
  <2>2. RightBook'
    BY <2>0, <2>9, BookKeeps DEF Claim, bookVars
  <2>3. RightCare'
    BY <2>0, <2>9, CareKeeps DEF Claim, careVars
  <2>4. RightPump'
    BY <2>0, <2>9, PumpKeeps DEF Claim, pumpVars
  <2> QED
    BY <1>0, <2>1, <2>2, <2>3, <2>4
<1>7. ASSUME OpenThread PROVE RightOwners'
  <2>0. OpenThread
    BY <1>7
  <2>9. Onward
    BY <1>0
  <2>1. RightServe'
    <3>0. UNCHANGED <<client, owner>>
      BY <2>0 DEF OpenThread, clientVars, worldVars
    <3> QED
      BY <2>0, <3>0, Steady, NoThreadIsNoId DEF OpenThread, RightServe, OwnThread, IdleLoop
  <2>2. RightBook'
    BY <2>0, <2>9, BookKeeps DEF OpenThread, bookVars
  <2>3. RightCare'
    BY <2>0, <2>9, CareKeeps DEF OpenThread, careVars
  <2>4. RightPump'
    <3>0. UNCHANGED <<client, owner>>
      BY <2>0 DEF OpenThread, clientVars, worldVars
    <3>1. Job("open", handler.session, NoThread) \in RightJobs /\ gen \in Gens
      BY <2>0, JobType, NoThreadIsNoId DEF OpenThread, ServeTypes, RightJobs, Job, OwnThread
    <3>2. queue' \in [Gens -> Seq(RightJobs)]
      BY <2>0, <3>1, RightSchedule DEF OpenThread
    <3> QED
      BY <2>0, <3>0, <3>2, Steady DEF OpenThread, RightPump, OwnThread
  <2> QED
    BY <1>0, <2>1, <2>2, <2>3, <2>4
<1>8. ASSUME Release PROVE RightOwners'
  <2>0. Release
    BY <1>8
  <2>9. Onward
    BY <1>0
  <2>1. RightServe'
    <3>0. UNCHANGED <<client, owner>>
      BY <2>0 DEF Release, clientVars, worldVars
    <3>1. Tail(wire) \in Seq(RightFrames)
      BY <2>0, RightHead DEF Release
    <3> QED
      BY <2>0, <3>0, <3>1, Steady DEF Release, RightServe, OwnThread
  <2>2. RightBook'
    <3>0. UNCHANGED <<client, owner>>
      BY <2>0 DEF Release, clientVars, worldVars
    <3>1. Head(wire).session \in Sessions /\ client[Head(wire).session] # "live"
      BY <2>0, RightHead, WireType DEF Release, RightFrames
    <3> QED
      BY <2>0, <3>0, <3>1, RightForget DEF Release, RightOwners
  <2>3. RightCare'
    BY <2>0, <2>9, CareKeeps DEF Release, careVars
  <2>4. RightPump'
    <3>0. UNCHANGED <<client, owner>>
      BY <2>0 DEF Release, clientVars, worldVars
    <3>1. Head(wire).session \in Sessions /\ client[Head(wire).session] # "live"
      BY <2>0, RightHead, WireType DEF Release, RightFrames
    <3> QED
      BY <2>0, <3>0, <3>1, RightForget DEF Release, RightOwners
  <2> QED
    BY <1>0, <2>1, <2>2, <2>3, <2>4
<1>9. ASSUME RefuseRelease PROVE RightOwners'
  <2>0. RefuseRelease
    BY <1>9
  <2>9. Onward
    BY <1>0
  <2>1. RightServe'
    <3>0. UNCHANGED <<client, owner>>
      BY <2>0 DEF RefuseRelease, clientVars, worldVars
    <3> DEFINE s == Head(wire).session
    <3>1. Tail(wire) \in Seq(RightFrames) /\ s \in Sessions
      BY <2>0, RightHead, WireType DEF RefuseRelease
    <3>2. ASSUME client[s] = "closing" PROVE wire' \in Seq(RightFrames)
      <4>1. Frame("register", s) \in RightFrames /\ Frame("release", s) \in RightFrames
        BY <3>1, <3>2, FrameType DEF RightFrames, Frame
      <4>2. <<Frame("register", s), Frame("release", s)>> \in Seq(RightFrames)
        BY <4>1
      <4>3. Tail(wire) \o <<Frame("register", s), Frame("release", s)>> \in Seq(RightFrames)
        BY <3>1, <4>2, ConcatProperties
      <4> QED
        BY <2>0, <3>1, <4>3 DEF RefuseRelease
    <3>3. ASSUME client[s] # "closing" PROVE wire' \in Seq(RightFrames)
      BY <2>0, <3>1, <3>3 DEF RefuseRelease
    <3>4. wire' \in Seq(RightFrames)
      BY <3>2, <3>3
    <3> QED
      BY <2>0, <3>0, <3>4, Steady DEF RefuseRelease, RightServe, OwnThread
  <2>2. RightBook'
    BY <2>0, <2>9, BookKeeps DEF RefuseRelease, bookVars
  <2>3. RightCare'
    BY <2>0, <2>9, CareKeeps DEF RefuseRelease, careVars
  <2>4. RightPump'
    BY <2>0, <2>9, PumpKeeps DEF RefuseRelease, pumpVars
  <2> QED
    BY <1>0, <2>1, <2>2, <2>3, <2>4
<1>10. ASSUME NEW s \in Sessions, Suspect(s) PROVE RightOwners'
  <2>0. Suspect(s)
    BY <1>10
  <2>9. Onward
    BY <1>0
  <2>1. RightServe'
    BY <2>0, <2>9, ServeKeeps DEF Suspect, serveVars
  <2>2. RightBook'
    BY <2>0, <2>9, BookKeeps DEF Suspect, bookVars
  <2>3. RightCare'
    BY <2>0, <2>9, CareKeeps DEF Suspect, careVars
  <2>4. RightPump'
    BY <2>0, <2>9, PumpKeeps DEF Suspect, pumpVars
  <2> QED
    BY <1>0, <2>1, <2>2, <2>3, <2>4
<1>11. ASSUME NEW s \in Sessions, HearFrom(s) PROVE RightOwners'
  <2>0. HearFrom(s)
    BY <1>11
  <2>9. Onward
    BY <1>0
  <2>1. RightServe'
    BY <2>0, <2>9, ServeKeeps DEF HearFrom, serveVars
  <2>2. RightBook'
    BY <2>0, <2>9, BookKeeps DEF HearFrom, bookVars
  <2>3. RightCare'
    BY <2>0, <2>9, CareKeeps DEF HearFrom, careVars
  <2>4. RightPump'
    BY <2>0, <2>9, PumpKeeps DEF HearFrom, pumpVars
  <2> QED
    BY <1>0, <2>1, <2>2, <2>3, <2>4
<1>12. ASSUME SweepCollect PROVE RightOwners'
  <2>0. SweepCollect
    BY <1>12
  <2>9. Onward
    BY <1>0
  <2>1. RightServe'
    BY <2>0, <2>9, ServeKeeps DEF SweepCollect, serveVars
  <2>2. RightBook'
    BY <2>0, <2>9, BookKeeps DEF SweepCollect, bookVars
  <2>3. RightCare'
    <3>0. UNCHANGED <<client, owner>>
      BY <2>0 DEF SweepCollect, clientVars, worldVars
    <3>1. \A s \in sweep' : client[s] # "live"
      BY <2>0 DEF SweepCollect, ReallyGone
    <3> QED
      BY <2>0, <3>0, <3>1, Steady DEF SweepCollect, RightCare, OwnThread
  <2>4. RightPump'
    BY <2>0, <2>9, PumpKeeps DEF SweepCollect, pumpVars
  <2> QED
    BY <1>0, <2>1, <2>2, <2>3, <2>4
<1>13. ASSUME NEW s \in Sessions, SweepNext(s) PROVE RightOwners'
  <2>0. SweepNext(s)
    BY <1>13
  <2>9. Onward
    BY <1>0
  <2>1. RightServe'
    BY <2>0, <2>9, ServeKeeps DEF SweepNext, serveVars
  <2>2. RightBook'
    <3>0. UNCHANGED <<client, owner>>
      BY <2>0 DEF SweepNext, clientVars, worldVars
    <3>1. client[s] # "live"
      BY <2>0 DEF SweepNext, RightCare
    <3> QED
      BY <2>0, <3>0, <3>1, RightForget DEF SweepNext, RightOwners
  <2>3. RightCare'
    <3>0. UNCHANGED <<client, owner>>
      BY <2>0 DEF SweepNext, clientVars, worldVars
    <3> QED
      BY <2>0, <3>0, Steady DEF SweepNext, RightCare, OwnThread
  <2>4. RightPump'
    <3>0. UNCHANGED <<client, owner>>
      BY <2>0 DEF SweepNext, clientVars, worldVars
    <3>1. client[s] # "live"
      BY <2>0 DEF SweepNext, RightCare
    <3> QED
      BY <2>0, <3>0, <3>1, RightForget DEF SweepNext, RightOwners
  <2> QED
    BY <1>0, <2>1, <2>2, <2>3, <2>4
<1>14. ASSUME AdoptBegin PROVE RightOwners'
  <2>0. AdoptBegin
    BY <1>14
  <2>9. Onward
    BY <1>0
  <2>1. RightServe'
    BY <2>0, <2>9, ServeKeeps DEF AdoptBegin, serveVars
  <2>2. RightBook'
    BY <2>0, <2>9, BookKeeps DEF AdoptBegin, bookVars
  <2>3. RightCare'
    <3>0. UNCHANGED <<client, owner>>
      BY <2>0 DEF AdoptBegin, clientVars, worldVars
    <3>1. \A x \in toAdopt' : OwnThread(x[2], x[1])
      BY <2>0 DEF AdoptBegin, RightBook, ServeTypes, OwnThread
    <3> QED
      BY <2>0, <3>0, <3>1, Steady DEF AdoptBegin, RightCare, OwnThread
  <2>4. RightPump'
    BY <2>0, <2>9, PumpKeeps DEF AdoptBegin, pumpVars
  <2> QED
    BY <1>0, <2>1, <2>2, <2>3, <2>4
<1>15. ASSUME AdoptNext PROVE RightOwners'
  <2>0. AdoptNext
    BY <1>15
  <2>9. Onward
    BY <1>0
  <2>1. RightServe'
    BY <2>0, <2>9, ServeKeeps DEF AdoptNext, serveVars
  <2>2. RightBook'
    BY <2>0, <2>9, BookKeeps DEF AdoptNext, bookVars
  <2>3. RightCare'
    <3>0. UNCHANGED <<client, owner>>
      BY <2>0 DEF AdoptNext, clientVars, worldVars
    <3>1. toAdopt' \subseteq toAdopt /\ sweep' = sweep
      BY <2>0 DEF AdoptNext
    <3> QED
      BY <3>0, <3>1, Steady DEF RightCare, OwnThread
  <2>4. RightPump'
    <3>0. UNCHANGED <<client, owner>>
      BY <2>0 DEF AdoptNext, clientVars, worldVars
    <3>1. queue' = queue \/ \E x \in toAdopt : Schedule(gen, Job("adopt", x[1], x[2]))
      BY <2>0 DEF AdoptNext
    <3>2. \A x \in toAdopt : Job("adopt", x[1], x[2]) \in RightJobs
      BY JobType DEF CareTypes, RightCare, RightJobs, Job, OwnThread
    <3>3. gen \in Gens
      BY DEF ServeTypes
    <3>4. queue' \in [Gens -> Seq(RightJobs)]
      BY <3>1, <3>2, <3>3, RightSchedule DEF RightPump
    <3> QED
      BY <2>0, <3>0, <3>4, Steady DEF AdoptNext, RightPump, OwnThread
  <2> QED
    BY <1>0, <2>1, <2>2, <2>3, <2>4
<1>16. ASSUME StandDown PROVE RightOwners'
  <2>0. StandDown
    BY <1>16
  <2>9. Onward
    BY <1>0
  <2>1. RightServe'
    <3>0. UNCHANGED <<client, owner>>
      BY <2>0 DEF StandDown, clientVars, worldVars
    <3> QED
      BY <2>0, <3>0, Steady, EmptySeq DEF StandDown, RightServe, OwnThread
  <2>2. RightBook'
    BY <2>0, <2>9, BookKeeps DEF StandDown, bookVars
  <2>3. RightCare'
    BY <2>0, <2>9, CareKeeps DEF StandDown, careVars
  <2>4. RightPump'
    BY <2>0, <2>9, PumpKeeps DEF StandDown, pumpVars
  <2> QED
    BY <1>0, <2>1, <2>2, <2>3, <2>4
<1>17. ASSUME Elect PROVE RightOwners'
  <2>0. Elect
    BY <1>17
  <2>9. Onward
    BY <1>0
  <2>1. RightServe'
    <3>0. UNCHANGED <<client, owner>>
      BY <2>0 DEF Elect, clientVars, worldVars
    <3> QED
      BY <2>0, <3>0, Steady DEF Elect, RightServe, OwnThread
  <2>2. RightBook'
    <3>0. UNCHANGED <<client, owner>>
      BY <2>0 DEF Elect, clientVars, worldVars
    <3>1. disk' = disk /\ \A h \in Gens : reg'[h] \in {reg[h], disk}
      BY <2>0 DEF Elect, BookTypes
    <3>2. \A s \in Sessions : /\ OwnThread(disk'[s], s)
                             /\ \A h \in Gens : OwnThread(reg'[h][s], s)
      <4> SUFFICES ASSUME NEW s \in Sessions
                   PROVE  /\ OwnThread(disk'[s], s)
                          /\ \A h \in Gens : OwnThread(reg'[h][s], s)
        OBVIOUS
      <4>1. disk' = disk /\ \A h \in Gens : reg'[h] = reg[h] \/ reg'[h] = disk
        BY <3>1
      <4>2. OwnThread(disk[s], s) /\ \A h \in Gens : OwnThread(reg[h][s], s)
        BY DEF RightBook
      <4>3. OwnThread(disk'[s], s)
        BY <4>1, <4>2
      <4>4. ASSUME NEW h \in Gens PROVE OwnThread(reg'[h][s], s)
        <5>1. CASE reg'[h] = reg[h]
          BY <4>2, <5>1
        <5>2. CASE reg'[h] = disk
          BY <4>2, <5>2
        <5> QED
          BY <4>1, <5>1, <5>2
      <4> QED
        BY <4>3, <4>4
    <3> QED
      BY <3>0, <3>2 DEF RightBook, OwnThread
  <2>3. RightCare'
    BY <2>0, <2>9, CareKeeps DEF Elect, careVars
  <2>4. RightPump'
    BY <2>0, <2>9, PumpKeeps DEF Elect, pumpVars
  <2> QED
    BY <1>0, <2>1, <2>2, <2>3, <2>4
<1>18. ASSUME Restart PROVE RightOwners'
  <2>0. Restart
    BY <1>18
  <2>9. Onward
    BY <1>0
  <2>1. RightServe'
    <3>0. UNCHANGED <<client, owner>>
      BY <2>0 DEF Restart, clientVars, worldVars
    <3> QED
      BY <2>0, <3>0, Steady, EmptySeq, NoThreadIsNoId DEF Restart, RightServe, OwnThread, IdleLoop
  <2>2. RightBook'
    <3>0. UNCHANGED <<client, owner>>
      BY <2>0 DEF Restart, clientVars, worldVars
    <3>1. disk' = disk /\ \A h \in Gens : reg'[h] \in {reg[h], disk}
      BY <2>0 DEF Restart, BookTypes
    <3>2. \A s \in Sessions : /\ OwnThread(disk'[s], s)
                             /\ \A h \in Gens : OwnThread(reg'[h][s], s)
      <4> SUFFICES ASSUME NEW s \in Sessions
                   PROVE  /\ OwnThread(disk'[s], s)
                          /\ \A h \in Gens : OwnThread(reg'[h][s], s)
        OBVIOUS
      <4>1. disk' = disk /\ \A h \in Gens : reg'[h] = reg[h] \/ reg'[h] = disk
        BY <3>1
      <4>2. OwnThread(disk[s], s) /\ \A h \in Gens : OwnThread(reg[h][s], s)
        BY DEF RightBook
      <4>3. OwnThread(disk'[s], s)
        BY <4>1, <4>2
      <4>4. ASSUME NEW h \in Gens PROVE OwnThread(reg'[h][s], s)
        <5>1. CASE reg'[h] = reg[h]
          BY <4>2, <5>1
        <5>2. CASE reg'[h] = disk
          BY <4>2, <5>2
        <5> QED
          BY <4>1, <5>1, <5>2
      <4> QED
        BY <4>3, <4>4
    <3> QED
      BY <3>0, <3>2 DEF RightBook, OwnThread
  <2>3. RightCare'
    BY <2>0, <2>9, CareKeeps DEF Restart, careVars
  <2>4. RightPump'
    BY <2>0, <2>9, PumpKeeps DEF Restart, pumpVars
  <2> QED
    BY <1>0, <2>1, <2>2, <2>3, <2>4
<1>19. ASSUME NEW g \in Gens, Crash(g) PROVE RightOwners'
  <2>0. Crash(g)
    BY <1>19
  <2>9. Onward
    BY <1>0
  <2>1. RightServe'
    <3>0. UNCHANGED <<client, owner>>
      BY <2>0 DEF Crash, clientVars, worldVars
    <3>1. wire' \in Seq(RightFrames)
      BY <2>0, EmptySeq DEF Crash, RightServe
    <3>2. handler' = handler \/ handler' = IdleLoop
      BY <2>0 DEF Crash
    <3> QED
      BY <3>0, <3>1, <3>2, Steady, NoThreadIsNoId DEF RightServe, OwnThread, IdleLoop
  <2>2. RightBook'
    BY <2>0, <2>9, BookKeeps DEF Crash, bookVars
  <2>3. RightCare'
    <3>0. UNCHANGED <<client, owner>>
      BY <2>0 DEF Crash, clientVars, worldVars
    <3>1. sweep' \subseteq sweep /\ toAdopt' \subseteq toAdopt
      BY <2>0 DEF Crash, careVars
    <3> QED
      BY <3>0, <3>1, Steady DEF RightCare, OwnThread
  <2>4. RightPump'
    <3>0. UNCHANGED <<client, owner>>
      BY <2>0 DEF Crash, clientVars, worldVars
    <3>1. queue' \in [Gens -> Seq(RightJobs)]
      BY <2>0, EmptySeq DEF Crash, RightPump
    <3>2. job' \in [Gens -> RightJobs \cup {NoJob}]
      BY <2>0 DEF Crash, RightPump
    <3>3. \A h \in Gens, s \in Sessions : threads'[h][s] \in {threads[h][s], NoThread}
      BY <2>0 DEF Crash, PumpTypes
    <3>4. \A h \in Gens, s \in Sessions : OwnThread(threads'[h][s], s)
      BY <3>3, NoThreadIsNoId DEF RightPump, OwnThread
    <3>5. \A h \in Gens, s \in Sessions : OwnThread(threads[h][s], s)'
      BY <3>0, <3>4 DEF OwnThread
    <3> QED
      BY <3>0, <3>1, <3>2, <3>5, Steady DEF RightPump
  <2> QED
    BY <1>0, <2>1, <2>2, <2>3, <2>4
<1>20. ASSUME NEW g \in Gens, OpenExisting(g) PROVE RightOwners'
  <2>0. OpenExisting(g)
    BY <1>20
  <2>9. Onward
    BY <1>0
  <2>1. RightServe'
    BY <2>0, <2>9, ServeKeeps DEF OpenExisting, serveVars
  <2>2. RightBook'
    <3>1. NextJob(g).session \in Sessions
      BY <2>0, TakeType DEF OpenExisting, Jobs
    <3>2. OwnThread(threads[g][NextJob(g).session], NextJob(g).session)
      BY <3>1 DEF RightPump
    <3> QED
      BY <2>0, <3>1, <3>2, RightRecord DEF OpenExisting, worldVars
  <2>3. RightCare'
    BY <2>0, <2>9, CareKeeps DEF OpenExisting, careVars
  <2>4. RightPump'
    <3>0. UNCHANGED <<client, owner>>
      BY <2>0 DEF OpenExisting, clientVars, worldVars
    <3>1. queue' \in [Gens -> Seq(RightJobs)]
      BY <2>0, RightTake DEF OpenExisting
    <3> QED
      BY <2>0, <3>0, <3>1, Steady DEF OpenExisting, RightPump, OwnThread
  <2> QED
    BY <1>0, <2>1, <2>2, <2>3, <2>4
<1>21. ASSUME NEW g \in Gens, OpenBegin(g) PROVE RightOwners'
  <2>0. OpenBegin(g)
    BY <1>21
  <2>9. Onward
    BY <1>0
  <2>1. RightServe'
    BY <2>0, <2>9, ServeKeeps DEF OpenBegin, serveVars
  <2>2. RightBook'
    BY <2>0, <2>9, BookKeeps DEF OpenBegin, bookVars
  <2>3. RightCare'
    BY <2>0, <2>9, CareKeeps DEF OpenBegin, careVars
  <2>4. RightPump'
    <3>0. UNCHANGED <<client, owner>>
      BY <2>0 DEF OpenBegin, clientVars, worldVars
    <3>1. queue' \in [Gens -> Seq(RightJobs)] /\ NextJob(g) \in RightJobs
      BY <2>0, RightTake DEF OpenBegin
    <3>2. job' \in [Gens -> RightJobs \cup {NoJob}]
      BY <2>0, <3>1 DEF OpenBegin, RightPump
    <3> QED
      BY <2>0, <3>0, <3>1, <3>2, Steady DEF OpenBegin, RightPump, OwnThread
  <2> QED
    BY <1>0, <2>1, <2>2, <2>3, <2>4
<1>22. ASSUME NEW g \in Gens, Created(g) PROVE RightOwners'
  <2>0. Created(g)
    BY <1>22
  <2>9. Onward
    BY <1>0
  <2>1. RightServe'
    BY <2>0, <2>9, ServeKeeps DEF Created, serveVars
  <2>2. RightBook'
    BY <2>0, <2>9, BookKeeps DEF Created, bookVars
  <2>3. RightCare'
    BY <2>0, <2>9, CareKeeps DEF Created, careVars
  <2>4. RightPump'
    <3>1. PICK t \in ThreadIds : /\ Hold(g, job[g].session, t)
                                   /\ owner[t] = NoSession
                                   /\ owner' = [owner EXCEPT ![t] = job[g].session]
                                   /\ job' = [job EXCEPT ![g] = [job[g] EXCEPT !.thread = t]]
      BY <2>0 DEF Created, PumpTypes
    <3>2. job[g] \in RightJobs /\ job[g] \in Jobs /\ job[g].session \in Sessions
      BY <2>0 DEF Created, RightPump, NoJob, RightJobs, Jobs
    <3>3. OwnThread(t, job[g].session)'
      BY <3>1, <3>2 DEF OwnThread, WorldTypes
    <3>4. [job[g] EXCEPT !.thread = t] \in RightJobs'
      BY <2>0, <3>1, <3>2, <3>3 DEF Created, RightJobs, Jobs, OwnThread
    <3>5. job' \in [Gens -> RightJobs' \cup {NoJob}]
      BY <2>9, <3>1, <3>4, RightGrows DEF RightPump
    <3>6. \A h \in Gens, s \in Sessions : OwnThread(threads[h][s], s)'
      BY <2>9, <3>1, <3>2, <3>3, RightHold
    <3>7. queue' \in [Gens -> Seq(RightJobs')]
      BY <2>0, <2>9, QueueKeeps DEF Created, RightPump
    <3> QED
      BY <3>5, <3>6, <3>7 DEF RightPump
  <2> QED
    BY <1>0, <2>1, <2>2, <2>3, <2>4
<1>23. ASSUME NEW g \in Gens, CreateFails(g) PROVE RightOwners'
  <2>0. CreateFails(g)
    BY <1>23
  <2>9. Onward
    BY <1>0
  <2>1. RightServe'
    BY <2>0, <2>9, ServeKeeps DEF CreateFails, serveVars
  <2>2. RightBook'
    BY <2>0, <2>9, BookKeeps DEF CreateFails, bookVars
  <2>3. RightCare'
    BY <2>0, <2>9, CareKeeps DEF CreateFails, careVars
  <2>4. RightPump'
    <3>0. UNCHANGED <<client, owner>>
      BY <2>0 DEF CreateFails, clientVars, worldVars
    <3>1. job' \in [Gens -> RightJobs \cup {NoJob}]
      BY <2>0 DEF CreateFails, RightPump
    <3> QED
      BY <2>0, <3>0, <3>1, Steady DEF CreateFails, RightPump, OwnThread
  <2> QED
    BY <1>0, <2>1, <2>2, <2>3, <2>4
<1>24. ASSUME NEW g \in Gens, Opened(g) PROVE RightOwners'
  <2>0. Opened(g)
    BY <1>24
  <2>9. Onward
    BY <1>0
  <2>1. RightServe'
    BY <2>0, <2>9, ServeKeeps DEF Opened, serveVars
  <2>2. RightBook'
    <3>1. job[g] \in RightJobs /\ job[g].session \in Sessions
      BY <2>0 DEF Opened, RightPump, NoJob, RightJobs, Jobs
    <3>2. OwnThread(job[g].thread, job[g].session)
      BY <3>1 DEF RightJobs, Jobs
    <3> QED
      BY <2>0, <3>1, <3>2, RightRecord DEF Opened, worldVars
  <2>3. RightCare'
    BY <2>0, <2>9, CareKeeps DEF Opened, careVars
  <2>4. RightPump'
    <3>0. UNCHANGED <<client, owner>>
      BY <2>0 DEF Opened, clientVars, worldVars
    <3>1. job' \in [Gens -> RightJobs \cup {NoJob}]
      BY <2>0 DEF Opened, RightPump
    <3> QED
      BY <2>0, <3>0, <3>1, Steady DEF Opened, RightPump, OwnThread
  <2> QED
    BY <1>0, <2>1, <2>2, <2>3, <2>4
<1>25. ASSUME NEW g \in Gens, AdoptJobBegin(g) PROVE RightOwners'
  <2>0. AdoptJobBegin(g)
    BY <1>25
  <2>9. Onward
    BY <1>0
  <2>1. RightServe'
    BY <2>0, <2>9, ServeKeeps DEF AdoptJobBegin, serveVars
  <2>2. RightBook'
    BY <2>0, <2>9, BookKeeps DEF AdoptJobBegin, bookVars
  <2>3. RightCare'
    BY <2>0, <2>9, CareKeeps DEF AdoptJobBegin, careVars
  <2>4. RightPump'
    <3>0. UNCHANGED <<client, owner>>
      BY <2>0 DEF AdoptJobBegin, clientVars, worldVars
    <3>1. queue' \in [Gens -> Seq(RightJobs)] /\ NextJob(g) \in RightJobs
      BY <2>0, RightTake DEF AdoptJobBegin
    <3>2. job' \in [Gens -> RightJobs \cup {NoJob}]
      BY <2>0, <3>1 DEF AdoptJobBegin, RightPump
    <3> QED
      BY <2>0, <3>0, <3>1, <3>2, Steady DEF AdoptJobBegin, RightPump, OwnThread
  <2> QED
    BY <1>0, <2>1, <2>2, <2>3, <2>4
<1>26. ASSUME NEW g \in Gens, Adopted(g) PROVE RightOwners'
  <2>0. Adopted(g)
    BY <1>26
  <2>9. Onward
    BY <1>0
  <2>1. RightServe'
    BY <2>0, <2>9, ServeKeeps DEF Adopted, serveVars
  <2>2. RightBook'
    BY <2>0, <2>9, BookKeeps DEF Adopted, bookVars
  <2>3. RightCare'
    BY <2>0, <2>9, CareKeeps DEF Adopted, careVars
  <2>4. RightPump'
    <3>0. UNCHANGED <<client, owner>>
      BY <2>0 DEF Adopted, clientVars, worldVars
    <3>1. job[g] \in RightJobs /\ job[g].session \in Sessions
      BY <2>0 DEF Adopted, RightPump, NoJob, RightJobs, Jobs
    <3>2. PICK t \in {NoThread} \cup ThreadIds, s \in Sessions :
           /\ t = job[g].thread /\ s = job[g].session
           /\ OwnThread(t, s)
      BY <3>1 DEF RightJobs, Jobs
    <3>3. UNCHANGED threads \/ Hold(g, s, t)
      BY <2>0, <3>2 DEF Adopted
    <3>6. OwnThread(t, s)'
      BY <3>0, <3>2, Steady
    <3>4. \A h \in Gens, u \in Sessions : OwnThread(threads[h][u], u)'
      BY <2>9, <3>0, <3>2, <3>3, <3>6, RightHold, Steady DEF RightPump, OwnThread
    <3>5. job' \in [Gens -> RightJobs \cup {NoJob}]
      BY <2>0 DEF Adopted, RightPump
    <3> QED
      BY <2>0, <3>0, <3>4, <3>5, Steady DEF Adopted, RightPump
  <2> QED
    BY <1>0, <2>1, <2>2, <2>3, <2>4
<1>27. ASSUME NEW g \in Gens, ArchiveJobBegin(g) PROVE RightOwners'
  <2>0. ArchiveJobBegin(g)
    BY <1>27
  <2>9. Onward
    BY <1>0
  <2>1. RightServe'
    BY <2>0, <2>9, ServeKeeps DEF ArchiveJobBegin, serveVars
  <2>2. RightBook'
    BY <2>0, <2>9, BookKeeps DEF ArchiveJobBegin, bookVars
  <2>3. RightCare'
    BY <2>0, <2>9, CareKeeps DEF ArchiveJobBegin, careVars
  <2>4. RightPump'
    <3>0. UNCHANGED <<client, owner>>
      BY <2>0 DEF ArchiveJobBegin, clientVars, worldVars
    <3> DEFINE s == NextJob(g).session
    <3>1. queue' \in [Gens -> Seq(RightJobs)] /\ NextJob(g) \in RightJobs
      BY <2>0, RightTake DEF ArchiveJobBegin
    <3>2. s \in Sessions /\ client[s] # "live"
      BY <2>0, <3>1 DEF ArchiveJobBegin, RightJobs, Jobs
    <3>3. CASE HasThread(g, s)
      <4>1. threads[g][s] \in {NoThread} \cup ThreadIds /\ OwnThread(threads[g][s], s)
        BY <3>2 DEF PumpTypes, RightPump
      <4>2. Job("archive", s, threads[g][s]) \in RightJobs
        BY <3>2, <4>1, JobType DEF RightJobs, Job
      <4>3. job' \in [Gens -> RightJobs \cup {NoJob}]
        BY <2>0, <3>3, <4>2 DEF ArchiveJobBegin, RightPump
      <4>4. Hold(g, s, NoThread)
        BY <2>0, <3>3 DEF ArchiveJobBegin
      <4>5. \A h \in Gens, u \in Sessions : OwnThread(threads[h][u], u)'
        BY <3>0, <3>2, <4>4, RightHold, Steady, NoThreadIsNoId DEF OwnThread
      <4> QED
        BY <3>0, <3>1, <4>3, <4>5, Steady DEF RightPump
    <3>4. CASE ~HasThread(g, s)
      BY <2>0, <3>0, <3>1, <3>4, Steady DEF ArchiveJobBegin, RightPump, OwnThread
    <3> QED
      BY <3>3, <3>4
  <2> QED
    BY <1>0, <2>1, <2>2, <2>3, <2>4
<1>28. ASSUME NEW g \in Gens, Archived(g) PROVE RightOwners'
  <2>0. Archived(g)
    BY <1>28
  <2>9. Onward
    BY <1>0
  <2>1. RightServe'
    BY <2>0, <2>9, ServeKeeps DEF Archived, serveVars
  <2>2. RightBook'
    BY <2>0, <2>9, BookKeeps DEF Archived, bookVars
  <2>3. RightCare'
    BY <2>0, <2>9, CareKeeps DEF Archived, careVars
  <2>4. RightPump'
    <3>0. UNCHANGED <<client, owner>>
      BY <2>0 DEF Archived, clientVars, worldVars
    <3>1. job' \in [Gens -> RightJobs \cup {NoJob}]
      BY <2>0 DEF Archived, RightPump
    <3> QED
      BY <2>0, <3>0, <3>1, Steady DEF Archived, RightPump, OwnThread
  <2> QED
    BY <1>0, <2>1, <2>2, <2>3, <2>4
<1>29. CASE UNCHANGED vars
  BY <1>0, <1>29, ServeKeeps, BookKeeps, CareKeeps, PumpKeeps
     DEF vars, serveVars, bookVars, careVars, pumpVars
<1> QED
  BY <1>1, <1>2, <1>3, <1>4, <1>5, <1>6, <1>7, <1>8, <1>9, <1>10, <1>11,
     <1>12, <1>13, <1>14, <1>15, <1>16, <1>17, <1>18, <1>19, <1>20, <1>21,
     <1>22, <1>23, <1>24, <1>25, <1>26, <1>27, <1>28, <1>29
     DEF Next, ClientStep, AcceptStep, SuspectStep, SweepStep, AdoptStep, Pump,
         BrokerStep

-----------------------------------------------------------------------------
(* The promised life of a thread.  A step of the brokers is an End, an     *)
(* Open or an Archive of ThreadLife, or it changes nothing that counts.    *)

Gone == {s \in Sessions : client[s] # "live"}

LEMMA LifeStutters ==
  ASSUME UNCHANGED <<client, owner, archived>>
  PROVE  UNCHANGED Life!lifeVars
  BY DEF Life!lifeVars

LEMMA LifeEnds ==
  ASSUME ClientTypes, NEW s \in Sessions, NEW c \in {"closing", "dead"},
         client' = [client EXCEPT ![s] = c], UNCHANGED <<owner, archived>>
  PROVE  [Life!Next]_Life!lifeVars
<1>1. Gone' = Gone \cup {s}
  BY DEF ClientTypes, Gone
<1>2. CASE s \in Gone
  BY <1>1, <1>2 DEF Gone, Life!lifeVars
<1>3. CASE s \notin Gone
  <2>1. Life!End(s)
    BY <1>1, <1>3 DEF Gone, Life!End
  <2> QED
    BY <2>1 DEF Life!Next
<1> QED
  BY <1>2, <1>3

LEMMA LifeOpens ==
  ASSUME TypeOK, NEW g \in Gens, Created(g)
  PROVE  [Life!Next]_Life!lifeVars
<1>1. job[g].session \in Sessions
  BY DEF TypeOK, PumpTypes, Created, NoJob, Jobs
<1>2. PICK t \in ThreadIds :
        owner[t] = NoSession /\ owner' = [owner EXCEPT ![t] = job[g].session]
  BY DEF Created
<1>3. UNCHANGED <<client, archived>>
  BY DEF Created, clientVars
<1>4. Life!Open(job[g].session, t)
  BY <1>2, <1>3 DEF Life!Open
<1> QED
  BY <1>1, <1>4 DEF Life!Next

LEMMA LifeArchives ==
  ASSUME RightOwners, NEW g \in Gens, Archived(g)
  PROVE  [Life!Next]_Life!lifeVars
<1> DEFINE t == job[g].thread
           s == job[g].session
<1>1. UNCHANGED <<client, owner>>
  BY DEF Archived, clientVars
<1>2. job[g] \in RightJobs /\ s \in Sessions /\ client[s] # "live"
  BY DEF Archived, RightOwners, RightPump, NoJob, RightJobs, Jobs
<1>3. t \in ThreadIds /\ owner[t] = s
  BY <1>2 DEF Archived, RightOwners, TypeOK, PumpTypes, RightJobs, OwnThread
<1>4. archived' = archived \/ archived' = archived \cup {t}
  BY DEF Archived
<1>5. CASE archived' = archived
  BY <1>1, <1>5, LifeStutters
<1>6. CASE archived' = archived \cup {t}
  <2>1. Life!Archive(t)
    BY <1>1, <1>2, <1>3, <1>6 DEF Life!Archive
  <2> QED
    BY <1>3, <2>1 DEF Life!Next
<1> QED
  BY <1>4, <1>5, <1>6

LEMMA LifeInit == Init => Life!Init
  BY DEF Init, Life!Init

LEMMA LifeNext == RightOwners /\ [Next]_vars => [Life!Next]_Life!lifeVars
<1> SUFFICES ASSUME RightOwners, [Next]_vars
             PROVE  [Life!Next]_Life!lifeVars
  OBVIOUS
<1> USE DEF RightOwners, TypeOK
<1>1. ASSUME NEW s \in Sessions, SendRegister(s) PROVE [Life!Next]_Life!lifeVars
  BY <1>1, LifeStutters DEF SendRegister, clientVars, worldVars
<1>2. ASSUME NEW s \in Sessions, SendRelease(s) PROVE [Life!Next]_Life!lifeVars
  BY <1>2, LifeEnds DEF SendRelease, worldVars
<1>3. ASSUME NEW s \in Sessions, Die(s) PROVE [Life!Next]_Life!lifeVars
  BY <1>3, LifeEnds DEF Die, worldVars
<1>4. ASSUME BeginRegister PROVE [Life!Next]_Life!lifeVars
  BY <1>4, LifeStutters DEF BeginRegister, clientVars, worldVars
<1>5. ASSUME Upsert PROVE [Life!Next]_Life!lifeVars
  BY <1>5, LifeStutters DEF Upsert, clientVars, worldVars
<1>6. ASSUME Claim PROVE [Life!Next]_Life!lifeVars
  BY <1>6, LifeStutters DEF Claim, clientVars, worldVars
<1>7. ASSUME OpenThread PROVE [Life!Next]_Life!lifeVars
  BY <1>7, LifeStutters DEF OpenThread, clientVars, worldVars
<1>8. ASSUME Release PROVE [Life!Next]_Life!lifeVars
  BY <1>8, LifeStutters DEF Release, clientVars, worldVars
<1>9. ASSUME RefuseRelease PROVE [Life!Next]_Life!lifeVars
  BY <1>9, LifeStutters DEF RefuseRelease, clientVars, worldVars
<1>10. ASSUME NEW s \in Sessions, Suspect(s) PROVE [Life!Next]_Life!lifeVars
  BY <1>10, LifeStutters DEF Suspect, clientVars, worldVars
<1>11. ASSUME NEW s \in Sessions, HearFrom(s) PROVE [Life!Next]_Life!lifeVars
  BY <1>11, LifeStutters DEF HearFrom, clientVars, worldVars
<1>12. ASSUME SweepCollect PROVE [Life!Next]_Life!lifeVars
  BY <1>12, LifeStutters DEF SweepCollect, clientVars, worldVars
<1>13. ASSUME NEW s \in Sessions, SweepNext(s) PROVE [Life!Next]_Life!lifeVars
  BY <1>13, LifeStutters DEF SweepNext, clientVars, worldVars
<1>14. ASSUME AdoptBegin PROVE [Life!Next]_Life!lifeVars
  BY <1>14, LifeStutters DEF AdoptBegin, clientVars, worldVars
<1>15. ASSUME AdoptNext PROVE [Life!Next]_Life!lifeVars
  BY <1>15, LifeStutters DEF AdoptNext, clientVars, worldVars
<1>16. ASSUME StandDown PROVE [Life!Next]_Life!lifeVars
  BY <1>16, LifeStutters DEF StandDown, clientVars, worldVars
<1>17. ASSUME Elect PROVE [Life!Next]_Life!lifeVars
  BY <1>17, LifeStutters DEF Elect, clientVars, worldVars
<1>18. ASSUME Restart PROVE [Life!Next]_Life!lifeVars
  BY <1>18, LifeStutters DEF Restart, clientVars, worldVars
<1>19. ASSUME NEW g \in Gens, Crash(g) PROVE [Life!Next]_Life!lifeVars
  BY <1>19, LifeStutters DEF Crash, clientVars, worldVars
<1>20. ASSUME NEW g \in Gens, OpenExisting(g) PROVE [Life!Next]_Life!lifeVars
  BY <1>20, LifeStutters DEF OpenExisting, clientVars, worldVars
<1>21. ASSUME NEW g \in Gens, OpenBegin(g) PROVE [Life!Next]_Life!lifeVars
  BY <1>21, LifeStutters DEF OpenBegin, clientVars, worldVars
<1>22. ASSUME NEW g \in Gens, Created(g) PROVE [Life!Next]_Life!lifeVars
  BY <1>22, LifeOpens
<1>23. ASSUME NEW g \in Gens, CreateFails(g) PROVE [Life!Next]_Life!lifeVars
  BY <1>23, LifeStutters DEF CreateFails, clientVars, worldVars
<1>24. ASSUME NEW g \in Gens, Opened(g) PROVE [Life!Next]_Life!lifeVars
  BY <1>24, LifeStutters DEF Opened, clientVars, worldVars
<1>25. ASSUME NEW g \in Gens, AdoptJobBegin(g) PROVE [Life!Next]_Life!lifeVars
  BY <1>25, LifeStutters DEF AdoptJobBegin, clientVars, worldVars
<1>26. ASSUME NEW g \in Gens, Adopted(g) PROVE [Life!Next]_Life!lifeVars
  BY <1>26, LifeStutters DEF Adopted, clientVars, worldVars
<1>27. ASSUME NEW g \in Gens, ArchiveJobBegin(g) PROVE [Life!Next]_Life!lifeVars
  BY <1>27, LifeStutters DEF ArchiveJobBegin, clientVars, worldVars
<1>28. ASSUME NEW g \in Gens, Archived(g) PROVE [Life!Next]_Life!lifeVars
  BY <1>28, LifeArchives
<1>29. CASE UNCHANGED vars
  BY <1>29, LifeStutters DEF vars, clientVars, worldVars
<1> QED
  BY <1>1, <1>2, <1>3, <1>4, <1>5, <1>6, <1>7, <1>8, <1>9, <1>10, <1>11,
     <1>12, <1>13, <1>14, <1>15, <1>16, <1>17, <1>18, <1>19, <1>20,
     <1>21, <1>22, <1>23, <1>24, <1>25, <1>26, <1>27, <1>28, <1>29
     DEF Next, ClientStep, AcceptStep, SuspectStep, SweepStep, AdoptStep, Pump,
         BrokerStep

\* Every id in the register, its file, the mappings and the queues names a
\* thread of the session it is kept for, and an archive is only ever on its
\* way for a session that ended: what broker_threads.py, broker_registry.py
\* and broker_gateway.py pass to each other, in whatever order.
THEOREM OwnersStayRight == Spec => []RightOwners
  BY RightInit, RightNext, PTL DEF Spec

\* The brokers implement the promised life of a thread, for any number of
\* sessions, threads, brokers, restarts, crashes and refused Discord calls:
\* no thread changes hands, and none is archived before its session ended.
THEOREM ThreadLifeImplemented == Spec => ImplementsThreadLife
<1>1. RightOwners /\ [Next]_vars => [Life!Next]_Life!lifeVars
  BY LifeNext
<1> QED
  BY <1>1, LifeInit, OwnersStayRight, PTL
     DEF Spec, ImplementsThreadLife, Life!Spec

-----------------------------------------------------------------------------
(* The thread a gateway holds and the thread the register names.  Until a  *)
(* serving thread is restarted, everything that names a thread of a        *)
(* session that runs names the one its gateway holds; and while the gateway *)
(* holds none, whatever is named is what the register names, and nothing   *)
(* on its way asks for a new thread.                                       *)

Listed(g, s, t) ==
  \E i \in 1 .. Len(queue[g]) : queue[g][i].session = s /\ queue[g][i].thread = t
AtLoop(s, t) ==
  \/ handler.session = s /\ handler.thread = t
  \/ <<s, t>> \in toAdopt
Named(g, s, t) ==
  \/ reg[g][s] = t
  \/ Listed(g, s, t)
  \/ job[g].session = s /\ job[g].thread = t
  \/ g = gen /\ AtLoop(s, t)

OpenListed(g, s) ==
  \E i \in 1 .. Len(queue[g]) : queue[g][i].session = s /\ queue[g][i].kind = "open"
OpenInHand(g, s) ==
  job[g].session = s /\ job[g].kind = "open" /\ job[g].thread = NoThread
OpenAtLoop(s) ==
  /\ handler.session = s
  /\ \/ handler.pc = "claimed"
     \/ handler.pc = "known" /\ handler.thread = NoThread
Asks(g, s) == OpenListed(g, s) \/ OpenInHand(g, s) \/ (g = gen /\ OpenAtLoop(s))

HoldsNamed(g, s) ==
  /\ \A t \in ThreadIds : Named(g, s, t) => t = threads[g][s]
  /\ ~OpenInHand(g, s)
AwaitsNamed(g, s) ==
  /\ reg[g][s] \in ThreadIds
  /\ \A t \in ThreadIds : Named(g, s, t) => t = reg[g][s]
  /\ ~Asks(g, s)
KeptFor(g, s) ==
  IF threads[g][s] # NoThread THEN HoldsNamed(g, s)
  ELSE (\E t \in ThreadIds : Named(g, s, t)) => AwaitsNamed(g, s)

Untouched ==
  \A g \in Gens : g > gen =>
     /\ status[g] = "waiting" /\ queue[g] = <<>> /\ job[g] = NoJob
     /\ \A s \in Sessions : threads[g][s] = NoThread
Phases ==
  /\ status[gen] # "waiting"
  /\ status[gen] # "adopting" => toAdopt = {}
  /\ ~Serving => handler = IdleLoop

Kept ==
  restarts = 0 =>
    \A g \in Gens, s \in Sessions : g <= gen /\ client[s] = "live" => KeptFor(g, s)

-----------------------------------------------------------------------------
LEMMA HeadListed ==
  ASSUME PumpTypes, NEW g \in Gens, queue[g] # <<>>
  PROVE  1 \in 1 .. Len(queue[g]) /\ queue[g][1] = NextJob(g) /\ NextJob(g) \in Jobs
<1>1. queue[g] \in Seq(Jobs)
  BY DEF PumpTypes
<1>2. Len(queue[g]) \in Nat /\ Len(queue[g]) # 0 /\ Head(queue[g]) = queue[g][1]
  BY <1>1, EmptySeq
<1>3. Head(queue[g]) \in Jobs
  BY <1>1, HeadTailProperties
<1> QED
  BY <1>2, <1>3 DEF NextJob

LEMMA TakenLine ==
  ASSUME PumpTypes, NEW g \in Gens, queue[g] # <<>>, Take(g)
  PROVE  /\ \A h \in Gens : h # g => queue'[h] = queue[h]
         /\ \A i \in 1 .. Len(queue'[g]) :
              \E k \in 1 .. Len(queue[g]) : queue'[g][i] = queue[g][k]
         /\ \A k \in 1 .. Len(queue[g]) :
              \/ queue[g][k] = NextJob(g)
              \/ \E i \in 1 .. Len(queue'[g]) : queue'[g][i] = queue[g][k]
<1> DEFINE q == queue[g]
<1>1. q \in Seq(Jobs) /\ queue'[g] = Tail(q) /\ \A h \in Gens : h # g => queue'[h] = queue[h]
  BY DEF Take, PumpTypes
<1>2. /\ Len(q) \in Nat /\ Len(Tail(q)) = Len(q) - 1 /\ Head(q) = q[1]
      /\ \A i \in 1 .. Len(Tail(q)) : Tail(q)[i] = q[i + 1]
  BY <1>1, HeadTailProperties
<1> HIDE DEF q
<1>3. ASSUME NEW i \in 1 .. Len(Tail(q)) PROVE \E k \in 1 .. Len(q) : Tail(q)[i] = q[k]
  <2>1. i + 1 \in 1 .. Len(q)
    BY <1>2
  <2> QED
    BY <2>1, <1>2
<1>4. ASSUME NEW k \in 1 .. Len(q) 
      PROVE  q[k] = Head(q) \/ \E i \in 1 .. Len(Tail(q)) : Tail(q)[i] = q[k]
  <2>1. CASE k = 1
    BY <2>1, <1>2
  <2>2. CASE k # 1
    <3>1. k - 1 \in 1 .. Len(Tail(q)) /\ (k - 1) + 1 = k
      BY <2>2, <1>2
    <3> QED
      BY <3>1, <1>2
  <2> QED
    BY <2>1, <2>2
<1> QED
  BY <1>1, <1>3, <1>4 DEF q, NextJob

LEMMA AddedLine ==
  ASSUME PumpTypes, NEW g \in Gens, NEW j \in Jobs, Schedule(g, j)
  PROVE  /\ \A h \in Gens : h # g => queue'[h] = queue[h]
         /\ \A i \in 1 .. Len(queue'[g]) :
              queue'[g][i] = j \/ \E k \in 1 .. Len(queue[g]) : queue'[g][i] = queue[g][k]
         /\ \A k \in 1 .. Len(queue[g]) :
              \E i \in 1 .. Len(queue'[g]) : queue'[g][i] = queue[g][k]
         /\ \E i \in 1 .. Len(queue'[g]) : queue'[g][i] = j
<1> DEFINE q == queue[g]
           p == Append(q, j)
<1>1. q \in Seq(Jobs) /\ queue'[g] = p /\ \A h \in Gens : h # g => queue'[h] = queue[h]
  BY DEF Schedule, PumpTypes
<1>2. /\ Len(q) \in Nat /\ Len(p) = Len(q) + 1 /\ p[Len(q) + 1] = j
      /\ \A i \in 1 .. Len(q) : p[i] = q[i]
  BY <1>1, AppendProperties
<1> HIDE DEF p, q
<1>3. ASSUME NEW i \in 1 .. Len(p) PROVE p[i] = j \/ \E k \in 1 .. Len(q) : p[i] = q[k]
  <2>1. i = Len(q) + 1 \/ i \in 1 .. Len(q)
    BY <1>2
  <2> QED
    BY <2>1, <1>2
<1>4. ASSUME NEW k \in 1 .. Len(q) PROVE \E i \in 1 .. Len(p) : p[i] = q[k]
  BY <1>2
<1>5. Len(q) + 1 \in 1 .. Len(p)
  BY <1>2
<1> QED
  BY <1>1, <1>2, <1>3, <1>4, <1>5 DEF q

LEMMA ListTaken ==
  ASSUME PumpTypes, NEW g \in Gens, queue[g] # <<>>, Take(g), NEW h \in Gens, NEW s
  PROVE  /\ \A t : Listed(h, s, t)' => Listed(h, s, t)
         /\ OpenListed(h, s)' => OpenListed(h, s)
<1>1. CASE h = g
  <2>1. \A i \in 1 .. Len(queue'[h]) :
          \E k \in 1 .. Len(queue[h]) : queue'[h][i] = queue[h][k]
    BY <1>1, TakenLine
  <2> QED
    BY <2>1 DEF Listed, OpenListed
<1>2. CASE h # g
  <2>1. queue'[h] = queue[h]
    BY <1>2, TakenLine
  <2> QED
    BY <2>1 DEF Listed, OpenListed
<1> QED
  BY <1>1, <1>2

LEMMA ListAdded ==
  ASSUME PumpTypes, NEW g \in Gens, NEW j \in Jobs, Schedule(g, j),
         NEW h \in Gens, NEW s
  PROVE  /\ \A t : Listed(h, s, t)' =>
                     Listed(h, s, t) \/ (h = g /\ j.session = s /\ j.thread = t)
         /\ OpenListed(h, s)' =>
              OpenListed(h, s) \/ (h = g /\ j.session = s /\ j.kind = "open")
<1>1. CASE h = g
  <2>1. \A i \in 1 .. Len(queue'[h]) :
          queue'[h][i] = j \/ \E k \in 1 .. Len(queue[h]) : queue'[h][i] = queue[h][k]
    BY <1>1, AddedLine
  <2> QED
    BY <1>1, <2>1 DEF Listed, OpenListed
<1>2. CASE h # g
  <2>1. queue'[h] = queue[h]
    BY <1>2, AddedLine
  <2> QED
    BY <2>1 DEF Listed, OpenListed
<1> QED
  BY <1>1, <1>2

LEMMA HeadNames ==
  ASSUME PumpTypes, NEW g \in Gens, queue[g] # <<>>
  PROVE  /\ Listed(g, NextJob(g).session, NextJob(g).thread)
         /\ NextJob(g).kind = "open" => OpenListed(g, NextJob(g).session)
<1>1. 1 \in 1 .. Len(queue[g]) /\ queue[g][1] = NextJob(g)
  BY HeadListed
<1> QED
  BY <1>1 DEF Listed, OpenListed

\* A step after which no more is named or asked for than before keeps what
\* holds of a session at a gateway whose mapping and record it leaves alone.
LEMMA KeptStays ==
  ASSUME NEW g \in Gens, NEW s \in Sessions, KeptFor(g, s),
         threads'[g][s] = threads[g][s], reg'[g][s] = reg[g][s],
         \A t \in ThreadIds : Named(g, s, t)' => Named(g, s, t),
         OpenInHand(g, s)' => OpenInHand(g, s) \/ threads[g][s] = NoThread,
         Asks(g, s)' => Asks(g, s) \/ reg[g][s] \notin ThreadIds
  PROVE  KeptFor(g, s)'
<1>1. CASE threads[g][s] # NoThread
  BY <1>1 DEF KeptFor, HoldsNamed
<1>2. CASE threads[g][s] = NoThread
  <2>1. CASE \E t \in ThreadIds : Named(g, s, t)
    <3>1. AwaitsNamed(g, s)
      BY <1>2, <2>1 DEF KeptFor
    <3>2. AwaitsNamed(g, s)'
      BY <3>1 DEF AwaitsNamed
    <3> QED
      BY <1>2, <3>2 DEF KeptFor
  <2>2. CASE ~ \E t \in ThreadIds : Named(g, s, t)
    BY <1>2, <2>2 DEF KeptFor
  <2> QED
    BY <2>1, <2>2
<1> QED
  BY <1>1, <1>2

\* The record of a session takes a thread that was named already.
LEMMA KeptRecords ==
  ASSUME TypeOK, NEW g \in Gens, NEW s \in Sessions, NEW t \in ThreadIds,
         NEW h \in Gens, NEW u \in Sessions, RecordThread(g, s, t),
         h = g /\ u = s => KeptFor(g, s) /\ (Named(g, s, t) \/ threads[g][s] = t)
  PROVE  /\ reg'[h][u] = reg[h][u] \/ (h = g /\ u = s /\ reg'[h][u] = t)
         /\ threads[h][u] = NoThread => reg'[h][u] = reg[h][u]
<1>1. reg'[h][u] = reg[h][u] \/ (h = g /\ u = s /\ reg'[h][u] = t)
  <2>1. CASE reg[g][s] \in {NoRecord, t}
    BY <2>1 DEF RecordThread
  <2>2. CASE reg[g][s] \notin {NoRecord, t}
    <3>1. reg' = [reg EXCEPT ![g] = [@ EXCEPT ![s] = t]]
      BY <2>2 DEF RecordThread, SaveRecord
    <3> QED
      BY <3>1 DEF TypeOK, BookTypes
  <2> QED
    BY <2>1, <2>2
<1>2. ASSUME h = g, u = s, threads[g][s] = NoThread PROVE reg[g][s] = t
  <2>1. t # NoThread
    BY NoThreadIsNoId
  <2>2. Named(g, s, t)
    BY <1>2, <2>1
  <2> QED
    BY <1>2, <2>2 DEF KeptFor, AwaitsNamed
<1> QED
  BY <1>1, <1>2

-----------------------------------------------------------------------------
(* One lemma per group of steps.                                           *)

LEMMA KeptIdle ==
  ASSUME TypeOK, NEW g \in Gens, NEW s \in Sessions, KeptFor(g, s),
         UNCHANGED <<queue, reg, threads, handler, toAdopt, gen>>,
         job'[g] = job[g] \/ job'[g] = NoJob
  PROVE  KeptFor(g, s)'
<1>1. NoJob.session # s
  BY DEF NoJob
<1>2. \A t \in ThreadIds : Named(g, s, t)' => Named(g, s, t)
  BY <1>1 DEF Named, Listed, AtLoop
<1>3. OpenInHand(g, s)' => OpenInHand(g, s)
  BY <1>1 DEF OpenInHand
<1>4. Asks(g, s)' => Asks(g, s)
  BY <1>3 DEF Asks, OpenListed, OpenAtLoop
<1> QED
  BY <1>2, <1>3, <1>4, KeptStays

\* What the accept loop does beside the queue.
LEMMA KeptLoop ==
  ASSUME TypeOK, NEW g \in Gens, NEW s \in Sessions, KeptFor(g, s),
         UNCHANGED <<queue, reg, threads, job, toAdopt, gen>>,
         g = gen /\ handler'.session = s =>
           /\ handler'.thread \in ThreadIds => Named(g, s, handler'.thread)
           /\ OpenAtLoop(s)' => OpenAtLoop(s) \/ reg[g][s] \notin ThreadIds
  PROVE  KeptFor(g, s)'
<1>2. ASSUME NEW t \in ThreadIds, Named(g, s, t)' PROVE Named(g, s, t)
  BY <1>2 DEF Named, Listed, AtLoop
<1>3. OpenInHand(g, s)' => OpenInHand(g, s)
  BY DEF OpenInHand
<1>4. Asks(g, s)' => Asks(g, s) \/ reg[g][s] \notin ThreadIds
  BY <1>3 DEF Asks, OpenListed, OpenAtLoop
<1> QED
  BY <1>2, <1>3, <1>4, KeptStays

LEMMA KeptBeginRegister ==
  ASSUME RightOwners, BeginRegister, NEW g \in Gens, NEW s \in Sessions, KeptFor(g, s)
  PROVE  KeptFor(g, s)'
<1>1. /\ UNCHANGED <<queue, reg, threads, job, toAdopt, gen>>
      /\ handler' = [pc |-> "known", session |-> Head(wire).session,
                     thread |-> KeepThread(Head(wire).session)]
  BY DEF BeginRegister, bookVars, careVars, pumpVars
<1>2. ASSUME g = gen, handler'.session = s
      PROVE  handler'.thread = IF reg[g][s] \in ThreadIds THEN reg[g][s] ELSE NoThread
  BY <1>1, <1>2 DEF KeepThread
<1>3. g = gen /\ handler'.session = s /\ handler'.thread \in ThreadIds
        => Named(g, s, handler'.thread)
  BY <1>2, NoThreadIsNoId DEF Named
<1>4. ASSUME g = gen, handler'.session = s, OpenAtLoop(s)' PROVE reg[g][s] \notin ThreadIds
  BY <1>1, <1>2, <1>4, NoThreadIsNoId DEF OpenAtLoop
<1> QED
  BY <1>1, <1>3, <1>4, KeptLoop DEF RightOwners

LEMMA KeptClaim ==
  ASSUME RightOwners, Claim, NEW g \in Gens, NEW s \in Sessions, KeptFor(g, s)
  PROVE  KeptFor(g, s)'
<1>1. UNCHANGED <<queue, reg, threads, job, toAdopt, gen>>
  BY DEF Claim, careVars, pumpVars
<1>2. CASE handler' = IdleLoop
  <2>1. handler'.session # s
    BY <1>2 DEF IdleLoop
  <2> QED
    BY <1>1, <2>1, KeptLoop DEF RightOwners
<1>3. CASE handler' # IdleLoop
  <2>1. /\ reg[gen][handler.session] = NoThread
        /\ handler'.session = handler.session /\ handler'.thread = handler.thread
    BY <1>3 DEF Claim, MayClaim, RightOwners, TypeOK, ServeTypes
  <2>2. handler'.session = s => reg[gen][s] \notin ThreadIds
    BY <2>1, NoThreadIsNoId
  <2>3. g = gen /\ handler'.session = s => Named(g, s, handler'.thread)
    BY <2>1 DEF Named, AtLoop
  <2> QED
    BY <1>1, <2>2, <2>3, KeptLoop DEF RightOwners
<1> QED
  BY <1>2, <1>3

LEMMA KeptUpsert ==
  ASSUME RightOwners, Upsert, NEW g \in Gens, NEW s \in Sessions, KeptFor(g, s)
  PROVE  KeptFor(g, s)'
<1>1. /\ UNCHANGED <<queue, threads, job, toAdopt, gen>>
      /\ handler'.session = handler.session /\ handler'.thread = handler.thread
      /\ handler.pc = "known" /\ handler'.pc = "upserted"
      /\ reg' = [reg EXCEPT ![gen] = [@ EXCEPT ![handler.session] = handler.thread]]
  BY DEF Upsert, SaveRecord, careVars, pumpVars, RightOwners, TypeOK, ServeTypes
<1>2. ~OpenAtLoop(s)'
  BY <1>1 DEF OpenAtLoop
<1>3. (OpenInHand(g, s)' => OpenInHand(g, s)) /\ (Asks(g, s)' => Asks(g, s))
  BY <1>1, <1>2 DEF Asks, OpenInHand, OpenListed
<1>4. CASE g = gen /\ handler.session = s
  <2>1. reg'[g][s] = handler.thread
    BY <1>1, <1>4 DEF RightOwners, TypeOK, BookTypes
  <2>2. ASSUME NEW t \in ThreadIds, Named(g, s, t)' PROVE Named(g, s, t)
    BY <1>1, <1>4, <2>1, <2>2 DEF Named, Listed, AtLoop
  <2>3. CASE threads[g][s] # NoThread
    BY <1>1, <1>3, <2>2, <2>3 DEF KeptFor, HoldsNamed
  <2>4. CASE threads[g][s] = NoThread /\ ~ \E t \in ThreadIds : Named(g, s, t)
    BY <1>1, <2>2, <2>4 DEF KeptFor
  <2>5. CASE threads[g][s] = NoThread /\ \E t \in ThreadIds : Named(g, s, t)
    <3>1. AwaitsNamed(g, s)
      BY <2>5 DEF KeptFor
    <3>2. handler.thread # NoThread
      BY <1>1, <1>4, <3>1 DEF AwaitsNamed, Asks, OpenAtLoop
    <3>3. handler.thread \in ThreadIds /\ Named(g, s, handler.thread)
      BY <1>4, <3>2 DEF Named, AtLoop, RightOwners, TypeOK, ServeTypes
    <3>4. reg'[g][s] = reg[g][s]
      BY <2>1, <3>1, <3>3 DEF AwaitsNamed
    <3> QED
      BY <1>1, <1>3, <2>2, <3>4, KeptStays
  <2> QED
    BY <2>3, <2>4, <2>5
<1>5. CASE ~(g = gen /\ handler.session = s)
  <2>1. reg'[g][s] = reg[g][s]
    BY <1>1, <1>5 DEF RightOwners, TypeOK, BookTypes
  <2>2. ASSUME NEW t \in ThreadIds, Named(g, s, t)' PROVE Named(g, s, t)
    BY <1>1, <2>1, <2>2 DEF Named, Listed, AtLoop
  <2> QED
    BY <1>1, <1>3, <2>1, <2>2, KeptStays
<1> QED
  BY <1>4, <1>5

LEMMA KeptOpenThread ==
  ASSUME RightOwners, OpenThread, NEW g \in Gens, NEW s \in Sessions, KeptFor(g, s)
  PROVE  KeptFor(g, s)'
<1> USE DEF RightOwners, TypeOK
<1>0. handler.session \in Sessions /\ handler.pc = "claimed" /\ gen \in Gens
  BY DEF OpenThread, ServeTypes
<1> DEFINE j == Job("open", handler.session, NoThread)
<1>1. /\ UNCHANGED <<reg, threads, job, toAdopt, gen>>
      /\ handler' = IdleLoop /\ Schedule(gen, j) /\ j \in Jobs
      /\ j.session = handler.session /\ j.thread = NoThread
  BY <1>0, JobType DEF OpenThread, bookVars, careVars, Job
<1> HIDE DEF j
<1>2. /\ \A t : Listed(g, s, t)' => Listed(g, s, t) \/ t = NoThread
      /\ OpenListed(g, s)' => OpenListed(g, s) \/ (g = gen /\ handler.session = s)
  BY <1>0, <1>1, ListAdded
<1>3. \A t : AtLoop(s, t)' => AtLoop(s, t)
  BY <1>1 DEF AtLoop, IdleLoop
<1>4. ASSUME NEW t \in ThreadIds, Named(g, s, t)' PROVE Named(g, s, t)
  BY <1>1, <1>2, <1>3, <1>4, NoThreadIsNoId DEF Named
<1>5. OpenInHand(g, s)' => OpenInHand(g, s)
  BY <1>1 DEF OpenInHand
<1>6. ~OpenAtLoop(s)'
  BY <1>1 DEF OpenAtLoop, IdleLoop
<1>7. Asks(g, s)' => Asks(g, s)
  BY <1>0, <1>1, <1>2, <1>5, <1>6 DEF Asks, OpenAtLoop
<1> QED
  BY <1>1, <1>4, <1>5, <1>7, KeptStays

\* A session that ended is forgotten: nothing changes for those that run.
LEMMA KeptForget ==
  ASSUME RightOwners, NEW e \in Sessions, Forget(e), NEW g \in Gens, NEW s \in Sessions,
         s # e, KeptFor(g, s), UNCHANGED <<threads, job, toAdopt, gen, handler>>
  PROVE  KeptFor(g, s)'
<1> USE DEF RightOwners, TypeOK
<1>0. gen \in Gens
  BY DEF ServeTypes
<1> DEFINE j == Job("archive", e, NoThread)
<1>1. /\ Schedule(gen, j) /\ j \in Jobs
      /\ j.session = e /\ j.kind = "archive"
  BY JobType DEF Forget, Job
<1> HIDE DEF j
<1>2. reg'[g][s] = reg[g][s]
  BY <1>0 DEF Forget, SaveRecord, BookTypes
<1>3. /\ \A t : Listed(g, s, t)' => Listed(g, s, t)
      /\ OpenListed(g, s)' => OpenListed(g, s)
  <2>1. /\ \A t : Listed(g, s, t)' =>
              Listed(g, s, t) \/ (g = gen /\ j.session = s /\ j.thread = t)
        /\ OpenListed(g, s)' =>
              OpenListed(g, s) \/ (g = gen /\ j.session = s /\ j.kind = "open")
    BY <1>0, <1>1, ListAdded
  <2> QED
    BY <1>1, <2>1
<1>4. ASSUME NEW t \in ThreadIds, Named(g, s, t)' PROVE Named(g, s, t)
  BY <1>2, <1>3, <1>4 DEF Named, AtLoop
<1>5. OpenInHand(g, s)' => OpenInHand(g, s)
  BY DEF OpenInHand
<1>6. Asks(g, s)' => Asks(g, s)
  BY <1>3, <1>5 DEF Asks, OpenAtLoop
<1> QED
  BY <1>2, <1>4, <1>5, <1>6, KeptStays

LEMMA KeptAdoptBegin ==
  ASSUME RightOwners, AdoptBegin, NEW g \in Gens, NEW s \in Sessions, KeptFor(g, s)
  PROVE  KeptFor(g, s)'
<1>1. /\ UNCHANGED <<queue, reg, threads, job, handler, gen>>
      /\ toAdopt' = {st \in Sessions \X ThreadIds :
                       Adoptable(st[1]) /\ reg[gen][st[1]] = st[2]}
  BY DEF AdoptBegin, bookVars, pumpVars
<1>2. \A t : <<s, t>> \in toAdopt' => reg[gen][s] = t
  BY <1>1
<1>3. ASSUME NEW t \in ThreadIds, Named(g, s, t)' PROVE Named(g, s, t)
  BY <1>1, <1>2, <1>3 DEF Named, Listed, AtLoop
<1>4. (OpenInHand(g, s)' => OpenInHand(g, s)) /\ (Asks(g, s)' => Asks(g, s))
  BY <1>1 DEF Asks, OpenInHand, OpenListed, OpenAtLoop
<1> QED
  BY <1>1, <1>3, <1>4, KeptStays

LEMMA KeptAdoptNext ==
  ASSUME RightOwners, AdoptNext, NEW g \in Gens, NEW s \in Sessions, KeptFor(g, s)
  PROVE  KeptFor(g, s)'
<1> USE DEF RightOwners, TypeOK
<1>1. UNCHANGED <<reg, threads, job, handler, gen>> /\ gen \in Gens
  BY DEF AdoptNext, bookVars, ServeTypes
<1>2. CASE toAdopt = {}
  <2>1. UNCHANGED <<toAdopt, queue>>
    BY <1>2 DEF AdoptNext
  <2> QED
    BY <1>1, <2>1, KeptIdle
<1>3. CASE toAdopt # {}
  <2>0. PICK st \in toAdopt : Schedule(gen, Job("adopt", st[1], st[2]))
                               /\ toAdopt' = toAdopt \ {st}
    BY <1>3 DEF AdoptNext
  <2> DEFINE j == Job("adopt", st[1], st[2])
  <2>1. Schedule(gen, j) /\ toAdopt' = toAdopt \ {st}
    BY <2>0
  <2>2. st[1] \in Sessions /\ st[2] \in ThreadIds /\ st = <<st[1], st[2]>>
    BY <2>1 DEF CareTypes
  <2>3. j \in Jobs /\ j.session = st[1] /\ j.thread = st[2] /\ j.kind = "adopt"
    BY <2>2, JobType DEF Job
  <2> HIDE DEF j
  <2>4. /\ \A t : Listed(g, s, t)' =>
              Listed(g, s, t) \/ (g = gen /\ st[1] = s /\ st[2] = t)
        /\ OpenListed(g, s)' => OpenListed(g, s)
    <3>1. /\ \A t : Listed(g, s, t)' =>
                Listed(g, s, t) \/ (g = gen /\ j.session = s /\ j.thread = t)
          /\ OpenListed(g, s)' =>
                OpenListed(g, s) \/ (g = gen /\ j.session = s /\ j.kind = "open")
      BY <1>1, <2>1, <2>3, ListAdded
    <3> QED
      BY <2>3, <3>1
  <2>5. ASSUME NEW t \in ThreadIds, Named(g, s, t)' PROVE Named(g, s, t)
    <3>1. ASSUME g = gen, st[1] = s, st[2] = t PROVE Named(g, s, t)
      BY <2>1, <2>2, <3>1 DEF Named, AtLoop
    <3>2. AtLoop(s, t)' => AtLoop(s, t)
      BY <1>1, <2>1 DEF AtLoop
    <3> QED
      BY <1>1, <2>4, <2>5, <3>1, <3>2 DEF Named
  <2>6. OpenInHand(g, s)' => OpenInHand(g, s)
    BY <1>1 DEF OpenInHand
  <2>7. Asks(g, s)' => Asks(g, s)
    BY <1>1, <2>4, <2>6 DEF Asks, OpenAtLoop
  <2> QED
    BY <1>1, <2>5, <2>6, <2>7, KeptStays
<1> QED
  BY <1>2, <1>3

\* Every adoption on its way names a thread.
AdoptsName ==
  \A g \in Gens :
    /\ \A i \in 1 .. Len(queue[g]) :
         queue[g][i].kind = "adopt" => queue[g][i].thread \in ThreadIds
    /\ job[g].kind = "adopt" => job[g].thread \in ThreadIds

Phased == Untouched /\ Phases /\ AdoptsName

\* A gateway works on its queue and its job: what it adds to neither, and
\* what it does for another session, keeps what holds of this one.
LEMMA KeptBeside ==
  ASSUME NEW g \in Gens, NEW s \in Sessions, KeptFor(g, s),
         threads'[g][s] = threads[g][s], reg'[g][s] = reg[g][s],
         UNCHANGED <<handler, toAdopt, gen>>,
         \A t : Listed(g, s, t)' => Listed(g, s, t),
         OpenListed(g, s)' => OpenListed(g, s),
         job'[g] = job[g] \/ job'[g].session # s
  PROVE  KeptFor(g, s)'
<1>1. ASSUME NEW t \in ThreadIds, Named(g, s, t)' PROVE Named(g, s, t)
  BY <1>1 DEF Named, AtLoop
<1>2. OpenInHand(g, s)' => OpenInHand(g, s)
  BY DEF OpenInHand
<1>3. Asks(g, s)' => Asks(g, s)
  BY <1>2 DEF Asks, OpenAtLoop
<1> QED
  BY <1>1, <1>2, <1>3, KeptStays

LEMMA ListSame ==
  ASSUME NEW g, NEW s, queue'[g] = queue[g]
  PROVE  /\ \A t : Listed(g, s, t)' => Listed(g, s, t)
         /\ OpenListed(g, s)' => OpenListed(g, s)
  BY DEF Listed, OpenListed

LEMMA KeptOpenExisting ==
  ASSUME RightOwners, NEW a \in Gens, OpenExisting(a),
         NEW g \in Gens, NEW s \in Sessions, KeptFor(g, s)
  PROVE  KeptFor(g, s)'
<1> USE DEF RightOwners, TypeOK
<1> DEFINE e == NextJob(a).session
           m == threads[a][e]
<1>1. /\ queue[a] # <<>> /\ Take(a) /\ RecordThread(a, e, m) /\ m # NoThread
      /\ UNCHANGED <<handler, toAdopt, gen, job, threads>>
  BY DEF OpenExisting, HasThread, serveVars, careVars
<1>2. NextJob(a) \in Jobs
  BY <1>1, HeadListed
<1>3. e \in Sessions
  BY <1>2 DEF Jobs
<1>4. m \in ThreadIds
  BY <1>1, <1>3 DEF PumpTypes
<1>5. /\ \A t : Listed(g, s, t)' => Listed(g, s, t)
      /\ OpenListed(g, s)' => OpenListed(g, s)
  BY <1>1, ListTaken
<1> HIDE DEF e
<1>6. reg'[g][s] = reg[g][s] \/ (g = a /\ s = e /\ reg'[g][s] = m)
  BY <1>1, <1>3, <1>4, KeptRecords
<1>7. CASE reg'[g][s] = reg[g][s]
  BY <1>1, <1>5, <1>7, KeptBeside
<1>8. CASE g = a /\ s = e /\ reg'[g][s] = m
  <2>1. HoldsNamed(g, s) /\ threads[g][s] = m
    BY <1>1, <1>8 DEF KeptFor
  <2>2. ASSUME NEW t \in ThreadIds, Named(g, s, t)' PROVE t = m
    BY <1>1, <1>5, <1>8, <2>1, <2>2 DEF HoldsNamed, Named, AtLoop
  <2>3. ~OpenInHand(g, s)'
    BY <1>1, <2>1 DEF HoldsNamed, OpenInHand
  <2> QED
    BY <1>1, <2>1, <2>2, <2>3 DEF KeptFor, HoldsNamed
<1> QED
  BY <1>6, <1>7, <1>8

\* The head of the queue becomes the job: an open one only if no thread is held.
LEMMA KeptJobBegin ==
  ASSUME RightOwners, NEW a \in Gens, queue[a] # <<>>, Take(a),
         job' = [job EXCEPT ![a] = NextJob(a)],
         NextJob(a).kind = "open" => ~HasThread(a, NextJob(a).session),
         UNCHANGED <<reg, threads, handler, toAdopt, gen>>,
         NEW g \in Gens, NEW s \in Sessions, KeptFor(g, s)
  PROVE  KeptFor(g, s)'
<1> USE DEF RightOwners, TypeOK
<1>1. /\ \A t : Listed(g, s, t)' => Listed(g, s, t)
      /\ OpenListed(g, s)' => OpenListed(g, s)
  BY ListTaken
<1>2. /\ Listed(a, NextJob(a).session, NextJob(a).thread)
      /\ NextJob(a).kind = "open" => OpenListed(a, NextJob(a).session)
  BY HeadNames
<1>3. job'[g] = IF g = a THEN NextJob(a) ELSE job[g]
  BY DEF PumpTypes
<1>4. ASSUME NEW t \in ThreadIds, Named(g, s, t)' PROVE Named(g, s, t)
  BY <1>1, <1>2, <1>3, <1>4 DEF Named, AtLoop
<1>5. OpenInHand(g, s)' => OpenInHand(g, s) \/ (threads[g][s] = NoThread /\ OpenListed(g, s))
  BY <1>2, <1>3 DEF OpenInHand, HasThread
<1>6. Asks(g, s)' => Asks(g, s)
  BY <1>1, <1>5 DEF Asks, OpenAtLoop
<1> QED
  BY <1>4, <1>5, <1>6, KeptStays

LEMMA KeptCreated ==
  ASSUME RightOwners, NEW a \in Gens, Created(a),
         NEW g \in Gens, NEW s \in Sessions, KeptFor(g, s)
  PROVE  KeptFor(g, s)'
<1> USE DEF RightOwners, TypeOK
<1> DEFINE e == job[a].session
<1>1. PICK t \in ThreadIds : /\ Hold(a, e, t)
                             /\ job' = [job EXCEPT ![a] = [@ EXCEPT !.thread = t]]
  BY DEF Created
<1>2. /\ UNCHANGED <<queue, reg, handler, toAdopt, gen>>
      /\ job[a].kind = "open" /\ job[a].thread = NoThread
  BY DEF Created, serveVars, bookVars, careVars
<1>3. job[a] \in Jobs
  BY <1>2 DEF PumpTypes, NoJob
<1>4. /\ e \in Sessions
      /\ job'[a].session = e /\ job'[a].thread = t
      /\ g # a => job'[g] = job[g]
  BY <1>1, <1>3 DEF Jobs, PumpTypes
<1>5. threads'[g][s] = IF g = a /\ s = e THEN t ELSE threads[g][s]
  BY <1>1, <1>4 DEF Hold, PumpTypes
<1>6. /\ \A u : Listed(g, s, u)' => Listed(g, s, u)
      /\ OpenListed(g, s)' => OpenListed(g, s)
  BY <1>2, ListSame
<1>7. t # NoThread
  BY NoThreadIsNoId
<1>8. CASE g = a /\ s = e
  <2>1. OpenInHand(g, s)
    BY <1>2, <1>8 DEF OpenInHand
  <2>2. ~ \E u \in ThreadIds : Named(g, s, u)
    BY <2>1 DEF KeptFor, HoldsNamed, AwaitsNamed, Asks
  <2>3. ASSUME NEW u \in ThreadIds, Named(g, s, u)' PROVE u = t
    BY <1>2, <1>4, <1>6, <1>8, <2>2, <2>3 DEF Named, AtLoop
  <2>4. ~OpenInHand(g, s)'
    BY <1>4, <1>7, <1>8 DEF OpenInHand
  <2> QED
    BY <1>5, <1>7, <1>8, <2>3, <2>4 DEF KeptFor, HoldsNamed
<1>9. CASE ~(g = a /\ s = e)
  <2>1. job'[g] = job[g] \/ job'[g].session # s
    BY <1>4, <1>9
  <2>2. threads'[g][s] = threads[g][s]
    BY <1>5, <1>9
  <2> QED
    BY <1>2, <1>6, <2>1, <2>2, KeptBeside
<1> QED
  BY <1>8, <1>9

LEMMA KeptOpened ==
  ASSUME RightOwners, NEW a \in Gens, Opened(a),
         NEW g \in Gens, NEW s \in Sessions, KeptFor(g, s)
  PROVE  KeptFor(g, s)'
<1> USE DEF RightOwners, TypeOK
<1> DEFINE e == job[a].session
           u == job[a].thread
<1>1. /\ UNCHANGED <<queue, threads, handler, toAdopt, gen>>
      /\ job[a].kind = "open" /\ u # NoThread
      /\ RecordThread(a, e, u) /\ job' = [job EXCEPT ![a] = NoJob]
  BY DEF Opened, serveVars, careVars
<1>2. job[a] \in Jobs
  BY <1>1 DEF PumpTypes, NoJob
<1>3. e \in Sessions /\ u \in ThreadIds
  BY <1>1, <1>2 DEF Jobs
<1>4. /\ \A t : Listed(g, s, t)' => Listed(g, s, t)
      /\ OpenListed(g, s)' => OpenListed(g, s)
  BY <1>1, ListSame
<1>5. job'[g] = job[g] \/ job'[g].session # s
  BY <1>1 DEF PumpTypes, NoJob
<1>6. Named(a, e, u)
  BY DEF Named
<1> HIDE DEF e, u
<1>7. /\ reg'[g][s] = reg[g][s] \/ (g = a /\ s = e /\ reg'[g][s] = u)
      /\ threads[g][s] = NoThread => reg'[g][s] = reg[g][s]
  BY <1>1, <1>3, <1>6, KeptRecords
<1>8. CASE reg'[g][s] = reg[g][s]
  BY <1>1, <1>4, <1>5, <1>8, KeptBeside
<1>9. CASE threads[g][s] # NoThread /\ g = a /\ s = e /\ reg'[g][s] = u
  <2>1. HoldsNamed(g, s)
    BY <1>9 DEF KeptFor
  <2>2. ASSUME NEW t \in ThreadIds, Named(g, s, t)' PROVE t = threads[g][s]
    BY <1>1, <1>4, <1>5, <1>6, <1>9, <2>1, <2>2 DEF HoldsNamed, Named, AtLoop
  <2>3. ~OpenInHand(g, s)'
    BY <1>5, <2>1 DEF HoldsNamed, OpenInHand
  <2> QED
    BY <1>1, <1>9, <2>2, <2>3 DEF KeptFor, HoldsNamed
<1> QED
  BY <1>7, <1>8, <1>9

LEMMA KeptAdopted ==
  ASSUME RightOwners, Phased, NEW a \in Gens, Adopted(a),
         NEW g \in Gens, NEW s \in Sessions, KeptFor(g, s)
  PROVE  KeptFor(g, s)'
<1> USE DEF RightOwners, TypeOK
<1> DEFINE e == job[a].session
           u == job[a].thread
<1>1. /\ UNCHANGED <<queue, reg, handler, toAdopt, gen>>
      /\ job[a].kind = "adopt" /\ job' = [job EXCEPT ![a] = NoJob]
      /\ Hold(a, e, u) \/ UNCHANGED threads
  BY DEF Adopted, serveVars, bookVars, careVars
<1>2. job[a] \in Jobs
  BY <1>1 DEF PumpTypes, NoJob
<1>3. e \in Sessions /\ u \in ThreadIds
  BY <1>1, <1>2 DEF Jobs, Phased, AdoptsName
<1>4. /\ \A t : Listed(g, s, t)' => Listed(g, s, t)
      /\ OpenListed(g, s)' => OpenListed(g, s)
  BY <1>1, ListSame
<1>5. job'[g] = job[g] \/ job'[g].session # s
  BY <1>1 DEF PumpTypes, NoJob
<1>6. Named(a, e, u)
  BY DEF Named
<1>7. threads'[g][s] = threads[g][s] \/ (g = a /\ s = e /\ threads'[g][s] = u)
  BY <1>1, <1>3 DEF Hold, PumpTypes
<1> HIDE DEF e, u
<1>8. CASE threads'[g][s] = threads[g][s]
  BY <1>1, <1>4, <1>5, <1>8, KeptBeside
<1>9. CASE g = a /\ s = e /\ threads'[g][s] = u
  <2>1. u # NoThread
    BY <1>3, NoThreadIsNoId
  <2>2. ASSUME NEW t \in ThreadIds, Named(g, s, t) PROVE t = u
    <3>1. CASE threads[g][s] # NoThread
      BY <1>3, <1>6, <1>9, <2>2, <3>1 DEF KeptFor, HoldsNamed
    <3>2. CASE threads[g][s] = NoThread
      BY <1>3, <1>6, <1>9, <2>2, <3>2 DEF KeptFor, AwaitsNamed
    <3> QED
      BY <3>1, <3>2
  <2>3. ASSUME NEW t \in ThreadIds, Named(g, s, t)' PROVE Named(g, s, t)
    BY <1>1, <1>4, <1>5, <2>3 DEF Named, AtLoop
  <2>4. ~OpenInHand(g, s)'
    BY <1>1, <1>9 DEF OpenInHand, PumpTypes, NoJob
  <2> QED
    BY <1>9, <2>1, <2>2, <2>3, <2>4 DEF KeptFor, HoldsNamed
<1> QED
  BY <1>7, <1>8, <1>9

LEMMA KeptArchiveBegin ==
  ASSUME RightOwners, NEW a \in Gens, ArchiveJobBegin(a),
         NEW g \in Gens, NEW s \in Sessions, client[s] = "live", KeptFor(g, s)
  PROVE  KeptFor(g, s)'
<1> USE DEF RightOwners, TypeOK
<1> DEFINE e == NextJob(a).session
<1>1. /\ queue[a] # <<>> /\ Take(a) /\ NextJob(a).kind = "archive"
      /\ UNCHANGED <<reg, handler, toAdopt, gen>>
      /\ \/ UNCHANGED <<job, threads>>
         \/ /\ job' = [job EXCEPT ![a] = Job("archive", e, threads[a][e])]
            /\ Hold(a, e, NoThread)
  BY DEF ArchiveJobBegin, serveVars, bookVars, careVars
<1>2. NextJob(a) \in RightJobs
  BY <1>1, RightTake
<1>3. e \in Sessions /\ e # s
  BY <1>1, <1>2 DEF RightJobs, Jobs
<1>4. /\ \A t : Listed(g, s, t)' => Listed(g, s, t)
      /\ OpenListed(g, s)' => OpenListed(g, s)
  BY <1>1, ListTaken
<1> HIDE DEF e
<1>5. job'[g] = job[g] \/ job'[g].session # s
  BY <1>1, <1>3 DEF PumpTypes, Job
<1>6. threads'[g][s] = threads[g][s]
  <2>1. CASE UNCHANGED threads
    BY <2>1
  <2>2. CASE Hold(a, e, NoThread)
    <3>1. threads' = [threads EXCEPT ![a] = [threads[a] EXCEPT ![e] = NoThread]]
      BY <2>2 DEF Hold
    <3> QED
      BY <1>3, <3>1 DEF PumpTypes
  <2> QED
    BY <1>1, <2>1, <2>2
<1> QED
  BY <1>1, <1>4, <1>5, <1>6, KeptBeside

\* A gateway that starts or ends knows nothing but the register.
LEMMA KeptEmpty ==
  ASSUME NEW g \in Gens, NEW s \in Sessions,
         queue'[g] = <<>>, job'[g] = NoJob, threads'[g][s] = NoThread,
         g = gen' => handler' = IdleLoop /\ toAdopt' = {}
  PROVE  KeptFor(g, s)'
<1>1. ~OpenListed(g, s)' /\ \A t : ~Listed(g, s, t)'
  BY DEF OpenListed, Listed
<1>2. ~Asks(g, s)'
  BY <1>1 DEF Asks, OpenInHand, OpenAtLoop, NoJob, IdleLoop
<1>3. \A t \in ThreadIds : Named(g, s, t)' => reg'[g][s] = t
  BY <1>1 DEF Named, AtLoop, NoJob, IdleLoop
<1> QED
  BY <1>2, <1>3 DEF KeptFor, AwaitsNamed

LEMMA KeptCrash ==
  ASSUME RightOwners, NEW a \in Gens, Crash(a),
         NEW g \in Gens, NEW s \in Sessions, KeptFor(g, s)
  PROVE  KeptFor(g, s)'
<1> USE DEF RightOwners, TypeOK
<1>1. CASE g = a
  <2>1. /\ queue'[g] = <<>> /\ job'[g] = NoJob /\ threads'[g][s] = NoThread /\ gen' = gen
        /\ g = gen => handler' = IdleLoop /\ toAdopt' = {}
    BY <1>1 DEF Crash, PumpTypes
  <2> QED
    BY <2>1, KeptEmpty
<1>2. CASE g # a
  <2>1. /\ queue'[g] = queue[g] /\ job'[g] = job[g] /\ threads'[g] = threads[g]
        /\ UNCHANGED <<reg, gen>>
        /\ g = gen => UNCHANGED <<handler, toAdopt>>
    BY <1>2 DEF Crash, bookVars, careVars, PumpTypes
  <2>2. /\ \A t : Listed(g, s, t)' => Listed(g, s, t)
        /\ OpenListed(g, s)' => OpenListed(g, s)
    BY <2>1, ListSame
  <2>3. ASSUME NEW t \in ThreadIds, Named(g, s, t)' PROVE Named(g, s, t)
    BY <2>1, <2>2, <2>3 DEF Named, AtLoop
  <2>4. (OpenInHand(g, s)' => OpenInHand(g, s)) /\ (Asks(g, s)' => Asks(g, s))
    BY <2>1, <2>2 DEF Asks, OpenInHand, OpenAtLoop
  <2> QED
    BY <2>1, <2>3, <2>4, KeptStays
<1> QED
  BY <1>1, <1>2

LEMMA KeptElect ==
  ASSUME RightOwners, Phased, Elect, NEW g \in Gens, NEW s \in Sessions,
         g <= gen' , g <= gen => KeptFor(g, s)
  PROVE  KeptFor(g, s)'
<1> USE DEF RightOwners, TypeOK
<1>1. /\ gen \in Nat /\ gen' = gen + 1 /\ gen' \in Gens /\ g \in Nat
      /\ status[gen] \in {"draining", "gone"}
      /\ UNCHANGED <<handler, toAdopt, queue, job, threads>>
      /\ reg' = [reg EXCEPT ![gen + 1] = disk]
  BY DEF Elect, careVars, pumpVars, ServeTypes, Gens
<1>2. CASE g = gen + 1
  <2>1. g > gen
    BY <1>1, <1>2
  <2>2. queue[g] = <<>> /\ job[g] = NoJob /\ threads[g][s] = NoThread
    BY <2>1 DEF Phased, Untouched
  <2>3. handler = IdleLoop /\ toAdopt = {}
    BY <1>1 DEF Phased, Phases, Serving
  <2> QED
    BY <1>1, <2>2, <2>3, KeptEmpty
<1>3. CASE g # gen + 1
  <2>1. g <= gen /\ g # gen'
    BY <1>1, <1>3
  <2>2. KeptFor(g, s)
    BY <2>1
  <2>3. reg'[g] = reg[g]
    BY <1>1, <1>3 DEF BookTypes
  <2>4. /\ \A t : Listed(g, s, t)' => Listed(g, s, t)
        /\ OpenListed(g, s)' => OpenListed(g, s)
    BY <1>1, ListSame
  <2>5. ASSUME NEW t \in ThreadIds, Named(g, s, t)' PROVE Named(g, s, t)
    BY <1>1, <2>1, <2>3, <2>4, <2>5 DEF Named
  <2>6. (OpenInHand(g, s)' => OpenInHand(g, s)) /\ (Asks(g, s)' => Asks(g, s))
    BY <1>1, <2>1, <2>4 DEF Asks, OpenInHand
  <2> QED
    BY <1>1, <2>2, <2>3, <2>5, <2>6, KeptStays
<1> QED
  BY <1>2, <1>3

-----------------------------------------------------------------------------
(* The phases of a broker, and the gateways that were never elected.       *)

LEMMA PhasedSame ==
  ASSUME Phased, UNCHANGED <<handler, gen, status, toAdopt, pumpVars>>
  PROVE  Phased'
  BY DEF Phased, Untouched, Phases, AdoptsName, Serving, pumpVars

LEMMA PhasedInit == Init => Phased
<1> SUFFICES ASSUME Init PROVE Phased
  OBVIOUS
<1>1. \A g \in Gens : g > 1 => g # 1
  BY DEF Gens
<1>2. 1 \in Gens
  BY DEF Gens
<1>3. Untouched
  BY <1>1 DEF Init, Untouched
<1>4. Phases
  BY <1>2 DEF Init, Phases, Serving
<1>5. ASSUME NEW g \in Gens, NEW i \in 1 .. Len(queue[g]) PROVE FALSE
  BY <1>5 DEF Init
<1>6. AdoptsName
  BY <1>5 DEF Init, AdoptsName, NoJob
<1> QED
  BY <1>3, <1>4, <1>6 DEF Phased

\* What stands in line after a step: what stood there, and the job scheduled.
LEMMA AdoptsAdded ==
  ASSUME TypeOK, AdoptsName, NEW g \in Gens, NEW j \in Jobs, Schedule(g, j),
         j.kind = "adopt" => j.thread \in ThreadIds, UNCHANGED job
  PROVE  AdoptsName'
<1>1. ASSUME NEW h \in Gens, NEW i \in 1 .. Len(queue'[h]), queue'[h][i].kind = "adopt"
      PROVE  queue'[h][i].thread \in ThreadIds
  <2>1. CASE h = g
    <3>0. \A n \in 1 .. Len(queue'[g]) :
            queue'[g][n] = j \/ \E k \in 1 .. Len(queue[g]) : queue'[g][n] = queue[g][k]
      BY AddedLine DEF TypeOK
    <3>1. queue'[h][i] = j \/ \E k \in 1 .. Len(queue[h]) : queue'[h][i] = queue[h][k]
      BY <2>1, <3>0
    <3> QED
      BY <1>1, <3>1 DEF AdoptsName
  <2>2. CASE h # g
    <3>1. queue'[h] = queue[h]
      BY <2>2, AddedLine DEF TypeOK
    <3> QED
      BY <1>1, <3>1 DEF AdoptsName
  <2> QED
    BY <2>1, <2>2
<1> QED
  BY <1>1 DEF AdoptsName

LEMMA AdoptsTaken ==
  ASSUME TypeOK, AdoptsName, NEW g \in Gens, queue[g] # <<>>, Take(g)
  PROVE  /\ \A h \in Gens : \A i \in 1 .. Len(queue'[h]) :
              queue'[h][i].kind = "adopt" => queue'[h][i].thread \in ThreadIds
         /\ NextJob(g).kind = "adopt" => NextJob(g).thread \in ThreadIds
<1>1. ASSUME NEW h \in Gens, NEW i \in 1 .. Len(queue'[h]), queue'[h][i].kind = "adopt"
      PROVE  queue'[h][i].thread \in ThreadIds
  <2>1. CASE h = g
    <3>1. \E k \in 1 .. Len(queue[g]) : queue'[g][i] = queue[g][k]
      BY <1>1, <2>1, TakenLine DEF TypeOK
    <3> QED
      BY <1>1, <2>1, <3>1 DEF AdoptsName
  <2>2. CASE h # g
    <3>1. queue'[h] = queue[h]
      BY <2>2, TakenLine DEF TypeOK
    <3> QED
      BY <1>1, <3>1 DEF AdoptsName
  <2> QED
    BY <2>1, <2>2
<1>2. 1 \in 1 .. Len(queue[g]) /\ queue[g][1] = NextJob(g)
  BY HeadListed DEF TypeOK
<1> QED
  BY <1>1, <1>2 DEF AdoptsName

\* A gateway that was never elected has no pump.
LEMMA PumpsElected ==
  ASSUME TypeOK, Phased, NEW g \in Gens, Pumping(g)
  PROVE  ~(g > gen)
  BY DEF Phased, Untouched, Pumping

LEMMA PhasedPump ==
  ASSUME TypeOK, Phased, NEW g \in Gens, Pumping(g),
         UNCHANGED <<handler, gen, status, toAdopt>>,
         \A h \in Gens : h # g =>
           queue'[h] = queue[h] /\ job'[h] = job[h] /\ threads'[h] = threads[h],
         AdoptsName'
  PROVE  Phased'
<1>1. ~(g > gen)
  BY PumpsElected
<1>2. Untouched'
  BY <1>1 DEF Phased, Untouched
<1>3. Phases'
  BY DEF Phased, Phases, Serving
<1> QED
  BY <1>2, <1>3 DEF Phased

LEMMA PhasedSchedule ==
  ASSUME TypeOK, Phased, NEW j \in Jobs, Schedule(gen, j),
         j.kind = "adopt" => j.thread \in ThreadIds,
         UNCHANGED <<gen, status, job, threads>>,
         UNCHANGED toAdopt \/ (status[gen] = "adopting"),
         UNCHANGED handler \/ Serving
  PROVE  Phased'
<1>0. gen \in Gens /\ ~(gen > gen)
  BY DEF TypeOK, ServeTypes, Gens
<1>1. \A h \in Gens : h # gen => queue'[h] = queue[h]
  BY <1>0, AddedLine DEF TypeOK
<1>2. Untouched'
  BY <1>0, <1>1 DEF Phased, Untouched
<1>3. Phases'
  BY DEF Phased, Phases, Serving
<1>4. AdoptsName'
  BY <1>0, AdoptsAdded DEF Phased
<1> QED
  BY <1>2, <1>3, <1>4 DEF Phased

LEMMA PhasedNext == RightOwners /\ Phased /\ [Next]_vars => Phased'
<1> SUFFICES ASSUME RightOwners, Phased, [Next]_vars PROVE Phased'
  OBVIOUS
<1> USE DEF RightOwners, TypeOK
<1>0. gen \in Gens /\ gen \in Nat /\ ~(gen > gen)
  BY DEF ServeTypes, Gens
<1>1. ASSUME NEW s \in Sessions, SendRegister(s) PROVE Phased'
  BY <1>1, PhasedSame DEF SendRegister, clientVars, serveVars, careVars
<1>2. ASSUME NEW s \in Sessions, SendRelease(s) PROVE Phased'
  BY <1>2, PhasedSame DEF SendRelease, clientVars, serveVars, careVars
<1>3. ASSUME NEW s \in Sessions, Die(s) PROVE Phased'
  BY <1>3, PhasedSame DEF Die, clientVars, serveVars, careVars
<1>9. ASSUME RefuseRelease PROVE Phased'
  BY <1>9, PhasedSame DEF RefuseRelease, clientVars, serveVars, careVars
<1>10. ASSUME NEW s \in Sessions, Suspect(s) PROVE Phased'
  BY <1>10, PhasedSame DEF Suspect, clientVars, serveVars, careVars
<1>11. ASSUME NEW s \in Sessions, HearFrom(s) PROVE Phased'
  BY <1>11, PhasedSame DEF HearFrom, clientVars, serveVars, careVars
<1>12. ASSUME SweepCollect PROVE Phased'
  BY <1>12, PhasedSame DEF SweepCollect, clientVars, serveVars, careVars
<1>4. ASSUME BeginRegister PROVE Phased'
  BY <1>4 DEF BeginRegister, careVars, pumpVars, Phased, Untouched, Phases, AdoptsName, Serving
<1>5. ASSUME Upsert PROVE Phased'
  BY <1>5 DEF Upsert, careVars, pumpVars, IdleLoop, Phased, Untouched, Phases, AdoptsName, Serving
<1>6. ASSUME Claim PROVE Phased'
  BY <1>6 DEF Claim, careVars, pumpVars, IdleLoop, Phased, Untouched, Phases, AdoptsName, Serving
<1>7. ASSUME OpenThread PROVE Phased'
  <2> DEFINE j == Job("open", handler.session, NoThread)
  <2>1. /\ UNCHANGED <<gen, status, job, threads, toAdopt>> /\ Schedule(gen, j)
        /\ handler.pc = "claimed" /\ handler.session \in Sessions
    BY <1>7 DEF OpenThread, careVars, ServeTypes
  <2>2. j \in Jobs /\ j.kind = "open"
    BY <2>1, JobType DEF Job
  <2>3. Serving
    BY <2>1 DEF Phased, Phases, IdleLoop
  <2> HIDE DEF j
  <2> QED
    BY <2>1, <2>2, <2>3, PhasedSchedule
<1>8. ASSUME Release PROVE Phased'
  <2> DEFINE e == Head(wire).session
             j == Job("archive", e, NoThread)
  <2>1. /\ UNCHANGED <<gen, status, job, threads, toAdopt, handler>> /\ Schedule(gen, j)
        /\ wire # <<>>
    BY <1>8 DEF Release, Forget, careVars
  <2>2. e \in Sessions
    BY <2>1, WireType
  <2>3. j \in Jobs /\ j.kind = "archive"
    BY <2>2, JobType DEF Job
  <2> HIDE DEF j
  <2> QED
    BY <2>1, <2>3, PhasedSchedule
<1>13. ASSUME NEW s \in Sessions, SweepNext(s) PROVE Phased'
  <2> DEFINE j == Job("archive", s, NoThread)
  <2>1. UNCHANGED <<gen, status, job, threads, toAdopt, handler>> /\ Schedule(gen, j)
    BY <1>13 DEF SweepNext, Forget, serveVars
  <2>3. j \in Jobs /\ j.kind = "archive"
    BY JobType DEF Job
  <2> HIDE DEF j
  <2> QED
    BY <2>1, <2>3, PhasedSchedule
<1>14. ASSUME AdoptBegin PROVE Phased'
  <2>1. /\ UNCHANGED <<gen, handler, queue, job, threads>>
        /\ status[gen] = "started" /\ status' = [status EXCEPT ![gen] = "adopting"]
    BY <1>14 DEF AdoptBegin, pumpVars
  <2>2. \A g \in Gens : g > gen => status'[g] = status[g]
    BY <1>0, <2>1 DEF ServeTypes
  <2>3. status'[gen] = "adopting"
    BY <1>0, <2>1 DEF ServeTypes
  <2>4. Untouched' /\ AdoptsName'
    BY <2>1, <2>2 DEF Phased, Untouched, AdoptsName
  <2>5. Phases'
    BY <2>1, <2>3 DEF Phases, Serving
  <2> QED
    BY <2>4, <2>5 DEF Phased
<1>15. ASSUME AdoptNext PROVE Phased'
  <2>1. UNCHANGED <<gen, handler, job, threads>> /\ status[gen] = "adopting"
    BY <1>15 DEF AdoptNext
  <2>2. CASE toAdopt = {}
    <3>1. /\ UNCHANGED <<toAdopt, queue>>
          /\ status' = [status EXCEPT ![gen] = "serving"]
      BY <1>15, <2>2 DEF AdoptNext
    <3>2. \A g \in Gens : g > gen => status'[g] = status[g]
      BY <1>0, <3>1 DEF ServeTypes
    <3>3. status'[gen] = "serving"
      BY <1>0, <3>1 DEF ServeTypes
    <3>4. Untouched' /\ AdoptsName'
      BY <2>1, <3>1, <3>2 DEF Phased, Untouched, AdoptsName
    <3>5. Phases'
      BY <2>1, <2>2, <3>1, <3>3 DEF Phases, Serving
    <3> QED
      BY <3>4, <3>5 DEF Phased
  <2>3. CASE toAdopt # {}
    <3>1. PICK st \in toAdopt : Schedule(gen, Job("adopt", st[1], st[2])) /\ UNCHANGED status
      BY <1>15, <2>3 DEF AdoptNext
    <3> DEFINE j == Job("adopt", st[1], st[2])
    <3>2. Schedule(gen, j)
      BY <3>1
    <3>3. j \in Jobs /\ j.thread \in ThreadIds
      BY JobType DEF CareTypes, Job
    <3> HIDE DEF j
    <3> QED
      BY <2>1, <3>1, <3>2, <3>3, PhasedSchedule
  <2> QED
    BY <2>2, <2>3
<1>16. ASSUME StandDown PROVE Phased'
  <2>1. /\ UNCHANGED <<gen, handler, toAdopt, queue, job, threads>>
        /\ status[gen] = "serving" /\ handler = IdleLoop
        /\ status' = [status EXCEPT ![gen] = "draining"]
    BY <1>16 DEF StandDown, careVars, pumpVars
  <2>2. \A g \in Gens : g > gen => status'[g] = status[g]
    BY <1>0, <2>1 DEF ServeTypes
  <2>3. status'[gen] = "draining"
    BY <1>0, <2>1 DEF ServeTypes
  <2>4. Untouched' /\ AdoptsName'
    BY <2>1, <2>2 DEF Phased, Untouched, AdoptsName
  <2>5. Phases'
    BY <2>1, <2>3 DEF Phased, Phases
  <2> QED
    BY <2>4, <2>5 DEF Phased
<1>17. ASSUME Elect PROVE Phased'
  <2>1. /\ UNCHANGED <<handler, toAdopt, queue, job, threads>>
        /\ status[gen] \in {"draining", "gone"} /\ gen' = gen + 1 /\ gen + 1 \in Gens
        /\ status' = [status EXCEPT ![gen + 1] = "started"]
    BY <1>17, <1>0 DEF Elect, careVars, pumpVars, Gens
  <2>2. \A g \in Gens : g > gen' => g > gen /\ status'[g] = status[g]
    BY <1>0, <2>1 DEF ServeTypes, Gens
  <2>3. status'[gen'] = "started" /\ toAdopt = {}
    BY <2>1 DEF ServeTypes, Phased, Phases
  <2>4. Untouched' /\ AdoptsName'
    BY <2>1, <2>2 DEF Phased, Untouched, AdoptsName
  <2>5. Phases'
    BY <2>1, <2>3 DEF Phases, Serving
  <2> QED
    BY <2>4, <2>5 DEF Phased
<1>18. ASSUME Restart PROVE Phased'
  <2>1. /\ UNCHANGED <<gen, toAdopt, queue, job, threads>>
        /\ status[gen] = "serving"
        /\ status' = [status EXCEPT ![gen] = "started"]
    BY <1>18 DEF Restart, careVars, pumpVars
  <2>2. \A g \in Gens : g > gen => status'[g] = status[g]
    BY <1>0, <2>1 DEF ServeTypes
  <2>3. status'[gen] = "started" /\ toAdopt = {}
    BY <1>0, <2>1 DEF ServeTypes, Phased, Phases
  <2>4. Untouched' /\ AdoptsName'
    BY <2>1, <2>2 DEF Phased, Untouched, AdoptsName
  <2>5. Phases'
    BY <2>1, <2>3 DEF Phases, Serving
  <2> QED
    BY <2>4, <2>5 DEF Phased
<1>19. ASSUME NEW g \in Gens, Crash(g) PROVE Phased'
  <2>1. /\ gen' = gen /\ Pumping(g)
        /\ status' = [status EXCEPT ![g] = "gone"]
        /\ queue' = [queue EXCEPT ![g] = <<>>] /\ job' = [job EXCEPT ![g] = NoJob]
        /\ threads' = [threads EXCEPT ![g] = [s \in Sessions |-> NoThread]]
        /\ IF g = gen THEN handler' = IdleLoop /\ toAdopt' = {}
                      ELSE UNCHANGED <<handler, toAdopt>>
    BY <1>19 DEF Crash, careVars
  <2>2. ~(g > gen)
    BY <2>1, PumpsElected
  <2>3. \A h \in Gens : h # g => /\ status'[h] = status[h] /\ queue'[h] = queue[h]
                                 /\ job'[h] = job[h] /\ threads'[h] = threads[h]
    BY <2>1 DEF ServeTypes, PumpTypes
  <2>4. Untouched'
    BY <2>1, <2>2, <2>3 DEF Phased, Untouched
  <2>5. status'[g] = "gone" /\ queue'[g] = <<>> /\ job'[g] = NoJob
    BY <2>1 DEF ServeTypes, PumpTypes
  <2>6. Phases'
    <3>1. CASE g = gen
      BY <2>1, <2>5, <3>1 DEF Phases
    <3>2. CASE g # gen
      <4>1. status'[gen] = status[gen]
        BY <1>0, <2>3, <3>2
      <4> QED
        BY <2>1, <3>2, <4>1 DEF Phased, Phases, Serving
    <3> QED
      BY <3>1, <3>2
  <2>7. AdoptsName'
    <3>1. job'[g].kind # "adopt" /\ \A i \in 1 .. Len(queue'[g]) : FALSE
      BY <2>5 DEF NoJob
    <3> QED
      BY <2>3, <3>1 DEF Phased, AdoptsName
  <2> QED
    BY <2>4, <2>6, <2>7 DEF Phased
<1>20. ASSUME NEW g \in Gens, OpenExisting(g) PROVE Phased'
  <2>1. /\ Pumping(g) /\ queue[g] # <<>> /\ Take(g)
        /\ UNCHANGED <<handler, gen, status, toAdopt, job, threads>>
    BY <1>20 DEF OpenExisting, serveVars, careVars
  <2>2. AdoptsName'
    BY <2>1, AdoptsTaken DEF Phased, AdoptsName
  <2>3. \A h \in Gens : h # g => queue'[h] = queue[h]
    BY <2>1, TakenLine
  <2> QED
    BY <2>1, <2>2, <2>3, PhasedPump
<1>21. ASSUME NEW g \in Gens, OpenBegin(g) PROVE Phased'
  <2>1. /\ Pumping(g) /\ queue[g] # <<>> /\ Take(g)
        /\ job' = [job EXCEPT ![g] = NextJob(g)]
        /\ UNCHANGED <<handler, gen, status, toAdopt, threads>>
    BY <1>21 DEF OpenBegin, serveVars, careVars
  <2>2. /\ \A h \in Gens : h # g => job'[h] = job[h]
        /\ job'[g] = NextJob(g)
    BY <2>1 DEF PumpTypes
  <2>3. AdoptsName'
    BY <2>1, <2>2, AdoptsTaken DEF Phased, AdoptsName
  <2>4. \A h \in Gens : h # g => queue'[h] = queue[h]
    BY <2>1, TakenLine
  <2> QED
    BY <2>1, <2>2, <2>3, <2>4, PhasedPump
<1>25. ASSUME NEW g \in Gens, AdoptJobBegin(g) PROVE Phased'
  <2>1. /\ Pumping(g) /\ queue[g] # <<>> /\ Take(g)
        /\ job' = [job EXCEPT ![g] = NextJob(g)]
        /\ UNCHANGED <<handler, gen, status, toAdopt, threads>>
    BY <1>25 DEF AdoptJobBegin, serveVars, careVars
  <2>2. /\ \A h \in Gens : h # g => job'[h] = job[h]
        /\ job'[g] = NextJob(g)
    BY <2>1 DEF PumpTypes
  <2>3. AdoptsName'
    BY <2>1, <2>2, AdoptsTaken DEF Phased, AdoptsName
  <2>4. \A h \in Gens : h # g => queue'[h] = queue[h]
    BY <2>1, TakenLine
  <2> QED
    BY <2>1, <2>2, <2>3, <2>4, PhasedPump
<1>22. ASSUME NEW g \in Gens, Created(g) PROVE Phased'
  <2>1. PICK t \in ThreadIds : /\ Hold(g, job[g].session, t)
                               /\ job' = [job EXCEPT ![g] = [@ EXCEPT !.thread = t]]
    BY <1>22 DEF Created
  <2>2. /\ UNCHANGED <<handler, gen, status, toAdopt, queue>> /\ Pumping(g)
        /\ job[g].kind = "open"
    BY <1>22 DEF Created, serveVars, careVars
  <2>3. job[g] \in Jobs
    BY <2>2 DEF PumpTypes, NoJob
  <2>4. job'[g].kind = "open" /\ \A h \in Gens : h # g => job'[h] = job[h]
    BY <2>1, <2>2, <2>3 DEF PumpTypes, Jobs
  <2>5. \A h \in Gens : h # g => threads'[h] = threads[h]
    BY <2>1 DEF Hold, PumpTypes
  <2>6. AdoptsName'
    BY <2>2, <2>4 DEF Phased, AdoptsName
  <2> QED
    BY <2>2, <2>4, <2>5, <2>6, PhasedPump
<1>23. ASSUME NEW g \in Gens, CreateFails(g) PROVE Phased'
  <2>1. /\ Pumping(g) /\ job' = [job EXCEPT ![g] = NoJob]
        /\ UNCHANGED <<handler, gen, status, toAdopt, queue, threads>>
    BY <1>23 DEF CreateFails, serveVars, careVars
  <2>2. job'[g] = NoJob /\ \A h \in Gens : h # g => job'[h] = job[h]
    BY <2>1 DEF PumpTypes
  <2>3. AdoptsName'
    BY <2>1, <2>2 DEF Phased, AdoptsName, NoJob
  <2> QED
    BY <2>1, <2>2, <2>3, PhasedPump
<1>24. ASSUME NEW g \in Gens, Opened(g) PROVE Phased'
  <2>1. /\ Pumping(g) /\ job' = [job EXCEPT ![g] = NoJob]
        /\ UNCHANGED <<handler, gen, status, toAdopt, queue, threads>>
    BY <1>24 DEF Opened, serveVars, careVars
  <2>2. job'[g] = NoJob /\ \A h \in Gens : h # g => job'[h] = job[h]
    BY <2>1 DEF PumpTypes
  <2>3. AdoptsName'
    BY <2>1, <2>2 DEF Phased, AdoptsName, NoJob
  <2> QED
    BY <2>1, <2>2, <2>3, PhasedPump
<1>26. ASSUME NEW g \in Gens, Adopted(g) PROVE Phased'
  <2>1. /\ Pumping(g) /\ job' = [job EXCEPT ![g] = NoJob]
        /\ UNCHANGED <<handler, gen, status, toAdopt, queue>>
        /\ Hold(g, job[g].session, job[g].thread) \/ UNCHANGED threads
    BY <1>26 DEF Adopted, serveVars, careVars
  <2>2. job'[g] = NoJob /\ \A h \in Gens : h # g => job'[h] = job[h]
    BY <2>1 DEF PumpTypes
  <2>3. \A h \in Gens : h # g => threads'[h] = threads[h]
    BY <2>1 DEF Hold, PumpTypes
  <2>4. AdoptsName'
    BY <2>1, <2>2 DEF Phased, AdoptsName, NoJob
  <2> QED
    BY <2>1, <2>2, <2>3, <2>4, PhasedPump
<1>28. ASSUME NEW g \in Gens, Archived(g) PROVE Phased'
  <2>1. /\ Pumping(g) /\ job' = [job EXCEPT ![g] = NoJob]
        /\ UNCHANGED <<handler, gen, status, toAdopt, queue, threads>>
    BY <1>28 DEF Archived, serveVars, careVars
  <2>2. job'[g] = NoJob /\ \A h \in Gens : h # g => job'[h] = job[h]
    BY <2>1 DEF PumpTypes
  <2>3. AdoptsName'
    BY <2>1, <2>2 DEF Phased, AdoptsName, NoJob
  <2> QED
    BY <2>1, <2>2, <2>3, PhasedPump
<1>27. ASSUME NEW g \in Gens, ArchiveJobBegin(g) PROVE Phased'
  <2> DEFINE e == NextJob(g).session
  <2>1. /\ Pumping(g) /\ queue[g] # <<>> /\ Take(g)
        /\ UNCHANGED <<handler, gen, status, toAdopt>>
        /\ \/ UNCHANGED <<job, threads>>
           \/ /\ job' = [job EXCEPT ![g] = Job("archive", e, threads[g][e])]
              /\ Hold(g, e, NoThread)
    BY <1>27 DEF ArchiveJobBegin, serveVars, careVars
  <2>2. /\ \A h \in Gens : h # g => job'[h] = job[h] /\ threads'[h] = threads[h]
        /\ job'[g] = job[g] \/ job'[g].kind = "archive"
    BY <2>1 DEF PumpTypes, Hold, Job
  <2>3. AdoptsName'
    BY <2>1, <2>2, AdoptsTaken DEF Phased, AdoptsName
  <2>4. \A h \in Gens : h # g => queue'[h] = queue[h]
    BY <2>1, TakenLine
  <2> QED
    BY <2>1, <2>2, <2>3, <2>4, PhasedPump
<1>29. CASE UNCHANGED vars
  BY <1>29, PhasedSame DEF vars, serveVars, careVars
<1> QED
  BY <1>1, <1>2, <1>3, <1>4, <1>5, <1>6, <1>7, <1>8, <1>9, <1>10, <1>11,
     <1>12, <1>13, <1>14, <1>15, <1>16, <1>17, <1>18, <1>19, <1>20, <1>21,
     <1>22, <1>23, <1>24, <1>25, <1>26, <1>27, <1>28, <1>29
     DEF Next, ClientStep, AcceptStep, SuspectStep, SweepStep, AdoptStep, Pump,
         BrokerStep

-----------------------------------------------------------------------------
(* While nothing was restarted, every running session is kept right.       *)

KeptSafe == RightOwners /\ Phased /\ Kept

LEMMA KeptInit == Init => Kept
<1> SUFFICES ASSUME Init, NEW g \in Gens, NEW s \in Sessions PROVE KeptFor(g, s)
  BY DEF Kept
<1>1. reg[g][s] = NoRecord /\ threads[g][s] = NoThread
  BY DEF Init
<1>2. ASSUME NEW t \in ThreadIds PROVE ~Named(g, s, t)
  <2>1. t # NoThread /\ t # NoRecord
    BY NoThreadIsNoId
  <2>2. ~Listed(g, s, t)
    BY DEF Init, Listed
  <2> QED
    BY <1>1, <2>1, <2>2 DEF Init, Named, AtLoop, NoJob, IdleLoop
<1> QED
  BY <1>1, <1>2 DEF KeptFor

\* A step with no restart and no election keeps Kept, if it keeps what holds
\* of each gateway and each session that runs before and after it.
LEMMA KeptByEach ==
  ASSUME TypeOK, Onward, Kept, UNCHANGED <<gen, restarts>>,
         \A g \in Gens, s \in Sessions :
           client[s] = "live" /\ client'[s] = "live" /\ KeptFor(g, s) => KeptFor(g, s)'
  PROVE  Kept'
<1> SUFFICES ASSUME restarts' = 0, NEW g \in Gens, NEW s \in Sessions,
                    g <= gen', client'[s] = "live"
             PROVE  KeptFor(g, s)'
  BY DEF Kept
<1>1. client[s] = "live"
  BY DEF Onward
<1>2. KeptFor(g, s)
  BY <1>1 DEF Kept
<1> QED
  BY <1>1, <1>2

LEMMA KeptNext == KeptSafe /\ [Next]_vars => Kept'
<1> SUFFICES ASSUME KeptSafe, [Next]_vars PROVE Kept'
  OBVIOUS
<1>0. TypeOK /\ Onward /\ RightOwners /\ Phased /\ Kept
  BY OnwardNext DEF KeptSafe, RightOwners
<1>t. PumpTypes /\ ServeTypes
  BY <1>0 DEF TypeOK
<1>i. ASSUME UNCHANGED <<queue, reg, threads, handler, toAdopt, gen, restarts>>,
             \A g \in Gens : job'[g] = job[g] \/ job'[g] = NoJob
      PROVE  Kept'
  BY <1>0, <1>i, KeptIdle, KeptByEach
<1>1. ASSUME NEW s \in Sessions, SendRegister(s) PROVE Kept'
  BY <1>1, <1>i DEF SendRegister, clientVars, serveVars, bookVars, careVars, pumpVars
<1>2. ASSUME NEW s \in Sessions, SendRelease(s) PROVE Kept'
  BY <1>2, <1>i DEF SendRelease, clientVars, serveVars, bookVars, careVars, pumpVars
<1>3. ASSUME NEW s \in Sessions, Die(s) PROVE Kept'
  BY <1>3, <1>i DEF Die, clientVars, serveVars, bookVars, careVars, pumpVars
<1>9. ASSUME RefuseRelease PROVE Kept'
  BY <1>9, <1>i DEF RefuseRelease, clientVars, serveVars, bookVars, careVars, pumpVars
<1>10. ASSUME NEW s \in Sessions, Suspect(s) PROVE Kept'
  BY <1>10, <1>i DEF Suspect, clientVars, serveVars, bookVars, careVars, pumpVars
<1>11. ASSUME NEW s \in Sessions, HearFrom(s) PROVE Kept'
  BY <1>11, <1>i DEF HearFrom, clientVars, serveVars, bookVars, careVars, pumpVars
<1>12. ASSUME SweepCollect PROVE Kept'
  BY <1>12, <1>i DEF SweepCollect, clientVars, serveVars, bookVars, careVars, pumpVars
<1>16. ASSUME StandDown PROVE Kept'
  BY <1>16, <1>i DEF StandDown, clientVars, serveVars, bookVars, careVars, pumpVars
<1>23. ASSUME NEW g \in Gens, CreateFails(g) PROVE Kept'
  <2>1. /\ UNCHANGED <<queue, reg, threads, handler, toAdopt, gen, restarts>>
        /\ job' = [job EXCEPT ![g] = NoJob]
    BY <1>23 DEF CreateFails, serveVars, bookVars, careVars
  <2>2. \A h \in Gens : job'[h] = job[h] \/ job'[h] = NoJob
    BY <1>t, <2>1 DEF PumpTypes
  <2> QED
    BY <1>i, <2>1, <2>2
<1>28. ASSUME NEW g \in Gens, Archived(g) PROVE Kept'
  <2>1. /\ UNCHANGED <<queue, reg, threads, handler, toAdopt, gen, restarts>>
        /\ job' = [job EXCEPT ![g] = NoJob]
    BY <1>28 DEF Archived, serveVars, bookVars, careVars
  <2>2. \A h \in Gens : job'[h] = job[h] \/ job'[h] = NoJob
    BY <1>t, <2>1 DEF PumpTypes
  <2> QED
    BY <1>i, <2>1, <2>2
<1>4. ASSUME BeginRegister PROVE Kept'
  <2>1. UNCHANGED <<gen, restarts>>
    BY <1>4 DEF BeginRegister
  <2> QED
    BY <1>0, <1>4, <2>1, KeptBeginRegister, KeptByEach
<1>5. ASSUME Upsert PROVE Kept'
  <2>1. UNCHANGED <<gen, restarts>>
    BY <1>5 DEF Upsert
  <2> QED
    BY <1>0, <1>5, <2>1, KeptUpsert, KeptByEach
<1>6. ASSUME Claim PROVE Kept'
  <2>1. UNCHANGED <<gen, restarts>>
    BY <1>6 DEF Claim
  <2> QED
    BY <1>0, <1>6, <2>1, KeptClaim, KeptByEach
<1>7. ASSUME OpenThread PROVE Kept'
  <2>1. UNCHANGED <<gen, restarts>>
    BY <1>7 DEF OpenThread
  <2> QED
    BY <1>0, <1>7, <2>1, KeptOpenThread, KeptByEach
<1>14. ASSUME AdoptBegin PROVE Kept'
  <2>1. UNCHANGED <<gen, restarts>>
    BY <1>14 DEF AdoptBegin
  <2> QED
    BY <1>0, <1>14, <2>1, KeptAdoptBegin, KeptByEach
<1>15. ASSUME AdoptNext PROVE Kept'
  <2>1. UNCHANGED <<gen, restarts>>
    BY <1>15 DEF AdoptNext
  <2> QED
    BY <1>0, <1>15, <2>1, KeptAdoptNext, KeptByEach
<1>8. ASSUME Release PROVE Kept'
  <2> DEFINE e == Head(wire).session
  <2>1. /\ UNCHANGED <<gen, restarts, threads, job, toAdopt, handler>> /\ Forget(e)
        /\ wire # <<>> /\ Head(wire).kind = "release"
    BY <1>8 DEF Release, careVars
  <2>2. Head(wire) \in RightFrames
    BY <1>0, <2>1, RightHead DEF RightOwners
  <2>3. e \in Sessions /\ client[e] # "live"
    BY <2>1, <2>2 DEF RightFrames, Frames
  <2> HIDE DEF e
  <2> QED
    BY <1>0, <2>1, <2>3, KeptForget, KeptByEach
<1>13. ASSUME NEW s \in Sessions, SweepNext(s) PROVE Kept'
  <2>1. /\ UNCHANGED <<gen, restarts, threads, job, toAdopt, handler>> /\ Forget(s)
        /\ s \in sweep
    BY <1>13 DEF SweepNext, serveVars
  <2>2. client[s] # "live"
    BY <1>0, <2>1 DEF RightOwners, RightCare
  <2> QED
    BY <1>0, <2>1, <2>2, KeptForget, KeptByEach
<1>19. ASSUME NEW a \in Gens, Crash(a) PROVE Kept'
  <2>1. UNCHANGED <<gen, restarts>>
    BY <1>19 DEF Crash, serveVars
  <2> QED
    BY <1>0, <1>19, <2>1, KeptCrash, KeptByEach
<1>20. ASSUME NEW a \in Gens, OpenExisting(a) PROVE Kept'
  <2>1. UNCHANGED <<gen, restarts>>
    BY <1>20 DEF OpenExisting, serveVars
  <2> QED
    BY <1>0, <1>20, <2>1, KeptOpenExisting, KeptByEach
<1>22. ASSUME NEW a \in Gens, Created(a) PROVE Kept'
  <2>1. UNCHANGED <<gen, restarts>>
    BY <1>22 DEF Created, serveVars
  <2> QED
    BY <1>0, <1>22, <2>1, KeptCreated, KeptByEach
<1>24. ASSUME NEW a \in Gens, Opened(a) PROVE Kept'
  <2>1. UNCHANGED <<gen, restarts>>
    BY <1>24 DEF Opened, serveVars
  <2> QED
    BY <1>0, <1>24, <2>1, KeptOpened, KeptByEach
<1>26. ASSUME NEW a \in Gens, Adopted(a) PROVE Kept'
  <2>1. UNCHANGED <<gen, restarts>>
    BY <1>26 DEF Adopted, serveVars
  <2> QED
    BY <1>0, <1>26, <2>1, KeptAdopted, KeptByEach
<1>27. ASSUME NEW a \in Gens, ArchiveJobBegin(a) PROVE Kept'
  <2>1. UNCHANGED <<gen, restarts>>
    BY <1>27 DEF ArchiveJobBegin, serveVars
  <2> QED
    BY <1>0, <1>27, <2>1, KeptArchiveBegin, KeptByEach
<1>21. ASSUME NEW a \in Gens, OpenBegin(a) PROVE Kept'
  <2>1. /\ queue[a] # <<>> /\ Take(a) /\ job' = [job EXCEPT ![a] = NextJob(a)]
        /\ NextJob(a).kind = "open" => ~HasThread(a, NextJob(a).session)
        /\ UNCHANGED <<reg, threads, handler, toAdopt, gen, restarts>>
    BY <1>21 DEF OpenBegin, serveVars, bookVars, careVars
  <2> QED
    BY <1>0, <2>1, KeptJobBegin, KeptByEach
<1>25. ASSUME NEW a \in Gens, AdoptJobBegin(a) PROVE Kept'
  <2>1. /\ queue[a] # <<>> /\ Take(a) /\ job' = [job EXCEPT ![a] = NextJob(a)]
        /\ NextJob(a).kind = "open" => ~HasThread(a, NextJob(a).session)
        /\ UNCHANGED <<reg, threads, handler, toAdopt, gen, restarts>>
    BY <1>25 DEF AdoptJobBegin, serveVars, bookVars, careVars
  <2> QED
    BY <1>0, <2>1, KeptJobBegin, KeptByEach
<1>17. ASSUME Elect PROVE Kept'
  <2> SUFFICES ASSUME restarts' = 0, NEW g \in Gens, NEW s \in Sessions,
                      g <= gen', client'[s] = "live"
               PROVE  KeptFor(g, s)'
    BY DEF Kept
  <2>1. restarts = 0 /\ client[s] = "live"
    BY <1>17 DEF Elect, clientVars
  <2>2. g <= gen => KeptFor(g, s)
    BY <1>0, <2>1 DEF Kept
  <2> QED
    BY <1>0, <1>17, <2>2, KeptElect
<1>18. ASSUME Restart PROVE Kept'
  <2>1. restarts' # 0
    BY <1>t, <1>18 DEF Restart, ServeTypes
  <2> QED
    BY <2>1 DEF Kept
<1>29. CASE UNCHANGED vars
  BY <1>29, <1>i DEF vars, serveVars, bookVars, careVars, pumpVars
<1> QED
  BY <1>1, <1>2, <1>3, <1>4, <1>5, <1>6, <1>7, <1>8, <1>9, <1>10, <1>11,
     <1>12, <1>13, <1>14, <1>15, <1>16, <1>17, <1>18, <1>19, <1>20, <1>21,
     <1>22, <1>23, <1>24, <1>25, <1>26, <1>27, <1>28, <1>29
     DEF Next, ClientStep, AcceptStep, SuspectStep, SweepStep, AdoptStep, Pump,
         BrokerStep

LEMMA KeptSafeAlways == Spec => []KeptSafe
<1>1. Init => KeptSafe
  BY RightInit, PhasedInit, KeptInit DEF KeptSafe
<1>2. KeptSafe /\ [Next]_vars => KeptSafe'
  BY RightNext, PhasedNext, KeptNext DEF KeptSafe
<1> QED
  BY <1>1, <1>2, PTL DEF Spec

\* Only Created makes a thread.
LEMMA OwnersChange == [Next]_vars => UNCHANGED owner \/ \E a \in Gens : Created(a)
<1> SUFFICES ASSUME [Next]_vars, ~ \E a \in Gens : Created(a) PROVE UNCHANGED owner
  OBVIOUS
<1>1. ASSUME ClientStep PROVE UNCHANGED owner
  BY <1>1 DEF ClientStep, SendRegister, SendRelease, Die, worldVars
<1>2. ASSUME AcceptStep PROVE UNCHANGED owner
  BY <1>2 DEF AcceptStep, BeginRegister, Upsert, Claim, OpenThread, Release, RefuseRelease, worldVars
<1>3. ASSUME SuspectStep PROVE UNCHANGED owner
  BY <1>3 DEF SuspectStep, Suspect, HearFrom, worldVars
<1>4. ASSUME SweepStep PROVE UNCHANGED owner
  BY <1>4 DEF SweepStep, SweepCollect, SweepNext, worldVars
<1>5. ASSUME AdoptStep PROVE UNCHANGED owner
  BY <1>5 DEF AdoptStep, AdoptBegin, AdoptNext, worldVars
<1>6. ASSUME BrokerStep PROVE UNCHANGED owner
  BY <1>6 DEF BrokerStep, StandDown, Elect, Restart, Crash, worldVars
<1>7. ASSUME NEW g \in Gens, Pump(g) PROVE UNCHANGED owner
  BY <1>7 DEF Pump, OpenExisting, OpenBegin, CreateFails, Opened, AdoptJobBegin,
     Adopted, ArchiveJobBegin, Archived, worldVars
<1>8. CASE UNCHANGED vars
  BY <1>8 DEF vars, worldVars
<1> QED
  BY <1>1, <1>2, <1>3, <1>4, <1>5, <1>6, <1>7, <1>8 DEF Next

\* The thread that Created makes is for a session no record of which names one.
LEMMA NoneRebuilt ==
  ASSUME KeptSafe, NEW a \in Gens, Created(a), restarts = 0,
         NEW t \in ThreadIds, owner[t] = NoSession, owner'[t] # NoSession,
         client[owner'[t]] = "live"
  PROVE  reg[maker'[t]][owner'[t]] \notin ThreadIds
<1> USE DEF KeptSafe, RightOwners, TypeOK
<1> DEFINE e == job[a].session
<1>1. PICK u \in ThreadIds : /\ owner' = [owner EXCEPT ![u] = e]
                             /\ maker' = [maker EXCEPT ![u] = a]
  BY DEF Created
<1>2. /\ t = u /\ owner'[t] = e /\ maker'[t] = a
  BY <1>1 DEF WorldTypes
<1>3. Pumping(a) /\ job[a].kind = "open" /\ job[a].thread = NoThread
  BY DEF Created
<1>4. job[a] \in Jobs
  BY <1>3 DEF PumpTypes, NoJob
<1>5. e \in Sessions
  BY <1>4 DEF Jobs
<1>6. a <= gen
  BY <1>3, PumpsElected DEF ServeTypes, Gens
<1>7. KeptFor(a, e)
  BY <1>2, <1>5, <1>6 DEF Kept
<1>8. OpenInHand(a, e)
  BY <1>3 DEF OpenInHand
<1>9. ~ \E v \in ThreadIds : Named(a, e, v)
  BY <1>7, <1>8 DEF KeptFor, HoldsNamed, AwaitsNamed, Asks
<1> QED
  BY <1>2, <1>9 DEF Named

\* A re-registration does not shred the history of a session: no broker whose
\* serving thread never restarted opens a thread for a running session whose
\* record names one, whatever Discord answers and however brokers follow each
\* other (broker_server.py:284-295, broker_threads.py: ensure_thread).
THEOREM NoThreadRebuilt == Spec => NeverRebuilt
<1> DEFINE Step == \A t \in ThreadIds :
       (restarts = 0 /\ owner[t] = NoSession /\ owner'[t] # NoSession /\ client[owner'[t]] = "live")
         => reg[maker'[t]][owner'[t]] \notin ThreadIds
<1>1. ASSUME KeptSafe, [Next]_vars PROVE [Step]_vars
  <2>1. CASE \E a \in Gens : Created(a)
    BY <1>1, <2>1, NoneRebuilt
  <2>2. CASE UNCHANGED owner
    BY <2>2
  <2>3. UNCHANGED owner \/ \E a \in Gens : Created(a)
    BY <1>1, OwnersChange
  <2> QED
    BY <2>1, <2>2, <2>3
<1> QED
  BY <1>1, KeptSafeAlways, PTL DEF Spec, NeverRebuilt

-----------------------------------------------------------------------------
(* The record of a session that runs names a thread its gateway does not   *)
(* hold only as long as the adoption of that thread is still to come.      *)

Adopts(j, s, t) == j.kind = "adopt" /\ j.session = s /\ j.thread = t

AdoptionDue(s, t) ==
  \/ status[gen] = "started"
  \/ <<s, t>> \in toAdopt
  \/ Adopts(job[gen], s, t)
  \/ \E i \in 1 .. Len(queue[gen]) : Adopts(queue[gen][i], s, t)

DueFor(s) ==
  /\ client[s] = "live" /\ Serving
  /\ reg[gen][s] \in ThreadIds /\ threads[gen][s] = NoThread
  => AdoptionDue(s, reg[gen][s])

AdoptionsDue == restarts = 0 => \A s \in Sessions : DueFor(s)

LEMMA DueStays ==
  ASSUME TypeOK, Onward, KeptSafe, AdoptionsDue, UNCHANGED <<gen, restarts>>,
         Serving' => Serving,
         \A s \in Sessions :
           /\ KeptFor(gen, s) /\ threads[gen][s] = NoThread
             /\ reg'[gen][s] \in ThreadIds => reg'[gen][s] = reg[gen][s]
           /\ threads'[gen][s] = NoThread /\ client[s] = "live" => threads[gen][s] = NoThread
           /\ \A t \in ThreadIds :
                AdoptionDue(s, t) /\ threads'[gen][s] = NoThread /\ Serving'
                  /\ reg[gen][s] = t => AdoptionDue(s, t)'
  PROVE  AdoptionsDue'
<1> SUFFICES ASSUME restarts' = 0, NEW s \in Sessions, client'[s] = "live", Serving',
                    reg'[gen][s] \in ThreadIds, threads'[gen][s] = NoThread
             PROVE  AdoptionDue(s, reg[gen][s])' 
  BY DEF AdoptionsDue, DueFor
<1>1. client[s] = "live" /\ restarts = 0 /\ threads[gen][s] = NoThread
  BY DEF Onward
<1>2. gen \in Gens /\ gen <= gen
  BY DEF TypeOK, ServeTypes, Gens
<1>3. KeptFor(gen, s)
  BY <1>1, <1>2 DEF KeptSafe, Kept
<1>4. reg'[gen][s] = reg[gen][s]
  BY <1>1, <1>3
<1>5. AdoptionDue(s, reg[gen][s])
  BY <1>1, <1>4 DEF AdoptionsDue, DueFor
<1>6. \A t \in ThreadIds : reg[gen][s] = t => AdoptionDue(s, t)'
  BY <1>5
<1>7. PICK t \in ThreadIds : reg[gen][s] = t
  BY <1>4
<1>8. AdoptionDue(s, t)'
  BY <1>6, <1>7
<1>9. reg'[gen'][s] = t
  BY <1>4, <1>7
<1> QED
  BY <1>8, <1>9

LEMMA DueMoves ==
  ASSUME NEW s, NEW t, AdoptionDue(s, t), UNCHANGED <<gen, status, toAdopt>>,
         \A i \in 1 .. Len(queue[gen]) : Adopts(queue[gen][i], s, t) =>
           \/ \E k \in 1 .. Len(queue'[gen]) : queue'[gen][k] = queue[gen][i]
           \/ job'[gen] = queue[gen][i],
         Adopts(job[gen], s, t) => job'[gen] = job[gen]
  PROVE  AdoptionDue(s, t)'
<1>1. CASE status[gen] = "started" \/ <<s, t>> \in toAdopt
  BY <1>1 DEF AdoptionDue
<1>2. CASE Adopts(job[gen], s, t)
  BY <1>2 DEF AdoptionDue, Adopts
<1>3. CASE \E i \in 1 .. Len(queue[gen]) : Adopts(queue[gen][i], s, t)
  BY <1>3 DEF AdoptionDue, Adopts
<1> QED
  BY <1>1, <1>2, <1>3 DEF AdoptionDue

\* Whatever else happens, adoptions wait where they are.
LEMMA DueQuiet ==
  ASSUME TypeOK, Onward, KeptSafe, AdoptionsDue,
         UNCHANGED <<gen, status, restarts, reg, toAdopt, queue>>,
         threads'[gen] = threads[gen],
         Adopts(job[gen], job[gen].session, job[gen].thread) => job'[gen] = job[gen]
  PROVE  AdoptionsDue'
<1>1. ASSUME NEW s \in Sessions, NEW t \in ThreadIds, AdoptionDue(s, t)
      PROVE  AdoptionDue(s, t)'
  BY <1>1, DueMoves DEF Adopts
<1> QED
  BY <1>1, DueStays DEF Serving

LEMMA DueScheduled ==
  ASSUME TypeOK, Onward, KeptSafe, AdoptionsDue, NEW j \in Jobs, Schedule(gen, j),
         UNCHANGED <<gen, status, restarts, toAdopt, threads, job>>,
         \A s \in Sessions : reg'[gen][s] \in ThreadIds => reg'[gen][s] = reg[gen][s]
  PROVE  AdoptionsDue'
<1>1. gen \in Gens /\ PumpTypes
  BY DEF TypeOK, ServeTypes
<1>2. \A i \in 1 .. Len(queue[gen]) :
        \E k \in 1 .. Len(queue'[gen]) : queue'[gen][k] = queue[gen][i]
  BY <1>1, AddedLine
<1>3. ASSUME NEW s \in Sessions, NEW t \in ThreadIds, AdoptionDue(s, t)
      PROVE  AdoptionDue(s, t)'
  BY <1>2, <1>3, DueMoves
<1> QED
  BY <1>3, DueStays DEF Serving

\* A pump takes its next job: an adoption becomes the job in hand.
LEMMA DueTaken ==
  ASSUME TypeOK, Onward, KeptSafe, AdoptionsDue, NEW a \in Gens,
         queue[a] # <<>>, Take(a),
         UNCHANGED <<gen, status, restarts, toAdopt>>,
         a = gen /\ NextJob(a).kind = "adopt" => job'[gen] = NextJob(a),
         Adopts(job[gen], job[gen].session, job[gen].thread) => job'[gen] = job[gen],
         \A s \in Sessions :
           /\ KeptFor(gen, s) /\ threads[gen][s] = NoThread
             /\ reg'[gen][s] \in ThreadIds => reg'[gen][s] = reg[gen][s]
           /\ threads'[gen][s] = NoThread /\ client[s] = "live" => threads[gen][s] = NoThread
  PROVE  AdoptionsDue'
<1>1. gen \in Gens /\ PumpTypes
  BY DEF TypeOK, ServeTypes
<1>2. ASSUME NEW s \in Sessions, NEW t \in ThreadIds, AdoptionDue(s, t)
      PROVE  AdoptionDue(s, t)'
  <2>1. ASSUME NEW i \in 1 .. Len(queue[gen]), Adopts(queue[gen][i], s, t)
        PROVE  \/ \E k \in 1 .. Len(queue'[gen]) : queue'[gen][k] = queue[gen][i]
               \/ job'[gen] = queue[gen][i]
    <3>1. CASE a = gen
      <4>1. \/ queue[gen][i] = NextJob(gen)
            \/ \E k \in 1 .. Len(queue'[gen]) : queue'[gen][k] = queue[gen][i]
        BY <1>1, <3>1, TakenLine
      <4> QED
        BY <2>1, <3>1, <4>1 DEF Adopts
    <3>2. CASE a # gen
      <4>1. queue'[gen] = queue[gen]
        BY <1>1, <3>2, TakenLine
      <4> QED
        BY <4>1
    <3> QED
      BY <3>1, <3>2
  <2>2. Adopts(job[gen], s, t) => job'[gen] = job[gen]
    BY DEF Adopts
  <2> QED
    BY <1>2, <2>1, <2>2, DueMoves
<1> QED
  BY <1>2, DueStays DEF Serving

\* The thread a gateway records was named before, or it holds that thread.
LEMMA RecordsNamed ==
  ASSUME TypeOK, NEW a \in Gens, NEW e \in Sessions, NEW t \in ThreadIds,
         RecordThread(a, e, t), Named(a, e, t) \/ threads[a][e] = t,
         NEW s \in Sessions, KeptFor(gen, s), threads[gen][s] = NoThread
  PROVE  reg'[gen][s] = reg[gen][s]
<1>1. gen \in Gens
  BY DEF TypeOK, ServeTypes
<1> QED
  BY <1>1, KeptRecords

LEMMA DueNext ==
  KeptSafe /\ AdoptionsDue /\ [Next]_vars /\ ResolveOutcomes \subseteq {TRUE} => AdoptionsDue'
<1> SUFFICES ASSUME KeptSafe, AdoptionsDue, [Next]_vars, ResolveOutcomes \subseteq {TRUE}
             PROVE  AdoptionsDue'
  OBVIOUS
<1>0. /\ TypeOK /\ Onward /\ RightOwners /\ Phased
      /\ PumpTypes /\ ServeTypes /\ BookTypes
      /\ gen \in Gens /\ ~(gen > gen)
  BY OnwardNext DEF KeptSafe, RightOwners, TypeOK, ServeTypes, Gens
<1>q. ASSUME UNCHANGED <<gen, status, restarts, reg, toAdopt, queue, job, threads>>
      PROVE  AdoptionsDue'
  BY <1>0, <1>q, DueQuiet
<1>1. ASSUME NEW s \in Sessions, SendRegister(s) PROVE AdoptionsDue'
  BY <1>1, <1>q DEF SendRegister, clientVars, serveVars, bookVars, careVars, pumpVars
<1>2. ASSUME NEW s \in Sessions, SendRelease(s) PROVE AdoptionsDue'
  BY <1>2, <1>q DEF SendRelease, clientVars, serveVars, bookVars, careVars, pumpVars
<1>3. ASSUME NEW s \in Sessions, Die(s) PROVE AdoptionsDue'
  BY <1>3, <1>q DEF Die, clientVars, serveVars, bookVars, careVars, pumpVars
<1>4. ASSUME BeginRegister PROVE AdoptionsDue'
  BY <1>4, <1>q DEF BeginRegister, clientVars, serveVars, bookVars, careVars, pumpVars
<1>6. ASSUME Claim PROVE AdoptionsDue'
  BY <1>6, <1>q DEF Claim, clientVars, serveVars, bookVars, careVars, pumpVars
<1>9. ASSUME RefuseRelease PROVE AdoptionsDue'
  BY <1>9, <1>q DEF RefuseRelease, clientVars, serveVars, bookVars, careVars, pumpVars
<1>10. ASSUME NEW s \in Sessions, Suspect(s) PROVE AdoptionsDue'
  BY <1>10, <1>q DEF Suspect, clientVars, serveVars, bookVars, careVars, pumpVars
<1>11. ASSUME NEW s \in Sessions, HearFrom(s) PROVE AdoptionsDue'
  BY <1>11, <1>q DEF HearFrom, clientVars, serveVars, bookVars, careVars, pumpVars
<1>12. ASSUME SweepCollect PROVE AdoptionsDue'
  BY <1>12, <1>q DEF SweepCollect, clientVars, serveVars, bookVars, careVars, pumpVars
<1>5. ASSUME Upsert PROVE AdoptionsDue'
  <2>1. /\ UNCHANGED <<gen, status, restarts, toAdopt, queue, job, threads>>
        /\ handler.session \in Sessions
        /\ reg' = [reg EXCEPT ![gen] = [@ EXCEPT ![handler.session] = handler.thread]]
    BY <1>0, <1>5 DEF Upsert, SaveRecord, careVars, pumpVars, ServeTypes
  <2>2. ASSUME NEW s \in Sessions, KeptFor(gen, s), threads[gen][s] = NoThread,
               reg'[gen][s] \in ThreadIds
        PROVE  reg'[gen][s] = reg[gen][s]
    <3>1. CASE handler.session = s
      <4>1. reg'[gen][s] = handler.thread
        BY <1>0, <2>1, <3>1 DEF BookTypes
      <4>2. handler.thread \in ThreadIds /\ Named(gen, s, handler.thread)
        BY <2>2, <3>1, <4>1 DEF Named, AtLoop
      <4> QED
        BY <2>2, <4>1, <4>2 DEF KeptFor, AwaitsNamed
    <3>2. CASE handler.session # s
      BY <1>0, <2>1, <3>2 DEF BookTypes
    <3> QED
      BY <3>1, <3>2
  <2>3. ASSUME NEW s \in Sessions, NEW t \in ThreadIds, AdoptionDue(s, t)
        PROVE  AdoptionDue(s, t)'
    BY <2>1, <2>3, DueMoves
  <2> QED
    BY <1>0, <2>1, <2>2, <2>3, DueStays DEF Serving
<1>7. ASSUME OpenThread PROVE AdoptionsDue'
  <2> DEFINE j == Job("open", handler.session, NoThread)
  <2>1. /\ UNCHANGED <<gen, status, restarts, toAdopt, threads, job, reg>>
        /\ Schedule(gen, j) /\ handler.session \in Sessions
    BY <1>0, <1>7 DEF OpenThread, bookVars, careVars, ServeTypes
  <2>2. j \in Jobs
    BY <2>1, JobType
  <2> HIDE DEF j
  <2> QED
    BY <1>0, <2>1, <2>2, DueScheduled
<1>f. ASSUME NEW e \in Sessions, Forget(e),
             UNCHANGED <<gen, status, restarts, toAdopt, threads, job>>
      PROVE  AdoptionsDue'
  <2> DEFINE j == Job("archive", e, NoThread)
  <2>1. Schedule(gen, j) /\ j \in Jobs
    BY <1>f, JobType DEF Forget
  <2>2. \A s \in Sessions : reg'[gen][s] = reg[gen][s] \/ reg'[gen][s] = NoRecord
    BY <1>0, <1>f DEF Forget, SaveRecord, BookTypes
  <2>3. NoRecord \notin ThreadIds
    BY NoThreadIsNoId
  <2> HIDE DEF j
  <2> QED
    BY <1>0, <1>f, <2>1, <2>2, <2>3, DueScheduled
<1>8. ASSUME Release PROVE AdoptionsDue'
  <2>1. /\ UNCHANGED <<gen, status, restarts, toAdopt, threads, job>>
        /\ Forget(Head(wire).session) /\ wire # <<>>
    BY <1>8 DEF Release, careVars
  <2>2. Head(wire).session \in Sessions
    BY <1>0, <2>1, WireType
  <2> QED
    BY <1>f, <2>1, <2>2
<1>13. ASSUME NEW s \in Sessions, SweepNext(s) PROVE AdoptionsDue'
  BY <1>f, <1>13 DEF SweepNext, serveVars
<1>14. ASSUME AdoptBegin PROVE AdoptionsDue'
  <2>1. /\ UNCHANGED <<gen, restarts, reg, queue, job, threads>>
        /\ toAdopt' = {st \in Sessions \X ThreadIds :
                         Adoptable(st[1]) /\ reg[gen][st[1]] = st[2]}
        /\ status[gen] = "started"
    BY <1>14 DEF AdoptBegin, bookVars, pumpVars
  <2>2. ASSUME NEW s \in Sessions, NEW t \in ThreadIds, reg[gen][s] = t
        PROVE  AdoptionDue(s, t)'
    <3>1. <<s, t>> \in toAdopt'
      BY <2>1, <2>2 DEF Adoptable
    <3> QED
      BY <3>1 DEF AdoptionDue
  <2> QED
    BY <1>0, <2>1, <2>2, DueStays DEF Serving
<1>15. ASSUME AdoptNext PROVE AdoptionsDue'
  <2>1. /\ UNCHANGED <<gen, restarts, reg, job, threads>> /\ status[gen] = "adopting"
    BY <1>15 DEF AdoptNext, bookVars
  <2>2. CASE toAdopt = {}
    <3>1. UNCHANGED queue
      BY <1>15, <2>2 DEF AdoptNext
    <3>2. ASSUME NEW s \in Sessions, NEW t \in ThreadIds, AdoptionDue(s, t)
          PROVE  AdoptionDue(s, t)'
      BY <2>1, <2>2, <3>1, <3>2 DEF AdoptionDue
    <3> QED
      BY <1>0, <2>1, <3>2, DueStays DEF Serving
  <2>3. CASE toAdopt # {}
    <3>1. PICK st \in toAdopt : /\ Schedule(gen, Job("adopt", st[1], st[2]))
                                /\ toAdopt' = toAdopt \ {st} /\ UNCHANGED status
      BY <1>15, <2>3 DEF AdoptNext
    <3> DEFINE j == Job("adopt", st[1], st[2])
    <3>2. Schedule(gen, j)
      BY <3>1
    <3>3. st[1] \in Sessions /\ st[2] \in ThreadIds /\ st = <<st[1], st[2]>>
      BY <1>0 DEF TypeOK, CareTypes
    <3>4. j \in Jobs /\ Adopts(j, st[1], st[2])
      BY <3>3, JobType DEF Job, Adopts
    <3> HIDE DEF j
    <3>5. /\ \A i \in 1 .. Len(queue[gen]) :
               \E k \in 1 .. Len(queue'[gen]) : queue'[gen][k] = queue[gen][i]
          /\ \E k \in 1 .. Len(queue'[gen]) : queue'[gen][k] = j
      BY <1>0, <3>2, <3>4, AddedLine
    <3>6. ASSUME NEW s \in Sessions, NEW t \in ThreadIds, AdoptionDue(s, t)
          PROVE  AdoptionDue(s, t)'
      <4>1. CASE <<s, t>> \in toAdopt'
        BY <4>1 DEF AdoptionDue
      <4>2. CASE <<s, t>> = st
        <5>1. Adopts(j, s, t)
          BY <3>3, <3>4, <4>2 DEF Adopts
        <5> QED
          BY <2>1, <3>5, <5>1 DEF AdoptionDue
      <4>3. CASE <<s, t>> \notin toAdopt
        BY <2>1, <3>1, <3>5, <3>6, <4>3 DEF AdoptionDue, Adopts
      <4> QED
        BY <3>1, <4>1, <4>2, <4>3
    <3> QED
      BY <1>0, <2>1, <3>1, <3>6, DueStays DEF Serving
  <2> QED
    BY <2>2, <2>3
<1>16. ASSUME StandDown PROVE AdoptionsDue'
  <2>1. gen' = gen /\ status'[gen] = "draining"
    BY <1>0, <1>16 DEF StandDown, ServeTypes
  <2> QED
    BY <2>1 DEF AdoptionsDue, DueFor, Serving
<1>17. ASSUME Elect PROVE AdoptionsDue'
  <2>1. status'[gen'] = "started"
    BY <1>0, <1>17 DEF Elect, ServeTypes, Gens
  <2> QED
    BY <2>1 DEF AdoptionsDue, DueFor, AdoptionDue
<1>18. ASSUME Restart PROVE AdoptionsDue'
  <2>1. restarts' # 0
    BY <1>0, <1>18 DEF Restart, ServeTypes
  <2> QED
    BY <2>1 DEF AdoptionsDue
<1>19. ASSUME NEW a \in Gens, Crash(a) PROVE AdoptionsDue'
  <2>1. CASE a = gen
    <3>1. gen' = gen /\ status'[gen] = "gone"
      BY <1>0, <1>19, <2>1 DEF Crash, ServeTypes
    <3> QED
      BY <3>1 DEF AdoptionsDue, DueFor, Serving
  <2>2. CASE a # gen
    <3>1. /\ UNCHANGED <<gen, restarts, reg, toAdopt>>
          /\ status'[gen] = status[gen] /\ queue'[gen] = queue[gen]
          /\ job'[gen] = job[gen] /\ threads'[gen] = threads[gen]
      BY <1>0, <1>19, <2>2 DEF Crash, bookVars, careVars, ServeTypes, PumpTypes
    <3>2. ASSUME NEW s \in Sessions, NEW t \in ThreadIds, AdoptionDue(s, t)
          PROVE  AdoptionDue(s, t)'
      BY <3>1, <3>2 DEF AdoptionDue
    <3> QED
      BY <1>0, <3>1, <3>2, DueStays DEF Serving
  <2> QED
    BY <2>1, <2>2
<1>20. ASSUME NEW a \in Gens, OpenExisting(a) PROVE AdoptionsDue'
  <2> DEFINE e == NextJob(a).session
             m == threads[a][e]
  <2>1. /\ queue[a] # <<>> /\ Take(a) /\ RecordThread(a, e, m) /\ m # NoThread
        /\ NextJob(a).kind = "open"
        /\ UNCHANGED <<gen, status, restarts, toAdopt, job, threads>>
    BY <1>20 DEF OpenExisting, HasThread, serveVars, careVars
  <2>2. NextJob(a) \in Jobs
    BY <1>0, <2>1, HeadListed
  <2>3. e \in Sessions
    BY <2>2 DEF Jobs
  <2>4. m \in ThreadIds
    BY <1>0, <2>1, <2>3 DEF PumpTypes
  <2> HIDE DEF e
  <2>5. ASSUME NEW s \in Sessions, KeptFor(gen, s), threads[gen][s] = NoThread
        PROVE  reg'[gen][s] = reg[gen][s]
    BY <1>0, <2>1, <2>3, <2>4, <2>5, RecordsNamed
  <2> QED
    BY <1>0, <2>1, <2>5, DueTaken
<1>21. ASSUME NEW a \in Gens, OpenBegin(a) PROVE AdoptionsDue'
  <2>1. /\ queue[a] # <<>> /\ Take(a) /\ job' = [job EXCEPT ![a] = NextJob(a)]
        /\ job[a] = NoJob
        /\ UNCHANGED <<gen, status, restarts, toAdopt, reg, threads>>
    BY <1>21 DEF OpenBegin, serveVars, bookVars, careVars
  <2>2. /\ a = gen => job'[gen] = NextJob(a)
        /\ Adopts(job[gen], job[gen].session, job[gen].thread) => job'[gen] = job[gen]
    BY <1>0, <2>1 DEF PumpTypes, Adopts, NoJob
  <2> QED
    BY <1>0, <2>1, <2>2, DueTaken
<1>25. ASSUME NEW a \in Gens, AdoptJobBegin(a) PROVE AdoptionsDue'
  <2>1. /\ queue[a] # <<>> /\ Take(a) /\ job' = [job EXCEPT ![a] = NextJob(a)]
        /\ job[a] = NoJob
        /\ UNCHANGED <<gen, status, restarts, toAdopt, reg, threads>>
    BY <1>25 DEF AdoptJobBegin, serveVars, bookVars, careVars
  <2>2. /\ a = gen => job'[gen] = NextJob(a)
        /\ Adopts(job[gen], job[gen].session, job[gen].thread) => job'[gen] = job[gen]
    BY <1>0, <2>1 DEF PumpTypes, Adopts, NoJob
  <2> QED
    BY <1>0, <2>1, <2>2, DueTaken
<1>22. ASSUME NEW a \in Gens, Created(a) PROVE AdoptionsDue'
  <2>1. PICK t \in ThreadIds : /\ Hold(a, job[a].session, t)
                               /\ job' = [job EXCEPT ![a] = [@ EXCEPT !.thread = t]]
    BY <1>22 DEF Created
  <2>2. /\ UNCHANGED <<gen, status, restarts, reg, toAdopt, queue>>
        /\ job[a].kind = "open"
    BY <1>22 DEF Created, serveVars, bookVars, careVars
  <2>3. Adopts(job[gen], job[gen].session, job[gen].thread) => job'[gen] = job[gen]
    BY <1>0, <2>1, <2>2 DEF PumpTypes, Adopts
  <2>4. \A s \in Sessions : threads'[gen][s] = threads[gen][s] \/ threads'[gen][s] = t
    BY <1>0, <2>1 DEF Hold, PumpTypes
  <2>5. t # NoThread
    BY NoThreadIsNoId
  <2>6. ASSUME NEW s \in Sessions, NEW u \in ThreadIds, AdoptionDue(s, u)
        PROVE  AdoptionDue(s, u)'
    BY <2>2, <2>3, <2>6, DueMoves DEF Adopts
  <2> QED
    BY <1>0, <2>2, <2>4, <2>5, <2>6, DueStays DEF Serving
<1>23. ASSUME NEW a \in Gens, CreateFails(a) PROVE AdoptionsDue'
  <2>1. /\ UNCHANGED <<gen, status, restarts, reg, toAdopt, queue, threads>>
        /\ job' = [job EXCEPT ![a] = NoJob] /\ job[a].kind = "open"
    BY <1>23 DEF CreateFails, serveVars, bookVars, careVars
  <2>2. Adopts(job[gen], job[gen].session, job[gen].thread) => job'[gen] = job[gen]
    BY <1>0, <2>1 DEF PumpTypes, Adopts
  <2> QED
    BY <1>0, <2>1, <2>2, DueQuiet
<1>28. ASSUME NEW a \in Gens, Archived(a) PROVE AdoptionsDue'
  <2>1. /\ UNCHANGED <<gen, status, restarts, reg, toAdopt, queue, threads>>
        /\ job' = [job EXCEPT ![a] = NoJob] /\ job[a].kind = "archive"
    BY <1>28 DEF Archived, serveVars, bookVars, careVars
  <2>2. Adopts(job[gen], job[gen].session, job[gen].thread) => job'[gen] = job[gen]
    BY <1>0, <2>1 DEF PumpTypes, Adopts
  <2> QED
    BY <1>0, <2>1, <2>2, DueQuiet
<1>24. ASSUME NEW a \in Gens, Opened(a) PROVE AdoptionsDue'
  <2> DEFINE e == job[a].session
             u == job[a].thread
  <2>1. /\ UNCHANGED <<gen, status, restarts, toAdopt, queue, threads>>
        /\ job[a].kind = "open" /\ u # NoThread
        /\ RecordThread(a, e, u) /\ job' = [job EXCEPT ![a] = NoJob]
    BY <1>24 DEF Opened, serveVars, careVars
  <2>2. job[a] \in Jobs
    BY <1>0, <2>1 DEF PumpTypes, NoJob
  <2>3. e \in Sessions /\ u \in ThreadIds
    BY <2>1, <2>2 DEF Jobs
  <2>4. Named(a, e, u)
    BY DEF Named
  <2> HIDE DEF e, u
  <2>5. ASSUME NEW s \in Sessions, KeptFor(gen, s), threads[gen][s] = NoThread
        PROVE  reg'[gen][s] = reg[gen][s]
    BY <1>0, <2>1, <2>3, <2>4, <2>5, RecordsNamed
  <2>6. Adopts(job[gen], job[gen].session, job[gen].thread) => job'[gen] = job[gen]
    BY <1>0, <2>1 DEF PumpTypes, Adopts
  <2>7. ASSUME NEW s \in Sessions, NEW t \in ThreadIds, AdoptionDue(s, t)
        PROVE  AdoptionDue(s, t)'
    BY <2>1, <2>6, <2>7, DueMoves DEF Adopts
  <2> QED
    BY <1>0, <2>1, <2>5, <2>7, DueStays DEF Serving
<1>26. ASSUME NEW a \in Gens, Adopted(a) PROVE AdoptionsDue'
  <2> DEFINE e == job[a].session
             u == job[a].thread
  <2>1. /\ UNCHANGED <<gen, status, restarts, reg, toAdopt, queue>>
        /\ job[a].kind = "adopt" /\ job' = [job EXCEPT ![a] = NoJob]
        /\ Hold(a, e, u)
    BY <1>26 DEF Adopted, serveVars, bookVars, careVars
  <2>2. job[a] \in Jobs
    BY <1>0, <2>1 DEF PumpTypes, NoJob
  <2>3. e \in Sessions /\ u \in ThreadIds
    BY <1>0, <2>1, <2>2 DEF Jobs, Phased, AdoptsName
  <2>4. u # NoThread
    BY <2>3, NoThreadIsNoId
  <2> HIDE DEF e, u
  <2>5. \A s \in Sessions :
          threads'[gen][s] = IF a = gen /\ s = e THEN u ELSE threads[gen][s]
    BY <1>0, <2>1, <2>3 DEF Hold, PumpTypes
  <2>6. a # gen => job'[gen] = job[gen]
    BY <1>0, <2>1 DEF PumpTypes
  <2>7. ASSUME NEW s \in Sessions, NEW t \in ThreadIds, AdoptionDue(s, t),
               threads'[gen][s] = NoThread
        PROVE  AdoptionDue(s, t)'
    <3>1. Adopts(job[gen], s, t) => a # gen
      BY <2>4, <2>5, <2>7 DEF Adopts, e
    <3> QED
      BY <2>1, <2>6, <2>7, <3>1, DueMoves
  <2> QED
    BY <1>0, <2>1, <2>4, <2>5, <2>7, DueStays DEF Serving
<1>27. ASSUME NEW a \in Gens, ArchiveJobBegin(a) PROVE AdoptionsDue'
  <2> DEFINE e == NextJob(a).session
  <2>1. /\ queue[a] # <<>> /\ Take(a) /\ NextJob(a).kind = "archive" /\ job[a] = NoJob
        /\ UNCHANGED <<gen, status, restarts, toAdopt, reg>>
        /\ \/ UNCHANGED <<job, threads>>
           \/ /\ job' = [job EXCEPT ![a] = Job("archive", e, threads[a][e])]
              /\ Hold(a, e, NoThread)
    BY <1>27 DEF ArchiveJobBegin, serveVars, bookVars, careVars
  <2>2. NextJob(a) \in RightJobs
    BY <1>0, <2>1, RightTake DEF RightOwners
  <2>3. e \in Sessions /\ client[e] # "live"
    BY <2>1, <2>2 DEF RightJobs, Jobs
  <2> HIDE DEF e
  <2>4. Adopts(job[gen], job[gen].session, job[gen].thread) => job'[gen] = job[gen]
    BY <1>0, <2>1 DEF PumpTypes, Adopts, NoJob
  <2>5. \A s \in Sessions : client[s] = "live" => threads'[gen][s] = threads[gen][s]
    <3>1. CASE UNCHANGED threads
      BY <3>1
    <3>2. CASE Hold(a, e, NoThread)
      <4>1. threads' = [threads EXCEPT ![a] = [threads[a] EXCEPT ![e] = NoThread]]
        BY <3>2 DEF Hold
      <4> QED
        BY <1>0, <2>3, <4>1 DEF PumpTypes
    <3> QED
      BY <2>1, <3>1, <3>2
  <2> QED
    BY <1>0, <2>1, <2>4, <2>5, DueTaken
<1>29. CASE UNCHANGED vars
  BY <1>29, <1>q DEF vars, serveVars, bookVars, careVars, pumpVars
<1> QED
  BY <1>1, <1>2, <1>3, <1>4, <1>5, <1>6, <1>7, <1>8, <1>9, <1>10, <1>11,
     <1>12, <1>13, <1>14, <1>15, <1>16, <1>17, <1>18, <1>19, <1>20, <1>21,
     <1>22, <1>23, <1>24, <1>25, <1>26, <1>27, <1>28, <1>29
     DEF Next, ClientStep, AcceptStep, SuspectStep, SweepStep, AdoptStep, Pump,
         BrokerStep

\* A broker that serves and whose queue is drained holds the thread its
\* register names for a running session, as long as recorded threads can be
\* found (broker_gateway.py:281 drops those that cannot) and no serving thread
\* was restarted: for any number of sessions, handovers and crashes.
THEOREM TheRecordedIsHeld ==
  ASSUME ResolveOutcomes \subseteq {TRUE} PROVE Spec => []RecordedIsHeld
<1>1. Init => AdoptionsDue
  BY NoThreadIsNoId DEF Init, AdoptionsDue, DueFor, Gens
<1>2. KeptSafe /\ AdoptionsDue /\ [Next]_vars => AdoptionsDue'
  BY DueNext
<1>3. ASSUME KeptSafe, AdoptionsDue, NEW s \in Sessions, restarts = 0,
             status[gen] = "serving", queue[gen] = <<>>, job[gen] = NoJob,
             client[s] = "live", reg[gen][s] \in ThreadIds
      PROVE  threads[gen][s] = reg[gen][s]
  <2>1. toAdopt = {} /\ gen \in Gens /\ gen <= gen
    BY <1>3 DEF KeptSafe, Phased, Phases, RightOwners, TypeOK, ServeTypes, Gens
  <2>2. ~AdoptionDue(s, reg[gen][s])
    BY <1>3, <2>1 DEF AdoptionDue, Adopts, NoJob
  <2>3. threads[gen][s] # NoThread
    BY <1>3, <2>2 DEF AdoptionsDue, DueFor, Serving
  <2>4. KeptFor(gen, s)
    BY <1>3, <2>1 DEF KeptSafe, Kept
  <2> QED
    BY <1>3, <2>3, <2>4 DEF KeptFor, HoldsNamed, Named
<1>4. KeptSafe /\ AdoptionsDue => RecordedIsHeld
  BY <1>3 DEF RecordedIsHeld
<1> QED
  BY <1>1, <1>2, <1>4, KeptSafeAlways, PTL DEF Spec

-----------------------------------------------------------------------------
(* One thread for a session at one gateway.  A session that has ended can   *)
(* still register once: with the heal of a refused release.  So an adoption *)
(* that is overtaken by an archive either replaces no thread, or it is the  *)
(* last thing that happens to the session at its gateway.                   *)

\* What stands in a gateway's queue.
Is(j, kind, s) == j.kind = kind /\ j.session = s
Has(q, kind, s) == \E i \in 1 .. Len(q) : Is(q[i], kind, s)
OpensLate(q, s) ==
  \E i, k \in 1 .. Len(q) : i < k /\ Is(q[i], "archive", s) /\ Is(q[k], "open", s)
NewOpen(j, s) == Is(j, "open", s) /\ j.thread = NoThread
Making(g, s) == NewOpen(job[g], s)

\* How many registrations a session has left: any number, one or none.
RegisterOnWire(s) == \E i \in 1 .. Len(wire) : wire[i] = Frame("register", s)
Quiet(s)   == ~RegisterOnWire(s) /\ handler.session # s
Past(s)    == client[s] = "dead" \/ s \in healed
OneMore(s) == client[s] # "live" /\ (s \in healed \/ Quiet(s))
NoMore(s)  == client[s] # "live" /\ Past(s) /\ Quiet(s)
Over(g, s) == status[g] = "draining" \/ NoMore(s)

\* At place p of the queue q, with the job j in hand and the mapping m, the
\* adoption of t would replace no other thread.
HarmlessIn(q, j, m, s, t, p) ==
  /\ m \in {NoThread, t}
  /\ ~NewOpen(j, s)
  /\ Is(j, "adopt", s) => j.thread = t
  /\ \A i \in 1 .. Len(q) : i < p =>
       /\ Is(q[i], "adopt", s) => q[i].thread = t
       /\ Is(q[i], "open", s) =>
            m = t /\ \A k \in 1 .. Len(q) : k < i => ~Is(q[k], "archive", s)
Harmless(g, s, t, p) == HarmlessIn(queue[g], job[g], threads[g][s], s, t, p)
\* After place p the gateway opens no thread for the session any more.
FinalFrom(g, s, p) ==
  /\ Over(g, s)
  /\ \A i \in 1 .. Len(queue[g]) : i > p => ~Is(queue[g][i], "open", s)

\* The gateway holds t, waits to hold it, may be asked to adopt it.
Holds(s, t) == threads[gen][s] = t /\ ~Has(queue[gen], "archive", s)
Waits(s, t) ==
  /\ reg[gen][s] = t
  /\ ~Has(queue[gen], "archive", s) /\ ~Has(queue[gen], "open", s)
  /\ ~Is(job[gen], "open", s)
  /\ handler.session = s =>
       handler.pc # "claimed" /\ (handler.pc = "known" => handler.thread = t)
MayAdopt(s, t) ==
  \/ NoMore(s)
  \/ /\ Harmless(gen, s, t, Len(queue[gen]) + 1)
     /\ OneMore(s) \/ Holds(s, t) \/ Waits(s, t)
Reads(s, t) ==
  \/ reg[gen][s] = t
  \/ handler.session = s /\ handler.pc = "known" /\ handler.thread = t

\* An open thread of the gateway that it neither holds nor is archiving.
Mine(g, s, t) == owner[t] = s /\ maker[t] = g /\ t \notin archived
Astray(g, s, t) ==
  /\ Mine(g, s, t) /\ Pumping(g)
  /\ threads[g][s] # t
  /\ ~(job[g].kind = "archive" /\ job[g].thread = t)

\* After its release a session registers once more at most; the sweep takes
\* the dead; a job agrees with the mapping; one gateway drains at a time.
WireInv == \A s \in Sessions :
  /\ s \notin healed =>
       \A i, k \in 1 .. Len(wire) :
         i < k /\ wire[i] = Frame("release", s) => wire[k] # Frame("register", s)
  /\ s \in healed =>
       /\ client[s] # "live"
       /\ \A i, k \in 1 .. Len(wire) :
            wire[i] = Frame("register", s) /\ wire[k] = Frame("register", s) => i = k
       /\ handler.session = s => ~RegisterOnWire(s)
SweepInv ==
  /\ sweep # {} => status[gen] = "serving"
  /\ \A s \in sweep : client[s] = "dead"
DiskInv == gen = 1 => disk = reg[1]
JobInv == \A g \in Gens, s \in Sessions :
  /\ \A i \in 1 .. Len(queue[g]) : Is(queue[g][i], "open", s) => queue[g][i].thread = NoThread
  /\ Is(job[g], "open", s) => threads[g][s] = job[g].thread
  /\ Is(job[g], "archive", s) => threads[g][s] = NoThread
StatusInv == \A g \in Gens : Pumping(g) /\ g # gen => status[g] = "draining"
MakerInv == \A t \in ThreadIds : maker[t] <= gen
Ground == WireInv /\ SweepInv /\ DiskInv /\ JobInv /\ StatusInv /\ MakerInv

Forgotten(s) ==
  client[s] # "live" /\ (Past(s) \/ (Quiet(s) /\ reg[gen][s] = NoRecord))
ForgetInv == \A s \in Sessions :
  /\ Has(queue[gen], "archive", s) => Forgotten(s)
  /\ OpensLate(queue[gen], s) => Past(s)
  /\ status[gen] \in {"started", "adopting"} =>
       /\ Has(queue[gen], "archive", s) => OneMore(s)
       /\ OpensLate(queue[gen], s) => NoMore(s)
RecordInv == gen = 1 /\ Serving => \A s \in Sessions, t \in ThreadIds :
  Reads(s, t) => Holds(s, t) \/ Past(s)
AdoptInv ==
  /\ status[gen] = "started" =>
       \A s \in Sessions, t \in ThreadIds : Reads(s, t) => MayAdopt(s, t)
  /\ \A st \in toAdopt : MayAdopt(st[1], st[2])
  /\ \A st, su \in toAdopt : st[1] = su[1] => st = su
AdoptedInv == \A g \in Gens, s \in Sessions :
  /\ \A p \in 1 .. Len(queue[g]) : Is(queue[g][p], "adopt", s) =>
       Harmless(g, s, queue[g][p].thread, p) \/ FinalFrom(g, s, p)
  /\ Is(job[g], "adopt", s) =>
       threads[g][s] \in {NoThread, job[g].thread} \/ FinalFrom(g, s, 0)
AstrayInv == \A g \in Gens, s \in Sessions, t \in ThreadIds :
  Astray(g, s, t) => FinalFrom(g, s, 0) /\ ~Making(g, s)

OneEach == /\ ForgetInv /\ RecordInv /\ AdoptInv /\ AdoptedInv /\ AstrayInv
           /\ OneThreadPerGateway
SingleSafe ==
  /\ RightOwners /\ Phased /\ Ground
  /\ restarts = 0 \/ gen = 1 => OneEach

-----------------------------------------------------------------------------
(* The queue, place by place.                                              *)

LEMMA QueueShifted ==
  ASSUME PumpTypes, NEW g \in Gens, queue[g] # <<>>, Take(g)
  PROVE  /\ \A h \in Gens : h # g => queue'[h] = queue[h]
         /\ Len(queue[g]) \in Nat /\ Len(queue[g]) > 0
         /\ Len(queue'[g]) \in Nat /\ Len(queue'[g]) = Len(queue[g]) - 1
         /\ queue[g][1] = NextJob(g) /\ NextJob(g) \in Jobs
         /\ \A i \in 1 .. Len(queue'[g]) :
              i + 1 \in 1 .. Len(queue[g]) /\ queue'[g][i] = queue[g][i + 1]
<1> DEFINE q == queue[g]
<1>1. q \in Seq(Jobs) /\ queue'[g] = Tail(q) /\ \A h \in Gens : h # g => queue'[h] = queue[h]
  BY DEF Take, PumpTypes
<1>2. /\ Len(q) \in Nat /\ Len(q) > 0 /\ Len(Tail(q)) = Len(q) - 1 /\ Head(q) = q[1]
      /\ \A i \in 1 .. Len(Tail(q)) : Tail(q)[i] = q[i + 1]
      /\ Head(q) \in Jobs
  BY <1>1, HeadTailProperties, EmptySeq
<1> HIDE DEF q
<1>3. ASSUME NEW i \in 1 .. Len(Tail(q)) PROVE i + 1 \in 1 .. Len(q)
  BY <1>2
<1> QED
  BY <1>1, <1>2, <1>3 DEF q, NextJob

LEMMA QueueGrown ==
  ASSUME PumpTypes, NEW g \in Gens, NEW j \in Jobs, Schedule(g, j)
  PROVE  /\ \A h \in Gens : h # g => queue'[h] = queue[h]
         /\ Len(queue[g]) \in Nat
         /\ Len(queue'[g]) \in Nat /\ Len(queue'[g]) = Len(queue[g]) + 1
         /\ queue'[g][Len(queue[g]) + 1] = j
         /\ \A i \in 1 .. Len(queue[g]) :
              i \in 1 .. Len(queue'[g]) /\ queue'[g][i] = queue[g][i]
<1> DEFINE q == queue[g]
           p == Append(q, j)
<1>1. q \in Seq(Jobs) /\ queue'[g] = p /\ \A h \in Gens : h # g => queue'[h] = queue[h]
  BY DEF Schedule, PumpTypes
<1>2. /\ Len(q) \in Nat /\ Len(p) = Len(q) + 1 /\ p[Len(q) + 1] = j
      /\ \A i \in 1 .. Len(q) : p[i] = q[i]
  BY <1>1, AppendProperties
<1> HIDE DEF p, q
<1> QED
  BY <1>1, <1>2 DEF q

LEMMA QueueLen == PumpTypes => \A g \in Gens : Len(queue[g]) \in Nat
  BY DEF PumpTypes

\* What a queue has after a step it had before, or it is what was scheduled.
LEMMA HasGrown ==
  ASSUME PumpTypes, NEW g \in Gens, NEW j \in Jobs, Schedule(g, j), NEW s, NEW kind
  PROVE  /\ Has(queue[g], kind, s) => Has(queue'[g], kind, s)
         /\ Has(queue'[g], kind, s) => Has(queue[g], kind, s) \/ Is(j, kind, s)
         /\ Is(j, kind, s) => Has(queue'[g], kind, s)
<1> USE QueueGrown
<1>1. Has(queue[g], kind, s) => Has(queue'[g], kind, s)
  BY DEF Has
<1>2. ASSUME NEW i \in 1 .. Len(queue'[g]), Is(queue'[g][i], kind, s)
      PROVE  Has(queue[g], kind, s) \/ Is(j, kind, s)
  <2>1. i = Len(queue[g]) + 1 \/ i \in 1 .. Len(queue[g])
    OBVIOUS
  <2> QED
    BY <1>2, <2>1 DEF Has
<1>3. Len(queue[g]) + 1 \in 1 .. Len(queue'[g])
  OBVIOUS
<1> QED
  BY <1>1, <1>2, <1>3 DEF Has

LEMMA HasShifted ==
  ASSUME PumpTypes, NEW g \in Gens, queue[g] # <<>>, Take(g), NEW s, NEW kind
  PROVE  /\ Has(queue'[g], kind, s) => Has(queue[g], kind, s)
         /\ Has(queue[g], kind, s) => Has(queue'[g], kind, s) \/ Is(NextJob(g), kind, s)
         /\ Is(NextJob(g), kind, s) => Has(queue[g], kind, s)
<1> USE QueueShifted
<1>1. Has(queue'[g], kind, s) => Has(queue[g], kind, s)
  BY DEF Has
<1>2. ASSUME NEW i \in 1 .. Len(queue[g]), Is(queue[g][i], kind, s), i # 1
      PROVE  Has(queue'[g], kind, s)
  <2>1. i - 1 \in 1 .. Len(queue'[g]) /\ (i - 1) + 1 = i
    BY <1>2
  <2>2. queue'[g][i - 1] = queue[g][i]
    BY <2>1
  <2> QED
    BY <1>2, <2>1, <2>2 DEF Has
<1>3. 1 \in 1 .. Len(queue[g])
  OBVIOUS
<1> QED
  BY <1>1, <1>2, <1>3 DEF Has

LEMMA LateGrown ==
  ASSUME PumpTypes, NEW g \in Gens, NEW j \in Jobs, Schedule(g, j), NEW s,
         OpensLate(queue'[g], s)
  PROVE  OpensLate(queue[g], s) \/ (Has(queue[g], "archive", s) /\ Is(j, "open", s))
<1> USE QueueGrown
<1>1. PICK i, k \in 1 .. Len(queue'[g]) :
        i < k /\ Is(queue'[g][i], "archive", s) /\ Is(queue'[g][k], "open", s)
  BY DEF OpensLate
<1>2. i \in 1 .. Len(queue[g]) /\ Is(queue[g][i], "archive", s)
  BY <1>1
<1>3. CASE k \in 1 .. Len(queue[g])
  BY <1>1, <1>2, <1>3 DEF OpensLate
<1>4. CASE k = Len(queue[g]) + 1
  BY <1>1, <1>2, <1>4 DEF Has
<1> QED
  BY <1>3, <1>4

LEMMA LateShifted ==
  ASSUME PumpTypes, NEW g \in Gens, queue[g] # <<>>, Take(g), NEW s,
         OpensLate(queue'[g], s)
  PROVE  OpensLate(queue[g], s)
<1> USE QueueShifted
<1>1. PICK i, k \in 1 .. Len(queue'[g]) :
        i < k /\ Is(queue'[g][i], "archive", s) /\ Is(queue'[g][k], "open", s)
  BY DEF OpensLate
<1>2. /\ i + 1 \in 1 .. Len(queue[g]) /\ k + 1 \in 1 .. Len(queue[g]) /\ i + 1 < k + 1
      /\ queue'[g][i] = queue[g][i + 1] /\ queue'[g][k] = queue[g][k + 1]
  BY <1>1
<1> QED
  BY <1>1, <1>2 DEF OpensLate

-----------------------------------------------------------------------------
(* The wire, and what is left of a session.                                *)

LEMMA FramesDiffer ==
  ASSUME NEW s, NEW e
  PROVE  /\ Frame("register", s) # Frame("release", e)
         /\ Frame("register", s) = Frame("register", e) => s = e
         /\ Frame("release", s) = Frame("release", e) => s = e
         /\ Frame("register", s).kind = "register" /\ Frame("register", s).session = s
         /\ Frame("release", s).kind = "release" /\ Frame("release", s).session = s
  BY DEF Frame

LEMMA FrameIs ==
  ASSUME NEW f \in Frames
  PROVE  f = Frame(f.kind, f.session) /\ f.kind \in {"register", "release"} /\ f.session \in Sessions
  BY DEF Frames, Frame

LEMMA WireGrown ==
  ASSUME ServeTypes, NEW f \in Frames, wire' = Append(wire, f)
  PROVE  /\ Len(wire) \in Nat /\ Len(wire') = Len(wire) + 1
         /\ wire'[Len(wire) + 1] = f
         /\ \A i \in 1 .. Len(wire) : i \in 1 .. Len(wire') /\ wire'[i] = wire[i]
<1>1. wire \in Seq(Frames)
  BY DEF ServeTypes
<1> QED
  BY <1>1, AppendProperties

LEMMA WireShifted ==
  ASSUME ServeTypes, wire # <<>>
  PROVE  /\ Len(wire) \in Nat /\ Len(wire) > 0 /\ Len(Tail(wire)) = Len(wire) - 1
         /\ Tail(wire) \in Seq(Frames) /\ wire[1] = Head(wire) /\ Head(wire) \in Frames
         /\ \A i \in 1 .. Len(Tail(wire)) :
              i + 1 \in 1 .. Len(wire) /\ Tail(wire)[i] = wire[i + 1]
<1> DEFINE q == wire
<1>1. q \in Seq(Frames)
  BY DEF ServeTypes
<1>2. /\ Len(q) \in Nat /\ Len(q) > 0 /\ Len(Tail(q)) = Len(q) - 1 /\ Head(q) = q[1]
      /\ \A i \in 1 .. Len(Tail(q)) : Tail(q)[i] = q[i + 1]
      /\ Tail(q) \in Seq(Frames) /\ Head(q) \in Frames
  BY <1>1, HeadTailProperties, EmptySeq
<1> HIDE DEF q
<1>3. ASSUME NEW i \in 1 .. Len(Tail(q)) PROVE i + 1 \in 1 .. Len(q)
  BY <1>2
<1> QED
  BY <1>2, <1>3 DEF q

\* Who releases has ended.
LEMMA ReleasesEnded ==
  ASSUME RightServe, NEW i \in 1 .. Len(wire), NEW s \in Sessions,
         wire[i] = Frame("release", s)
  PROVE  client[s] # "live"
<1>1. wire[i] \in RightFrames
  BY ElementOfSeq DEF RightServe
<1> QED
  BY <1>1, FramesDiffer DEF RightFrames

\* What a step does to the registrations a session has left.
Fates(s) == /\ Past(s) => Past(s)'
            /\ OneMore(s) => OneMore(s)'
            /\ NoMore(s) => NoMore(s)'

\* Nobody registers: no more frames, and at most an end.
Stiller == /\ \A s \in Sessions : client[s] # "live" => client'[s] # "live"
           /\ \A s \in Sessions : client[s] = "dead" => client'[s] = "dead"
           /\ \A s \in Sessions : handler'.session = s => handler.session = s
           /\ healed' = healed
           /\ wire' = wire \/ wire' = <<>>

LEMMA StillerFates ==
  ASSUME Stiller, NEW s \in Sessions
  PROVE  Fates(s)
<1>1. RegisterOnWire(s)' => RegisterOnWire(s)
  BY DEF Stiller, RegisterOnWire
<1> QED
  BY <1>1 DEF Stiller, Fates, Past, OneMore, NoMore, Quiet

LEMMA StillerWire ==
  ASSUME Stiller, WireInv
  PROVE  WireInv'
<1> SUFFICES ASSUME NEW s \in Sessions
    PROVE  /\ s \notin healed' =>
              \A i, k \in 1 .. Len(wire') :
                i < k /\ wire'[i] = Frame("release", s) => wire'[k] # Frame("register", s)
           /\ s \in healed' =>
              /\ client'[s] # "live"
              /\ \A i, k \in 1 .. Len(wire') :
                   wire'[i] = Frame("register", s) /\ wire'[k] = Frame("register", s) => i = k
              /\ handler'.session = s => ~RegisterOnWire(s)'
  BY DEF WireInv, RegisterOnWire, Frame
<1>1. RegisterOnWire(s)' => RegisterOnWire(s)
  BY DEF Stiller, RegisterOnWire
<1>2. CASE wire' = wire
  BY <1>1, <1>2 DEF Stiller, WireInv
<1>3. CASE wire' = <<>>
  BY <1>1, <1>3 DEF Stiller, WireInv
<1> QED
  BY <1>2, <1>3 DEF Stiller

LEMMA SendRegisterWire ==
  ASSUME RightOwners, WireInv, NEW e \in Sessions, SendRegister(e)
  PROVE  WireInv' /\ \A s \in Sessions : Fates(s)
<1> USE DEF RightOwners, TypeOK
<1>1. /\ wire' = Append(wire, Frame("register", e)) /\ client[e] = "live"
      /\ UNCHANGED <<client, healed, handler>>
  BY DEF SendRegister
<1>2. Frame("register", e) \in Frames
  BY FrameType
<1>3. /\ Len(wire) \in Nat /\ Len(wire') = Len(wire) + 1
      /\ wire'[Len(wire) + 1] = Frame("register", e)
      /\ \A i \in 1 .. Len(wire) : i \in 1 .. Len(wire') /\ wire'[i] = wire[i]
  BY <1>1, <1>2, WireGrown
<1>4. e \notin healed
  BY <1>1 DEF WireInv
<1>5. ASSUME NEW s \in Sessions, s # e PROVE RegisterOnWire(s)' <=> RegisterOnWire(s)
  <2>1. wire'[Len(wire) + 1] # Frame("register", s)
    BY <1>3, <1>5, FramesDiffer
  <2>2. ASSUME NEW i \in 1 .. Len(wire') PROVE i \in 1 .. Len(wire) \/ i = Len(wire) + 1
    BY <1>3
  <2>3. ASSUME NEW i \in 1 .. Len(wire'), wire'[i] = Frame("register", s)
        PROVE  i \in 1 .. Len(wire) /\ wire[i] = Frame("register", s)
    BY <1>3, <2>1, <2>2, <2>3
  <2> QED
    BY <1>3, <2>3 DEF RegisterOnWire, Frame
<1>6. ASSUME NEW s \in Sessions PROVE Fates(s)
  BY <1>1, <1>4, <1>5 DEF Fates, Past, OneMore, NoMore, Quiet
<1>7. ASSUME NEW s \in Sessions, s \notin healed, NEW i \in 1 .. Len(wire'),
             NEW k \in 1 .. Len(wire'), i < k, wire'[i] = Frame("release", s)
      PROVE  wire'[k] # Frame("register", s)
  <2>1. i \in 1 .. Len(wire) /\ wire[i] = Frame("release", s)
    BY <1>3, <1>7
  <2>2. CASE k \in 1 .. Len(wire)
    BY <1>3, <1>7, <2>1, <2>2 DEF WireInv
  <2>3. CASE k = Len(wire) + 1
    <3>1. s # e
      BY <1>1, <2>1, ReleasesEnded
    <3> QED
      BY <1>3, <2>3, <3>1, FramesDiffer
  <2> QED
    BY <1>3, <2>2, <2>3
<1>8. ASSUME NEW s \in Sessions, s \in healed, NEW i \in 1 .. Len(wire'),
             NEW k \in 1 .. Len(wire'), wire'[i] = Frame("register", s),
             wire'[k] = Frame("register", s)
      PROVE  i = k
  <2>1. s # e
    BY <1>4, <1>8
  <2>2. \A n \in 1 .. Len(wire') : n \in 1 .. Len(wire) \/ n = Len(wire) + 1
    BY <1>3
  <2>3. i # Len(wire) + 1 /\ k # Len(wire) + 1
    BY <1>3, <1>8, <2>1, FramesDiffer
  <2>4. i \in 1 .. Len(wire) /\ k \in 1 .. Len(wire)
    BY <2>2, <2>3
  <2> QED
    BY <1>3, <1>8, <2>4 DEF WireInv
<1>9. ASSUME NEW s \in Sessions, s \in healed, handler.session = s PROVE ~RegisterOnWire(s)'
  <2>1. s # e
    BY <1>4, <1>9
  <2> QED
    BY <1>5, <1>9, <2>1 DEF WireInv
<1>10. \A s \in Sessions : s \in healed => client'[s] # "live"
  BY <1>1 DEF WireInv
<1> QED
  BY <1>1, <1>6, <1>7, <1>8, <1>9, <1>10 DEF WireInv, RegisterOnWire, Frame

LEMMA SendReleaseWire ==
  ASSUME RightOwners, WireInv, NEW e \in Sessions, SendRelease(e)
  PROVE  WireInv' /\ \A s \in Sessions : Fates(s)
<1> USE DEF RightOwners, TypeOK
<1>1. /\ client' = [client EXCEPT ![e] = "closing"] /\ client[e] \in {"live", "closing"}
      /\ UNCHANGED <<healed, handler>>
      /\ wire' = wire \/ wire' = Append(wire, Frame("release", e))
  BY DEF SendRelease
<1>a. /\ \A s \in Sessions : client[s] # "live" => client'[s] # "live"
      /\ \A s \in Sessions : client[s] = "dead" => client'[s] = "dead"
  BY <1>1 DEF ClientTypes
<1>2. CASE wire' = wire
  <2>1. Stiller
    BY <1>1, <1>a, <1>2 DEF Stiller
  <2> QED
    BY <2>1, StillerFates, StillerWire
<1>3. CASE wire' = Append(wire, Frame("release", e))
  <2>1. Frame("release", e) \in Frames
    BY FrameType
  <2>2. /\ Len(wire) \in Nat /\ Len(wire') = Len(wire) + 1
        /\ wire'[Len(wire) + 1] = Frame("release", e)
        /\ \A i \in 1 .. Len(wire) : i \in 1 .. Len(wire') /\ wire'[i] = wire[i]
    BY <1>3, <2>1, WireGrown
  <2>3. ASSUME NEW s \in Sessions, NEW i \in 1 .. Len(wire'), wire'[i] = Frame("register", s)
        PROVE  i \in 1 .. Len(wire) /\ wire[i] = Frame("register", s)
    <3>1. i \in 1 .. Len(wire) \/ i = Len(wire) + 1
      BY <2>2
    <3> QED
      BY <2>2, <2>3, <3>1, FramesDiffer
  <2>4. ASSUME NEW s \in Sessions PROVE RegisterOnWire(s)' => RegisterOnWire(s)
    BY <2>3 DEF RegisterOnWire, Frame
  <2>5. ASSUME NEW s \in Sessions PROVE Fates(s)
    BY <1>1, <1>a, <2>4 DEF Fates, Past, OneMore, NoMore, Quiet
  <2>6. ASSUME NEW s \in Sessions, s \notin healed, NEW i \in 1 .. Len(wire'),
               NEW k \in 1 .. Len(wire'), i < k, wire'[i] = Frame("release", s),
               wire'[k] = Frame("register", s)
        PROVE  FALSE
    <3>1. k \in 1 .. Len(wire) /\ wire[k] = Frame("register", s)
      BY <2>3, <2>6
    <3>2. i \in 1 .. Len(wire) /\ wire[i] = Frame("release", s)
      BY <2>2, <2>6, <3>1
    <3> QED
      BY <2>6, <3>1, <3>2 DEF WireInv
  <2>7. ASSUME NEW s \in Sessions, s \in healed, NEW i \in 1 .. Len(wire'),
               NEW k \in 1 .. Len(wire'), wire'[i] = Frame("register", s),
               wire'[k] = Frame("register", s)
        PROVE  i = k
    BY <2>3, <2>7 DEF WireInv
  <2>8. ASSUME NEW s \in Sessions, s \in healed
        PROVE  client'[s] # "live" /\ (handler'.session = s => ~RegisterOnWire(s)')
    BY <1>1, <1>a, <2>4, <2>8 DEF WireInv
  <2> QED
    BY <1>1, <2>5, <2>6, <2>7, <2>8 DEF WireInv, RegisterOnWire, Frame
<1> QED
  BY <1>1, <1>2, <1>3

\* Taking a frame off the wire leaves of each session what it had or less.
LEMMA TailLess ==
  ASSUME ServeTypes, WireInv, wire # <<>>, wire' = Tail(wire), NEW s \in Sessions
  PROVE  /\ \A i \in 1 .. Len(wire') : i + 1 \in 1 .. Len(wire) /\ wire'[i] = wire[i + 1]
         /\ RegisterOnWire(s)' => RegisterOnWire(s)
         /\ s \notin healed => \A i, k \in 1 .. Len(wire') :
              i < k /\ wire'[i] = Frame("release", s) => wire'[k] # Frame("register", s)
         /\ s \in healed => \A i, k \in 1 .. Len(wire') :
              wire'[i] = Frame("register", s) /\ wire'[k] = Frame("register", s) => i = k
         /\ s \in healed /\ Head(wire) = Frame("register", s) => ~RegisterOnWire(s)'
         /\ s \notin healed /\ Head(wire) = Frame("release", s) => ~RegisterOnWire(s)'
<1>1. /\ \A i \in 1 .. Len(wire') : i + 1 \in 1 .. Len(wire) /\ wire'[i] = wire[i + 1]
      /\ wire[1] = Head(wire) /\ Len(wire) \in Nat /\ Len(wire) > 0
      /\ Len(wire') = Len(wire) - 1
  BY WireShifted
<1>2. RegisterOnWire(s)' => RegisterOnWire(s)
  BY <1>1 DEF RegisterOnWire, Frame
<1>3. ASSUME s \notin healed, NEW i \in 1 .. Len(wire'), NEW k \in 1 .. Len(wire'),
             i < k, wire'[i] = Frame("release", s)
      PROVE  wire'[k] # Frame("register", s)
  <2>1. i + 1 \in 1 .. Len(wire) /\ k + 1 \in 1 .. Len(wire) /\ i + 1 < k + 1
    BY <1>1, <1>3
  <2> QED
    BY <1>1, <1>3, <2>1 DEF WireInv
<1>4. ASSUME s \in healed, NEW i \in 1 .. Len(wire'), NEW k \in 1 .. Len(wire'),
             wire'[i] = Frame("register", s), wire'[k] = Frame("register", s)
      PROVE  i = k
  <2>1. i + 1 \in 1 .. Len(wire) /\ k + 1 \in 1 .. Len(wire)
    BY <1>1
  <2>2. i + 1 = k + 1
    BY <1>1, <1>4, <2>1 DEF WireInv
  <2> QED
    BY <2>2
<1>5. ASSUME s \in healed, Head(wire) = Frame("register", s), NEW i \in 1 .. Len(wire'),
             wire'[i] = Frame("register", s)
      PROVE  FALSE
  <2>1. i + 1 \in 1 .. Len(wire) /\ 1 \in 1 .. Len(wire) /\ i + 1 # 1
    BY <1>1
  <2> QED
    BY <1>1, <1>5, <2>1 DEF WireInv
<1>6. ASSUME s \notin healed, Head(wire) = Frame("release", s), NEW i \in 1 .. Len(wire'),
             wire'[i] = Frame("register", s)
      PROVE  FALSE
  <2>1. i + 1 \in 1 .. Len(wire) /\ 1 \in 1 .. Len(wire) /\ 1 < i + 1
    BY <1>1
  <2> QED
    BY <1>1, <1>6, <2>1 DEF WireInv
<1> QED
  BY <1>1, <1>2, <1>3, <1>4, <1>5, <1>6 DEF RegisterOnWire, Frame

LEMMA TakenWire ==
  ASSUME TypeOK, WireInv, wire # <<>>, wire' = Tail(wire), UNCHANGED <<client, healed>>,
         \A s \in Sessions : handler'.session = s =>
           handler.session = s \/ Head(wire) = Frame("register", s)
  PROVE  WireInv' /\ \A s \in Sessions : Fates(s)
<1> USE DEF TypeOK
<1>1. ASSUME NEW s \in Sessions PROVE Fates(s)
  <2>1. RegisterOnWire(s)' => RegisterOnWire(s)
    BY TailLess
  <2>2. Head(wire) = Frame("register", s) => RegisterOnWire(s)
    <3>1. 1 \in 1 .. Len(wire) /\ wire[1] = Head(wire)
      BY WireShifted
    <3> QED
      BY <3>1 DEF RegisterOnWire
  <2> QED
    BY <2>1, <2>2 DEF Fates, Past, OneMore, NoMore, Quiet
<1>2. ASSUME NEW s \in Sessions, s \in healed, handler'.session = s
      PROVE  ~RegisterOnWire(s)'
  BY <1>2, TailLess DEF WireInv
<1>3. \A s \in Sessions : s \in healed => client'[s] # "live"
  BY DEF WireInv
<1>4. ASSUME NEW s \in Sessions
      PROVE  /\ s \notin healed => \A i, k \in 1 .. Len(wire') :
                  i < k /\ wire'[i] = Frame("release", s) => wire'[k] # Frame("register", s)
             /\ s \in healed => \A i, k \in 1 .. Len(wire') :
                  wire'[i] = Frame("register", s) /\ wire'[k] = Frame("register", s) => i = k
  BY TailLess
<1> QED
  BY <1>1, <1>2, <1>3, <1>4 DEF WireInv, RegisterOnWire, Frame

\* A refused release whose client still waits for it puts the last
\* registration of the session on the wire.
LEMMA HealedWire ==
  ASSUME RightOwners, WireInv, NEW e \in Sessions, wire # <<>>,
         Head(wire) = Frame("release", e), client[e] = "closing", e \notin healed,
         handler = IdleLoop, UNCHANGED <<client, handler>>,
         healed' = healed \cup {e},
         wire' = Tail(wire) \o <<Frame("register", e), Frame("release", e)>>
  PROVE  WireInv' /\ \A s \in Sessions : Fates(s)
<1> USE DEF RightOwners, TypeOK
<1> DEFINE q == Tail(wire)
           r == Frame("register", e)
           l == Frame("release", e)
           n == Len(q)
<1>1. /\ q \in Seq(Frames) /\ n \in Nat /\ n = Len(wire) - 1 /\ wire[1] = l
      /\ \A i \in 1 .. n : i + 1 \in 1 .. Len(wire) /\ q[i] = wire[i + 1]
  BY WireShifted
<1>2. r \in Frames /\ l \in Frames
  BY FrameType
<1>3. <<r, l>> \in Seq(Frames) /\ Len(<<r, l>>) = 2
  BY <1>2
<1>4. /\ Len(wire') = n + 2 /\ wire'[n + 1] = r /\ wire'[n + 2] = l
      /\ \A i \in 1 .. n : wire'[i] = q[i]
  <2>1. wire' = q \o <<r, l>>
    OBVIOUS
  <2> HIDE DEF q, r, l, n
  <2> QED
    BY <1>1, <1>3, <2>1, ConcatProperties DEF n
<1> HIDE DEF q, r, l, n
<1>5. ASSUME NEW i \in 1 .. Len(wire') PROVE i \in 1 .. n \/ i = n + 1 \/ i = n + 2
  BY <1>1, <1>4
<1>6. r # l /\ (\A s \in Sessions : Frame("register", s) # l)
      /\ (\A s \in Sessions : s # e => Frame("register", s) # r /\ Frame("release", s) # l)
      /\ \A s \in Sessions : Frame("release", s) # r
  BY FramesDiffer DEF r, l
<1>7. ASSUME NEW i \in 1 .. n PROVE q[i] # r
  <2>1. i + 1 \in 1 .. Len(wire) /\ 1 \in 1 .. Len(wire) /\ 1 < i + 1 /\ q[i] = wire[i + 1]
    BY <1>1
  <2> QED
    BY <1>1, <2>1 DEF WireInv, r, l
<1>8. ASSUME NEW s \in Sessions, s # e, NEW i \in 1 .. Len(wire'), wire'[i] = Frame("register", s)
      PROVE  i \in 1 .. n /\ i + 1 \in 1 .. Len(wire) /\ wire[i + 1] = Frame("register", s)
  BY <1>1, <1>4, <1>5, <1>6, <1>8
<1>9. ASSUME NEW s \in Sessions, s # e PROVE RegisterOnWire(s)' => RegisterOnWire(s)
  BY <1>8, <1>9 DEF RegisterOnWire, Frame
<1>10. ASSUME NEW s \in Sessions PROVE Fates(s)
  <2>1. ~NoMore(e)
    BY DEF NoMore, Past
  <2> QED
    BY <1>9, <2>1 DEF Fates, Past, OneMore, NoMore, Quiet
<1>11. ASSUME NEW s \in Sessions, s \notin healed', NEW i \in 1 .. Len(wire'),
              NEW k \in 1 .. Len(wire'), i < k, wire'[i] = Frame("release", s),
              wire'[k] = Frame("register", s)
       PROVE  FALSE
  <2>0. s # e /\ s \notin healed
    BY <1>11
  <2>1. k \in 1 .. n /\ k + 1 \in 1 .. Len(wire) /\ wire[k + 1] = Frame("register", s)
    BY <1>8, <1>11, <2>0
  <2>2. i \in 1 .. n /\ i + 1 \in 1 .. Len(wire) /\ wire[i + 1] = Frame("release", s)
    BY <1>1, <1>4, <1>11, <2>1
  <2>3. i + 1 < k + 1
    BY <1>11
  <2> QED
    BY <2>0, <2>1, <2>2, <2>3 DEF WireInv
<1>12. ASSUME NEW s \in Sessions, s \in healed', NEW i \in 1 .. Len(wire'),
              NEW k \in 1 .. Len(wire'), wire'[i] = Frame("register", s),
              wire'[k] = Frame("register", s)
       PROVE  i = k
  <2>1. CASE s = e
    <3>1. i = n + 1 /\ k = n + 1
      BY <1>4, <1>5, <1>6, <1>7, <1>12, <2>1 DEF r
    <3> QED
      BY <3>1
  <2>2. CASE s # e
    <3>1. /\ i + 1 \in 1 .. Len(wire) /\ wire[i + 1] = Frame("register", s)
          /\ k + 1 \in 1 .. Len(wire) /\ wire[k + 1] = Frame("register", s)
          /\ i \in 1 .. n /\ k \in 1 .. n
      BY <1>8, <1>12, <2>2
    <3>2. i + 1 = k + 1
      BY <1>12, <2>2, <3>1 DEF WireInv
    <3> QED
      BY <3>1, <3>2
  <2> QED
    BY <2>1, <2>2
<1>13. ASSUME NEW s \in Sessions, s \in healed'
       PROVE  client'[s] # "live" /\ handler'.session # s
  BY <1>13 DEF WireInv, IdleLoop
<1> QED
  BY <1>10, <1>11, <1>12, <1>13 DEF WireInv

LEMMA WireNext ==
  ASSUME RightOwners, WireInv, [Next]_vars
  PROVE  WireInv' /\ \A s \in Sessions : Fates(s)
<1> USE DEF RightOwners, TypeOK
<1> DEFINE Goal == WireInv' /\ \A s \in Sessions : Fates(s)
<1>s. ASSUME Stiller PROVE Goal
  BY <1>s, StillerFates, StillerWire
<1>n. NoSession \notin Sessions
  BY SessionsAssumption
<1>1. ASSUME NEW s \in Sessions, SendRegister(s) PROVE Goal
  BY <1>1, SendRegisterWire
<1>2. ASSUME NEW s \in Sessions, SendRelease(s) PROVE Goal
  BY <1>2, SendReleaseWire
<1>3. ASSUME NEW s \in Sessions, Die(s) PROVE Goal
  <2>1. Stiller
    BY <1>3 DEF Die, Stiller, serveVars, ClientTypes
  <2> QED
    BY <2>1, <1>s
<1>4. ASSUME BeginRegister PROVE Goal
  <2>1. wire # <<>> /\ wire' = Tail(wire) /\ UNCHANGED <<client, healed>>
        /\ handler'.session = Head(wire).session /\ Head(wire).kind = "register"
    BY <1>4 DEF BeginRegister, clientVars
  <2>2. Head(wire) = Frame("register", Head(wire).session)
    BY <2>1, WireShifted, FrameIs
  <2> QED
    BY <2>1, <2>2, TakenWire
<1>5. ASSUME Upsert PROVE Goal
  <2>1. Stiller
    BY <1>5 DEF Upsert, Stiller, clientVars, ServeTypes
  <2> QED
    BY <2>1, <1>s
<1>6. ASSUME Claim PROVE Goal
  <2>1. Stiller
    BY <1>6, <1>n DEF Claim, Stiller, clientVars, ServeTypes, IdleLoop
  <2> QED
    BY <2>1, <1>s
<1>7. ASSUME OpenThread PROVE Goal
  <2>1. Stiller
    BY <1>7, <1>n DEF OpenThread, Stiller, clientVars, IdleLoop
  <2> QED
    BY <2>1, <1>s
<1>8. ASSUME Release PROVE Goal
  BY <1>8, TakenWire DEF Release, clientVars
<1>9. ASSUME RefuseRelease PROVE Goal
  <2> DEFINE e == Head(wire).session
  <2>1. /\ wire # <<>> /\ UNCHANGED <<client, handler>> /\ Head(wire).kind = "release"
        /\ handler = IdleLoop
    BY <1>9 DEF RefuseRelease
  <2>2. Head(wire) = Frame("release", e) /\ e \in Sessions
    BY <2>1, WireShifted, FrameIs
  <2>3. CASE client[e] = "closing" /\ e \notin healed
    <3>1. /\ healed' = healed \cup {e}
          /\ wire' = Tail(wire) \o <<Frame("register", e), Frame("release", e)>>
      BY <1>9, <2>3 DEF RefuseRelease
    <3> QED
      BY <2>1, <2>2, <2>3, <3>1, HealedWire
  <2>4. CASE ~(client[e] = "closing" /\ e \notin healed)
    <3>1. wire' = Tail(wire) /\ UNCHANGED healed
      BY <1>9, <2>4 DEF RefuseRelease
    <3> QED
      BY <2>1, <3>1, TakenWire
  <2> QED
    BY <2>3, <2>4
<1>10. ASSUME SuspectStep PROVE Goal
  <2>1. Stiller
    BY <1>10 DEF SuspectStep, Suspect, HearFrom, Stiller, clientVars, serveVars
  <2> QED
    BY <2>1, <1>s
<1>11. ASSUME SweepStep PROVE Goal
  <2>1. Stiller
    BY <1>11 DEF SweepStep, SweepCollect, SweepNext, Stiller, clientVars, serveVars
  <2> QED
    BY <2>1, <1>s
<1>12. ASSUME AdoptStep PROVE Goal
  <2>1. Stiller
    BY <1>12 DEF AdoptStep, AdoptBegin, AdoptNext, Stiller, clientVars
  <2> QED
    BY <2>1, <1>s
<1>13. ASSUME NEW g \in Gens, Pump(g) PROVE Goal
  <2>1. UNCHANGED <<client, healed, wire, handler>>
    BY <1>13 DEF Pump, OpenExisting, OpenBegin, Created, CreateFails, Opened, AdoptJobBegin,
       Adopted, ArchiveJobBegin, Archived, clientVars, serveVars
  <2>2. Stiller
    BY <2>1 DEF Stiller
  <2> QED
    BY <2>2, <1>s
<1>14. ASSUME BrokerStep PROVE Goal
  <2>1. StandDown => Stiller
    BY DEF StandDown, Stiller, clientVars
  <2>2. Elect => Stiller
    BY DEF Elect, Stiller, clientVars
  <2>3. Restart => Stiller
    BY <1>n DEF Restart, Stiller, clientVars, IdleLoop
  <2>4. ASSUME NEW g \in Gens, Crash(g) PROVE Stiller
    BY <2>4, <1>n DEF Crash, Stiller, clientVars, IdleLoop
  <2>5. Stiller
    BY <1>14, <2>1, <2>2, <2>3, <2>4 DEF BrokerStep
  <2> QED
    BY <2>5, <1>s
<1>15. CASE UNCHANGED vars
  <2>1. Stiller
    BY <1>15 DEF vars, clientVars, serveVars, Stiller
  <2> QED
    BY <2>1, <1>s
<1> QED
  BY <1>1, <1>2, <1>3, <1>4, <1>5, <1>6, <1>7, <1>8, <1>9, <1>10, <1>11,
     <1>12, <1>13, <1>14, <1>15 DEF Next, ClientStep, AcceptStep

-----------------------------------------------------------------------------
(* The sweep, the file, the jobs in hand and who drains.                   *)

LEMMA SweepNextInv == TypeOK /\ SweepInv /\ [Next]_vars => SweepInv'
<1> SUFFICES ASSUME TypeOK, SweepInv, [Next]_vars PROVE SweepInv'
  OBVIOUS
<1> USE DEF TypeOK
<1>g. gen \in Gens
  BY DEF ServeTypes
<1>s. ASSUME UNCHANGED <<status, gen>>, sweep' \subseteq sweep,
             \A s \in Sessions : client[s] = "dead" => client'[s] = "dead"
      PROVE  SweepInv'
  BY <1>s DEF SweepInv, CareTypes
<1>1. ASSUME ClientStep PROVE SweepInv'
  <2>1. /\ UNCHANGED <<status, gen, sweep>>
        /\ \A s \in Sessions : client[s] = "dead" => client'[s] = "dead"
    BY <1>1 DEF ClientStep, SendRegister, SendRelease, Die, serveVars, careVars, ClientTypes
  <2> QED
    BY <2>1, <1>s
<1>2. ASSUME AcceptStep \/ SuspectStep PROVE SweepInv'
  <2>1. UNCHANGED <<status, gen, sweep, client>>
    BY <1>2 DEF AcceptStep, BeginRegister, Upsert, Claim, OpenThread, Release, RefuseRelease,
       SuspectStep, Suspect, HearFrom, clientVars, serveVars, careVars
  <2> QED
    BY <2>1, <1>s
<1>3. ASSUME SweepCollect PROVE SweepInv'
  BY <1>3 DEF SweepCollect, ReallyGone, SweepInv, serveVars, clientVars
<1>4. ASSUME NEW s \in Sessions, SweepNext(s) PROVE SweepInv'
  <2>1. UNCHANGED <<status, gen, client>> /\ sweep' \subseteq sweep
    BY <1>4 DEF SweepNext, serveVars, clientVars
  <2> QED
    BY <2>1, <1>s
<1>5. ASSUME AdoptStep PROVE SweepInv'
  BY <1>5, <1>g DEF AdoptStep, AdoptBegin, AdoptNext, SweepInv, clientVars, ServeTypes
<1>6. ASSUME NEW g \in Gens, Pump(g) PROVE SweepInv'
  <2>1. UNCHANGED <<status, gen, sweep, client>>
    BY <1>6 DEF Pump, OpenExisting, OpenBegin, Created, CreateFails, Opened, AdoptJobBegin,
       Adopted, ArchiveJobBegin, Archived, clientVars, serveVars, careVars
  <2> QED
    BY <2>1, <1>s
<1>7. ASSUME BrokerStep PROVE SweepInv'
  <2>1. StandDown => SweepInv'
    BY DEF StandDown, SweepInv, careVars
  <2>2. Restart => SweepInv'
    BY DEF Restart, SweepInv, careVars
  <2>3. Elect => SweepInv'
    BY DEF Elect, SweepInv, careVars, clientVars
  <2>4. ASSUME NEW g \in Gens, Crash(g) PROVE SweepInv'
    BY <2>4, <1>g DEF Crash, SweepInv, careVars, clientVars, ServeTypes
  <2> QED
    BY <1>7, <2>1, <2>2, <2>3, <2>4 DEF BrokerStep
<1>8. CASE UNCHANGED vars
  BY <1>8, <1>s DEF vars, clientVars, serveVars, careVars
<1> QED
  BY <1>1, <1>2, <1>3, <1>4, <1>5, <1>6, <1>7, <1>8 DEF Next, SweepStep

\* While there has been one broker, the file holds what its register holds.
LEMMA SavedOnDisk ==
  ASSUME BookTypes, DiskInv, NEW g \in Gens, NEW s \in Sessions, NEW r,
         SaveRecord(g, s, r), gen = 1 => g = 1
  PROVE  gen = 1 => disk' = reg'[1]
  BY DEF SaveRecord, BookTypes, DiskInv

LEMMA RecordedOnDisk ==
  ASSUME BookTypes, DiskInv, NEW g \in Gens, NEW s \in Sessions, NEW t,
         RecordThread(g, s, t), gen = 1 => g = 1
  PROVE  gen = 1 => disk' = reg'[1]
  BY SavedOnDisk DEF RecordThread, DiskInv

LEMMA ForgottenOnDisk ==
  ASSUME BookTypes, DiskInv, gen \in Gens, NEW s \in Sessions, Forget(s)
  PROVE  gen = 1 => disk' = reg'[1]
  BY SavedOnDisk DEF Forget, DiskInv

LEMMA DiskNext == TypeOK /\ Phased /\ DiskInv /\ [Next]_vars => DiskInv'
<1> SUFFICES ASSUME TypeOK, Phased, DiskInv, [Next]_vars PROVE DiskInv'
  OBVIOUS
<1> USE DEF TypeOK
<1>g. gen \in Gens /\ gen \in Nat
  BY DEF ServeTypes, Gens
<1>s. ASSUME UNCHANGED <<gen, reg, disk>> PROVE DiskInv'
  BY <1>s DEF DiskInv
<1>1. ASSUME ClientStep \/ SuspectStep \/ AdoptStep \/ SweepCollect PROVE DiskInv'
  BY <1>1, <1>s DEF ClientStep, SendRegister, SendRelease, Die, SuspectStep, Suspect, HearFrom,
     AdoptStep, AdoptBegin, AdoptNext, SweepCollect, serveVars, bookVars
<1>2. ASSUME NEW s \in Sessions, SweepNext(s) PROVE DiskInv'
  BY <1>2, <1>g, ForgottenOnDisk DEF SweepNext, serveVars, DiskInv
<1>3. ASSUME BeginRegister \/ Claim \/ OpenThread \/ RefuseRelease PROVE DiskInv'
  BY <1>3, <1>s DEF BeginRegister, Claim, OpenThread, RefuseRelease, bookVars
<1>4. ASSUME Upsert PROVE DiskInv'
  BY <1>4, <1>g, SavedOnDisk DEF Upsert, ServeTypes, DiskInv
<1>5. ASSUME Release PROVE DiskInv'
  <2>1. wire # <<>> /\ Forget(Head(wire).session) /\ gen' = gen
    BY <1>5 DEF Release
  <2>2. Head(wire).session \in Sessions
    BY <2>1, WireType
  <2> QED
    BY <1>g, <2>1, <2>2, ForgottenOnDisk DEF DiskInv
<1>6. ASSUME NEW g \in Gens, Pump(g) PROVE DiskInv'
  <2>1. Pumping(g) /\ gen' = gen
    BY <1>6 DEF Pump, OpenExisting, OpenBegin, Created, CreateFails, Opened, AdoptJobBegin,
       Adopted, ArchiveJobBegin, Archived, serveVars
  <2>2. gen = 1 => g = 1
    BY <2>1, <1>g, PumpsElected DEF Gens
  <2>3. CASE OpenExisting(g)
    <3>1. /\ queue[g] # <<>>
          /\ RecordThread(g, NextJob(g).session, threads[g][NextJob(g).session])
      BY <2>3 DEF OpenExisting
    <3>2. NextJob(g).session \in Sessions
      BY <3>1, HeadListed DEF Jobs
    <3> QED
      BY <2>1, <2>2, <3>1, <3>2, RecordedOnDisk DEF DiskInv
  <2>4. CASE Opened(g)
    <3>1. RecordThread(g, job[g].session, job[g].thread) /\ job[g].kind = "open"
      BY <2>4 DEF Opened
    <3>2. job[g].session \in Sessions
      BY <3>1 DEF PumpTypes, Jobs, NoJob
    <3> QED
      BY <2>1, <2>2, <3>1, <3>2, RecordedOnDisk DEF DiskInv
  <2>5. CASE ~OpenExisting(g) /\ ~Opened(g)
    <3>1. UNCHANGED <<reg, disk>>
      BY <1>6, <2>5 DEF Pump, OpenBegin, Created, CreateFails, AdoptJobBegin,
         Adopted, ArchiveJobBegin, Archived, bookVars
    <3> QED
      BY <2>1, <3>1, <1>s
  <2> QED
    BY <2>3, <2>4, <2>5
<1>7. ASSUME BrokerStep PROVE DiskInv'
  <2>1. (StandDown \/ \E g \in Gens : Crash(g)) => DiskInv'
    BY <1>s DEF StandDown, Crash, bookVars
  <2>2. Restart => DiskInv'
    BY <1>g DEF Restart, DiskInv, BookTypes
  <2>3. Elect => DiskInv'
    BY <1>g DEF Elect, DiskInv, Gens
  <2> QED
    BY <1>7, <2>1, <2>2, <2>3 DEF BrokerStep
<1>8. CASE UNCHANGED vars
  BY <1>8, <1>s DEF vars, serveVars, bookVars
<1> QED
  BY <1>1, <1>2, <1>3, <1>4, <1>5, <1>6, <1>7, <1>8 DEF Next, SweepStep, AcceptStep

\* Only a gateway's own pump, and its end, touch its job and its mapping.
LEMMA PumpsOwn ==
  ASSUME TypeOK, NEW g \in Gens, Pump(g)
  PROVE  /\ \A h \in Gens : h # g => /\ queue'[h] = queue[h] /\ job'[h] = job[h]
                                     /\ threads'[h] = threads[h] /\ reg'[h] = reg[h]
         /\ UNCHANGED <<client, healed, wire, handler, gen, status, restarts>>
         /\ UNCHANGED <<claimed, suspect, sweep, toAdopt>>
         /\ Pumping(g)
         /\ queue'[g] = queue[g] \/ (queue[g] # <<>> /\ Take(g))
<1> USE DEF TypeOK
<1>1. CASE OpenExisting(g) \/ Opened(g)
  <2>1. \A s, t : RecordThread(g, s, t) => \A h \in Gens : h # g => reg'[h] = reg[h]
    BY DEF RecordThread, SaveRecord, BookTypes
  <2> QED
    BY <1>1, <2>1 DEF OpenExisting, Opened, Take, PumpTypes, clientVars, serveVars, careVars
<1>2. CASE ~(OpenExisting(g) \/ Opened(g))
  BY <1>2 DEF Pump, OpenBegin, Created, CreateFails, AdoptJobBegin, Hold,
     Adopted, ArchiveJobBegin, Archived, Take, PumpTypes, clientVars, serveVars, careVars, bookVars
<1> QED
  BY <1>1, <1>2

-----------------------------------------------------------------------------
(* What each step of a pump does, variable by variable.                    *)

LEMMA Recording ==
  ASSUME TypeOK, NEW g \in Gens, NEW e \in Sessions, NEW t, RecordThread(g, e, t)
  PROVE  \A s \in Sessions :
           reg'[g][s] = IF s = e /\ reg[g][s] # NoRecord THEN t ELSE reg[g][s]
<1>1. CASE reg[g][e] \in {NoRecord, t}
  BY <1>1 DEF RecordThread
<1>2. CASE reg[g][e] \notin {NoRecord, t}
  <2>1. reg' = [reg EXCEPT ![g] = [@ EXCEPT ![e] = t]]
    BY <1>2 DEF RecordThread, SaveRecord
  <2> QED
    BY <1>2, <2>1 DEF TypeOK, BookTypes
<1> QED
  BY <1>1, <1>2

LEMMA Holding ==
  ASSUME TypeOK, NEW g \in Gens, NEW e \in Sessions, NEW t, Hold(g, e, t)
  PROVE  \A s \in Sessions : threads'[g][s] = IF s = e THEN t ELSE threads[g][s]
  BY DEF Hold, TypeOK, PumpTypes

LEMMA TypedJob ==
  ASSUME TypeOK, NEW g \in Gens, job[g].kind # "none"
  PROVE  job[g] \in Jobs /\ job[g].session \in Sessions
  BY DEF TypeOK, PumpTypes, Jobs, NoJob

LEMMA TypedHead ==
  ASSUME TypeOK, NEW g \in Gens, queue[g] # <<>>
  PROVE  NextJob(g) \in Jobs /\ NextJob(g).session \in Sessions
  BY HeadListed DEF TypeOK, Jobs

LEMMA DoesOpenExisting ==
  ASSUME TypeOK, NEW g \in Gens, OpenExisting(g)
  PROVE  /\ queue[g] # <<>> /\ Take(g) /\ UNCHANGED <<job, threads, worldVars>>
         /\ job[g] = NoJob /\ NextJob(g).kind = "open" /\ NextJob(g).session \in Sessions
         /\ threads[g][NextJob(g).session] # NoThread
         /\ \A s \in Sessions : reg'[g][s] =
              IF s = NextJob(g).session /\ reg[g][s] # NoRecord
              THEN threads[g][NextJob(g).session] ELSE reg[g][s]
  BY TypedHead, Recording DEF OpenExisting, HasThread

LEMMA DoesOpenBegin ==
  ASSUME TypeOK, NEW g \in Gens, OpenBegin(g)
  PROVE  /\ queue[g] # <<>> /\ Take(g) /\ UNCHANGED <<threads, reg, worldVars>>
         /\ job[g] = NoJob /\ NextJob(g).kind = "open" /\ NextJob(g).session \in Sessions
         /\ threads[g][NextJob(g).session] = NoThread
         /\ job'[g] = NextJob(g)
  BY TypedHead DEF OpenBegin, HasThread, bookVars, TypeOK, PumpTypes

\* Discord opens t for the session whose job the pump has in hand.
Makes(g, t) ==
  /\ owner[t] = NoSession
  /\ \A u \in ThreadIds :
       /\ owner'[u] = IF u = t THEN job[g].session ELSE owner[u]
       /\ maker'[u] = IF u = t THEN g ELSE maker[u]
  /\ \A s \in Sessions :
       threads'[g][s] = IF s = job[g].session THEN t ELSE threads[g][s]
  /\ job'[g] = [job[g] EXCEPT !.thread = t]

LEMMA DoesCreated ==
  ASSUME TypeOK, NEW g \in Gens, Created(g)
  PROVE  /\ UNCHANGED <<queue, reg, archived>>
         /\ job[g].kind = "open" /\ job[g].thread = NoThread /\ job[g].session \in Sessions
         /\ \E t \in ThreadIds : Makes(g, t)
<1>1. job[g].session \in Sessions
  BY TypedJob DEF Created
<1>2. PICK t \in ThreadIds :
       /\ owner[t] = NoSession
       /\ owner' = [owner EXCEPT ![t] = job[g].session]
       /\ maker' = [maker EXCEPT ![t] = g]
       /\ Hold(g, job[g].session, t)
       /\ job' = [job EXCEPT ![g] = [@ EXCEPT !.thread = t]]
  BY DEF Created
<1>3. \A s \in Sessions :
                   threads'[g][s] = IF s = job[g].session THEN t ELSE threads[g][s]
  BY <1>1, <1>2, Holding
<1>4. \A u \in ThreadIds :
                   /\ owner'[u] = IF u = t THEN job[g].session ELSE owner[u]
                   /\ maker'[u] = IF u = t THEN g ELSE maker[u]
  BY <1>2 DEF TypeOK, WorldTypes
<1>5. job'[g] = [job[g] EXCEPT !.thread = t]
  BY <1>2 DEF TypeOK, PumpTypes
<1> QED
  BY <1>1, <1>2, <1>3, <1>4, <1>5 DEF Created, Makes, bookVars

LEMMA DoesCreateFails ==
  ASSUME TypeOK, NEW g \in Gens, CreateFails(g)
  PROVE  UNCHANGED <<queue, threads, reg, worldVars>> /\ job'[g] = NoJob
  BY DEF CreateFails, bookVars, TypeOK, PumpTypes

LEMMA DoesOpened ==
  ASSUME TypeOK, NEW g \in Gens, Opened(g)
  PROVE  /\ UNCHANGED <<queue, threads, worldVars>> /\ job'[g] = NoJob
         /\ job[g].kind = "open" /\ job[g].thread \in ThreadIds /\ job[g].session \in Sessions
         /\ \A s \in Sessions : reg'[g][s] =
              IF s = job[g].session /\ reg[g][s] # NoRecord THEN job[g].thread ELSE reg[g][s]
<1>1. job[g] \in Jobs /\ job[g].session \in Sessions
  BY TypedJob DEF Opened
<1>2. job[g].thread \in ThreadIds
  BY <1>1 DEF Opened, Jobs
<1> QED
  BY <1>1, <1>2, Recording DEF Opened, TypeOK, PumpTypes

LEMMA DoesAdoptJobBegin ==
  ASSUME TypeOK, Phased, NEW g \in Gens, AdoptJobBegin(g)
  PROVE  /\ queue[g] # <<>> /\ Take(g) /\ UNCHANGED <<threads, reg, worldVars>>
         /\ job[g] = NoJob /\ NextJob(g).kind = "adopt" /\ NextJob(g).session \in Sessions
         /\ job'[g] = NextJob(g) /\ NextJob(g).thread \in ThreadIds
<1>1. NextJob(g).thread \in ThreadIds
  BY AdoptsTaken DEF AdoptJobBegin, Phased
<1> QED
  BY <1>1, TypedHead DEF AdoptJobBegin, bookVars, TypeOK, PumpTypes

LEMMA DoesAdopted ==
  ASSUME TypeOK, Phased, NEW g \in Gens, Adopted(g)
  PROVE  /\ UNCHANGED <<queue, reg, worldVars>> /\ job'[g] = NoJob
         /\ job[g].kind = "adopt" /\ job[g].session \in Sessions /\ job[g].thread \in ThreadIds
         /\ \/ UNCHANGED threads
            \/ \A s \in Sessions :
                 threads'[g][s] = IF s = job[g].session THEN job[g].thread ELSE threads[g][s]
<1>1. job[g].session \in Sessions
  BY TypedJob DEF Adopted
<1>2. job[g].thread \in ThreadIds
  BY DEF Adopted, Phased, AdoptsName
<1>3. \/ UNCHANGED threads
      \/ Hold(g, job[g].session, job[g].thread)
  BY DEF Adopted
<1> QED
  BY <1>1, <1>2, <1>3, Holding DEF Adopted, bookVars, TypeOK, PumpTypes

LEMMA DoesArchiveJobBegin ==
  ASSUME TypeOK, NEW g \in Gens, ArchiveJobBegin(g)
  PROVE  /\ queue[g] # <<>> /\ Take(g) /\ UNCHANGED <<reg, worldVars>>
         /\ job[g] = NoJob /\ NextJob(g).kind = "archive" /\ NextJob(g).session \in Sessions
         /\ \A s \in Sessions :
              threads'[g][s] = IF s = NextJob(g).session THEN NoThread ELSE threads[g][s]
         /\ IF threads[g][NextJob(g).session] = NoThread
            THEN job'[g] = NoJob
            ELSE /\ Is(job'[g], "archive", NextJob(g).session)
                 /\ job'[g].thread = threads[g][NextJob(g).session]
<1>0. NextJob(g).session \in Sessions
  BY TypedHead DEF ArchiveJobBegin
<1>1. CASE threads[g][NextJob(g).session] = NoThread
  BY <1>0, <1>1 DEF ArchiveJobBegin, HasThread, bookVars
<1>2. CASE threads[g][NextJob(g).session] # NoThread
  <2>1. /\ job' = [job EXCEPT ![g] = Job("archive", NextJob(g).session,
                                          threads[g][NextJob(g).session])]
        /\ Hold(g, NextJob(g).session, NoThread)
    BY <1>2 DEF ArchiveJobBegin, HasThread
  <2> QED
    BY <1>0, <1>2, <2>1, Holding DEF ArchiveJobBegin, bookVars, TypeOK, PumpTypes, Job, Is
<1> QED
  BY <1>1, <1>2

LEMMA DoesArchived ==
  ASSUME TypeOK, NEW g \in Gens, Archived(g), ArchiveOutcomes \subseteq {TRUE}
  PROVE  /\ UNCHANGED <<queue, threads, reg, owner, maker>> /\ job'[g] = NoJob
         /\ job[g].kind = "archive" /\ archived' = archived \cup {job[g].thread}
  BY DEF Archived, bookVars, TypeOK, PumpTypes

LEMMA NoJobIsNone ==
  \A kind \in {"open", "adopt", "archive"} : \A s : ~Is(NoJob, kind, s)
  BY DEF NoJob, Is

JobFor(g, s) ==
  /\ \A i \in 1 .. Len(queue[g]) : Is(queue[g][i], "open", s) => queue[g][i].thread = NoThread
  /\ Is(job[g], "open", s) => threads[g][s] = job[g].thread
  /\ Is(job[g], "archive", s) => threads[g][s] = NoThread

LEMMA JobForAdded ==
  ASSUME TypeOK, JobInv, NEW g \in Gens, NEW j \in Jobs, Schedule(g, j),
         j.kind = "open" => j.thread = NoThread, UNCHANGED <<job, threads>>
  PROVE  JobInv'
<1> SUFFICES ASSUME NEW h \in Gens, NEW s \in Sessions PROVE JobFor(h, s)'
  BY DEF JobInv, JobFor
<1>1. JobFor(h, s)
  BY DEF JobInv, JobFor
<1>2. CASE h # g
  <2>1. queue'[h] = queue[h]
    BY <1>2, QueueGrown DEF TypeOK
  <2> QED
    BY <1>1, <2>1 DEF JobFor
<1>3. CASE h = g
  <2>1. /\ Len(queue[g]) \in Nat /\ Len(queue'[g]) = Len(queue[g]) + 1
        /\ queue'[g][Len(queue[g]) + 1] = j
        /\ \A i \in 1 .. Len(queue[g]) : queue'[g][i] = queue[g][i]
    BY QueueGrown DEF TypeOK
  <2>2. ASSUME NEW i \in 1 .. Len(queue'[g]), Is(queue'[g][i], "open", s)
        PROVE  queue'[g][i].thread = NoThread
    <3>1. i \in 1 .. Len(queue[g]) \/ i = Len(queue[g]) + 1
      BY <2>1
    <3> QED
      BY <1>1, <1>3, <2>1, <2>2, <3>1 DEF JobFor, Is
  <2> QED
    BY <1>1, <1>3, <2>2 DEF JobFor
<1> QED
  BY <1>2, <1>3

LEMMA JobForPump ==
  ASSUME TypeOK, Phased, JobInv, NEW g \in Gens, Pump(g)
  PROVE  JobInv'
<1> USE DEF TypeOK
<1> SUFFICES ASSUME NEW h \in Gens, NEW s \in Sessions PROVE JobFor(h, s)'
  BY DEF JobInv, JobFor
<1>0. JobFor(h, s)
  BY DEF JobInv, JobFor
<1>1. CASE h # g
  BY <1>0, <1>1, PumpsOwn DEF JobFor
<1>2. CASE h = g
  <2>q. \A i \in 1 .. Len(queue'[g]) :
          Is(queue'[g][i], "open", s) => queue'[g][i].thread = NoThread
    <3>1. CASE queue'[g] = queue[g]
      BY <1>0, <1>2, <3>1 DEF JobFor
    <3>2. CASE queue[g] # <<>> /\ Take(g)
      <4>1. \A i \in 1 .. Len(queue'[g]) :
              i + 1 \in 1 .. Len(queue[g]) /\ queue'[g][i] = queue[g][i + 1]
        BY <3>2, QueueShifted
      <4> QED
        BY <1>0, <1>2, <4>1 DEF JobFor
    <3> QED
      BY <3>1, <3>2, PumpsOwn
  <2>h. ASSUME queue[g] # <<>>, Is(NextJob(g), "open", s)
        PROVE  NextJob(g).thread = NoThread
    <3>1. 1 \in 1 .. Len(queue[g]) /\ queue[g][1] = NextJob(g)
      BY <2>h, HeadListed
    <3> QED
      BY <1>0, <1>2, <2>h, <3>1 DEF JobFor
  <2>n. ~Is(NoJob, "open", s) /\ ~Is(NoJob, "archive", s)
    BY NoJobIsNone
  <2> SUFFICES /\ Is(job'[g], "open", s) => threads'[g][s] = job'[g].thread
               /\ Is(job'[g], "archive", s) => threads'[g][s] = NoThread
    BY <1>2, <2>q DEF JobFor
  <2>1. CASE OpenExisting(g)
    BY <1>0, <1>2, <2>1, DoesOpenExisting DEF JobFor
  <2>2. CASE OpenBegin(g)
    <3>1. /\ job'[g] = NextJob(g) /\ NextJob(g).kind = "open" /\ queue[g] # <<>>
          /\ threads[g][NextJob(g).session] = NoThread /\ threads' = threads
      BY <2>2, DoesOpenBegin
    <3> QED
      BY <2>h, <3>1 DEF Is
  <2>3. CASE Created(g)
    <3>0. PICK t \in ThreadIds : Makes(g, t)
      BY <2>3, DoesCreated
    <3>1. /\ threads'[g][s] = IF s = job[g].session THEN t ELSE threads[g][s]
          /\ job'[g] = [job[g] EXCEPT !.thread = t]
      BY <3>0 DEF Makes
    <3>2. job[g].kind = "open" /\ job[g] \in Jobs
      BY <2>3, DoesCreated, TypedJob
    <3>3. job'[g].kind = "open" /\ job'[g].session = job[g].session /\ job'[g].thread = t
      BY <3>1, <3>2 DEF Jobs
    <3> QED
      BY <3>1, <3>3 DEF Is
  <2>4. CASE CreateFails(g)
    BY <2>4, <2>n, DoesCreateFails
  <2>5. CASE Opened(g)
    BY <2>5, <2>n, DoesOpened
  <2>6. CASE AdoptJobBegin(g)
    BY <2>6, DoesAdoptJobBegin DEF Is
  <2>7. CASE Adopted(g)
    BY <2>7, <2>n, DoesAdopted
  <2>8. CASE ArchiveJobBegin(g)
    BY <2>8, <2>n, DoesArchiveJobBegin DEF Is
  <2>9. CASE Archived(g)
    <3>1. job'[g] = NoJob
      BY <2>9 DEF Archived, PumpTypes
    <3> QED
      BY <2>n, <3>1
  <2> QED
    BY <2>1, <2>2, <2>3, <2>4, <2>5, <2>6, <2>7, <2>8, <2>9 DEF Pump
<1> QED
  BY <1>1, <1>2

LEMMA ForgetSchedules ==
  ASSUME TypeOK, NEW s \in Sessions, Forget(s)
  PROVE  /\ Schedule(gen, Job("archive", s, NoThread)) /\ gen \in Gens
         /\ Job("archive", s, NoThread) \in Jobs
         /\ Is(Job("archive", s, NoThread), "archive", s)
         /\ \A u \in Sessions : reg'[gen][u] = IF u = s THEN NoRecord ELSE reg[gen][u]
         /\ \A g \in Gens : g # gen => reg'[g] = reg[g]
<1> USE DEF TypeOK
<1>1. gen \in Gens
  BY DEF ServeTypes
<1>2. CASE reg[gen][s] = NoRecord
  BY <1>1, <1>2, JobType DEF Forget, Job, Is
<1>3. CASE reg[gen][s] # NoRecord
  BY <1>1, <1>3, JobType DEF Forget, Job, Is, SaveRecord, BookTypes
<1> QED
  BY <1>2, <1>3

LEMMA JobNext == TypeOK /\ Phased /\ JobInv /\ [Next]_vars => JobInv'
<1> SUFFICES ASSUME TypeOK, Phased, JobInv, [Next]_vars PROVE JobInv'
  OBVIOUS
<1> USE DEF TypeOK
<1>g. gen \in Gens
  BY DEF ServeTypes
<1>s. ASSUME UNCHANGED <<queue, job, threads>> PROVE JobInv'
  BY <1>s DEF JobInv, Is
<1>1. ASSUME ClientStep \/ SuspectStep \/ SweepCollect \/ AdoptBegin PROVE JobInv'
  BY <1>1, <1>s DEF ClientStep, SendRegister, SendRelease, Die, SuspectStep, Suspect, HearFrom,
     AdoptBegin, SweepCollect, pumpVars
<1>2. ASSUME NEW s \in Sessions, SweepNext(s) PROVE JobInv'
  <2>1. Forget(s) /\ UNCHANGED <<job, threads>>
    BY <1>2 DEF SweepNext
  <2>2. Job("archive", s, NoThread).kind = "archive"
    BY DEF Job
  <2> QED
    BY <2>1, <2>2, ForgetSchedules, JobForAdded
<1>3. ASSUME BeginRegister \/ Claim \/ Upsert \/ RefuseRelease PROVE JobInv'
  BY <1>3, <1>s DEF BeginRegister, Claim, Upsert, RefuseRelease, pumpVars
<1>4. ASSUME OpenThread PROVE JobInv'
  <2>1. /\ Schedule(gen, Job("open", handler.session, NoThread)) /\ UNCHANGED <<job, threads>>
        /\ handler.session \in Sessions
    BY <1>4 DEF OpenThread, ServeTypes
  <2>2. Job("open", handler.session, NoThread).thread = NoThread
    BY DEF Job
  <2>3. Job("open", handler.session, NoThread) \in Jobs
    BY <2>1, JobType
  <2> QED
    BY <1>g, <2>1, <2>2, <2>3, JobForAdded
<1>5. ASSUME Release PROVE JobInv'
  <2>1. wire # <<>> /\ Forget(Head(wire).session) /\ UNCHANGED <<job, threads>>
    BY <1>5 DEF Release
  <2>2. Head(wire).session \in Sessions
    BY <2>1, WireType
  <2>3. Job("archive", Head(wire).session, NoThread).kind = "archive"
    BY DEF Job
  <2> QED
    BY <2>1, <2>2, <2>3, ForgetSchedules, JobForAdded
<1>6. ASSUME AdoptNext PROVE JobInv'
  <2>1. UNCHANGED <<job, threads>>
    BY <1>6 DEF AdoptNext
  <2>2. CASE toAdopt = {}
    BY <1>6, <1>s, <2>1, <2>2 DEF AdoptNext
  <2>3. CASE toAdopt # {}
    <3>1. PICK st \in toAdopt : Schedule(gen, Job("adopt", st[1], st[2]))
      BY <1>6, <2>3 DEF AdoptNext
    <3>2. st[1] \in Sessions /\ st[2] \in ThreadIds
      BY DEF CareTypes
    <3>3. Job("adopt", st[1], st[2]) \in Jobs /\ Job("adopt", st[1], st[2]).kind = "adopt"
      BY <3>2, JobType DEF Job
    <3> QED
      BY <1>g, <2>1, <3>1, <3>3, JobForAdded
  <2> QED
    BY <2>2, <2>3
<1>7. ASSUME NEW g \in Gens, Pump(g) PROVE JobInv'
  BY <1>7, JobForPump
<1>8. ASSUME BrokerStep PROVE JobInv'
  <2>1. StandDown \/ Elect \/ Restart => JobInv'
    BY <1>s DEF StandDown, Elect, Restart, pumpVars
  <2>2. ASSUME NEW g \in Gens, Crash(g) PROVE JobInv'
    <3>1. \A s : ~Is(NoJob, "open", s) /\ ~Is(NoJob, "archive", s)
      BY NoJobIsNone
    <3>2. /\ \A h \in Gens : h # g => /\ queue'[h] = queue[h] /\ job'[h] = job[h]
                                      /\ threads'[h] = threads[h]
          /\ queue'[g] = <<>> /\ job'[g] = NoJob
      BY <2>2 DEF Crash, PumpTypes
    <3>3. ASSUME NEW h \in Gens, NEW s \in Sessions PROVE JobFor(h, s)'
      <4>1. CASE h = g
        BY <3>1, <3>2, <4>1 DEF JobFor
      <4>2. CASE h # g
        BY <3>2, <4>2 DEF JobFor, JobInv
      <4> QED
        BY <4>1, <4>2
    <3> QED
      BY <3>3 DEF JobInv, JobFor
  <2> QED
    BY <1>8, <2>1, <2>2 DEF BrokerStep
<1>9. CASE UNCHANGED vars
  BY <1>9, <1>s DEF vars, pumpVars
<1> QED
  BY <1>1, <1>2, <1>3, <1>4, <1>5, <1>6, <1>7, <1>8, <1>9
     DEF Next, SweepStep, AcceptStep, AdoptStep

LEMMA StatusNext == TypeOK /\ Phased /\ StatusInv /\ [Next]_vars => StatusInv'
<1> SUFFICES ASSUME TypeOK, Phased, StatusInv, [Next]_vars PROVE StatusInv'
  OBVIOUS
<1> USE DEF TypeOK
<1>g. gen \in Gens /\ gen \in Nat /\ Gens \subseteq Nat
  BY DEF ServeTypes, Gens
<1>s. ASSUME UNCHANGED <<status, gen>> PROVE StatusInv'
  BY <1>s DEF StatusInv, Pumping
<1>1. ASSUME ClientStep \/ SuspectStep \/ SweepStep \/ AcceptStep PROVE StatusInv'
  BY <1>1, <1>s DEF ClientStep, SendRegister, SendRelease, Die, SuspectStep, Suspect, HearFrom,
     SweepStep, SweepCollect, SweepNext, AcceptStep, BeginRegister, Claim, Upsert, OpenThread,
     Release, RefuseRelease, serveVars
<1>2. ASSUME AdoptStep PROVE StatusInv'
  BY <1>2, <1>g DEF AdoptStep, AdoptBegin, AdoptNext, StatusInv, Pumping, ServeTypes
<1>3. ASSUME NEW g \in Gens, Pump(g) PROVE StatusInv'
  BY <1>3, <1>s, PumpsOwn
<1>4. ASSUME BrokerStep PROVE StatusInv'
  <2>1. StandDown => StatusInv'
    BY <1>g DEF StandDown, StatusInv, Pumping, ServeTypes
  <2>2. Restart => StatusInv'
    BY <1>g DEF Restart, StatusInv, Pumping, ServeTypes
  <2>3. ASSUME NEW g \in Gens, Crash(g) PROVE StatusInv'
    BY <2>3, <1>g DEF Crash, StatusInv, Pumping, ServeTypes
  <2>4. ASSUME Elect PROVE StatusInv'
    <3>1. /\ gen' = gen + 1 /\ status[gen] \in {"draining", "gone"}
          /\ \A g \in Gens : g # gen + 1 => status'[g] = status[g]
      BY <2>4, <1>g DEF Elect, ServeTypes
    <3> QED
      BY <1>g, <3>1 DEF StatusInv, Pumping
  <2> QED
    BY <1>4, <2>1, <2>2, <2>3, <2>4 DEF BrokerStep
<1>5. CASE UNCHANGED vars
  BY <1>5, <1>s DEF vars, serveVars
<1> QED
  BY <1>1, <1>2, <1>3, <1>4, <1>5 DEF Next

LEMMA MakerNext == TypeOK /\ Phased /\ MakerInv /\ [Next]_vars => MakerInv'
<1> SUFFICES ASSUME TypeOK, Phased, MakerInv, [Next]_vars PROVE MakerInv'
  OBVIOUS
<1> USE DEF TypeOK
<1>g. gen \in Nat /\ Gens \subseteq Nat /\ maker \in [ThreadIds -> Nat] /\ gen \in Gens
  BY DEF ServeTypes, Gens, WorldTypes
<1>m. gen' \in Nat /\ gen <= gen'
  <2>1. gen' = gen \/ gen' = gen + 1
    BY DEF Next, ClientStep, SendRegister, SendRelease, Die, SuspectStep, Suspect, HearFrom,
     SweepStep, SweepCollect, SweepNext, AcceptStep, BeginRegister, Claim, Upsert, OpenThread,
     Release, RefuseRelease, AdoptStep, AdoptBegin, AdoptNext, Pump, OpenExisting, OpenBegin,
     Created, CreateFails, Opened, AdoptJobBegin, Adopted, ArchiveJobBegin, Archived, BrokerStep,
     StandDown, Crash, Elect, Restart, serveVars, vars
  <2> QED
    BY <1>g, <2>1
<1>1. ASSUME NEW g \in Gens, Created(g) PROVE MakerInv'
  <2>1. Pumping(g)
    BY <1>1 DEF Created
  <2>2. g <= gen
    BY <1>g, <2>1, PumpsElected
  <2>3. \A u \in ThreadIds : maker'[u] = g \/ maker'[u] = maker[u]
    BY <1>1, DoesCreated DEF Makes
  <2> QED
    BY <1>g, <1>m, <2>2, <2>3 DEF MakerInv
<1>2. CASE ~ \E g \in Gens : Created(g)
  <2>1. UNCHANGED maker
    BY <1>2 DEF Next, ClientStep, SendRegister, SendRelease, Die, SuspectStep, Suspect, HearFrom,
     SweepStep, SweepCollect, SweepNext, AcceptStep, BeginRegister, Claim, Upsert, OpenThread,
     Release, RefuseRelease, AdoptStep, AdoptBegin, AdoptNext, Pump, OpenExisting, OpenBegin,
     CreateFails, Opened, AdoptJobBegin, Adopted, ArchiveJobBegin, Archived, BrokerStep,
     StandDown, Crash, Elect, Restart, worldVars, vars
  <2> QED
    BY <1>g, <1>m, <2>1 DEF MakerInv
<1> QED
  BY <1>1, <1>2

LEMMA GroundInit == Init => Ground
<1> SUFFICES ASSUME Init PROVE Ground
  OBVIOUS
<1>1. WireInv
  BY DEF Init, WireInv
<1>2. SweepInv /\ DiskInv /\ StatusInv /\ MakerInv
  BY DEF Init, SweepInv, DiskInv, StatusInv, MakerInv, Gens, Pumping
<1>3. JobInv
  BY NoJobIsNone DEF Init, JobInv
<1> QED
  BY <1>1, <1>2, <1>3 DEF Ground

LEMMA GroundNext == RightOwners /\ Phased /\ Ground /\ [Next]_vars => Ground'
<1> SUFFICES ASSUME RightOwners, Phased, Ground, [Next]_vars PROVE Ground'
  OBVIOUS
<1>1. TypeOK
  BY DEF RightOwners
<1> QED
  BY <1>1, WireNext, SweepNextInv, DiskNext, JobNext, StatusNext, MakerNext DEF Ground

-----------------------------------------------------------------------------
(* An adoption that replaces nothing stays one: as its place moves up, and  *)
(* as jobs are added behind it.                                            *)

LEMMA HarmlessShift ==
  ASSUME NEW q, NEW r, Len(q) \in Nat, Len(r) = Len(q) - 1, Len(q) > 0,
         \A i \in 1 .. Len(r) : i + 1 \in 1 .. Len(q) /\ r[i] = q[i + 1],
         NEW j, NEW k, NEW m, NEW n, NEW s, NEW t, NEW p \in Nat,
         HarmlessIn(q, j, m, s, t, p), n \in {NoThread, t},
         ~NewOpen(k, s), Is(k, "adopt", s) => k.thread = t,
         n = m \/ n = t \/ Is(q[1], "archive", s)
  PROVE  HarmlessIn(r, k, n, s, t, p - 1)
<1> SUFFICES ASSUME NEW i \in 1 .. Len(r), i < p - 1
             PROVE  /\ Is(r[i], "adopt", s) => r[i].thread = t
                    /\ Is(r[i], "open", s) =>
                         n = t /\ \A l \in 1 .. Len(r) : l < i => ~Is(r[l], "archive", s)
  BY DEF HarmlessIn
<1>1. i + 1 \in 1 .. Len(q) /\ r[i] = q[i + 1] /\ i + 1 < p /\ 1 \in 1 .. Len(q) /\ 1 < i + 1
  OBVIOUS
<1>2. Is(r[i], "adopt", s) => r[i].thread = t
  BY <1>1 DEF HarmlessIn
<1>3. ASSUME Is(r[i], "open", s) PROVE n = t
  BY <1>1, <1>3 DEF HarmlessIn
<1>4. ASSUME Is(r[i], "open", s), NEW l \in 1 .. Len(r), l < i PROVE ~Is(r[l], "archive", s)
  <2>1. l + 1 \in 1 .. Len(q) /\ r[l] = q[l + 1] /\ l + 1 < i + 1
    BY <1>4
  <2> QED
    BY <1>1, <1>4, <2>1 DEF HarmlessIn
<1> QED
  BY <1>2, <1>3, <1>4

LEMMA HarmlessStay ==
  ASSUME NEW q, NEW j, NEW k, NEW m, NEW n, NEW s, NEW t, NEW p \in Nat,
         HarmlessIn(q, j, m, s, t, p), n = m \/ n = t,
         ~NewOpen(k, s), Is(k, "adopt", s) => k.thread = t
  PROVE  HarmlessIn(q, k, n, s, t, p)
  BY DEF HarmlessIn

\* Behind: nothing changes for a place in the queue.  At the end: what is
\* added must replace nothing either.
LEMMA HarmlessBehind ==
  ASSUME NEW q, NEW r, Len(q) \in Nat, Len(r) = Len(q) + 1,
         \A i \in 1 .. Len(q) : r[i] = q[i],
         NEW j, NEW m, NEW s, NEW t, NEW p \in Nat, p <= Len(q) + 1
  PROVE  HarmlessIn(q, j, m, s, t, p) => HarmlessIn(r, j, m, s, t, p)
<1> SUFFICES ASSUME HarmlessIn(q, j, m, s, t, p), NEW i \in 1 .. Len(r), i < p
             PROVE  /\ Is(r[i], "adopt", s) => r[i].thread = t
                    /\ Is(r[i], "open", s) =>
                         m = t /\ \A l \in 1 .. Len(r) : l < i => ~Is(r[l], "archive", s)
  BY DEF HarmlessIn
<1>1. i \in 1 .. Len(q) /\ r[i] = q[i]
  OBVIOUS
<1>2. \A l \in 1 .. Len(r) : l < i => l \in 1 .. Len(q) /\ r[l] = q[l]
  OBVIOUS
<1> QED
  BY <1>1, <1>2 DEF HarmlessIn

LEMMA HarmlessAtEnd ==
  ASSUME NEW q, NEW r, Len(q) \in Nat, Len(r) = Len(q) + 1,
         \A i \in 1 .. Len(q) : r[i] = q[i],
         NEW j, NEW m, NEW s, NEW t,
         HarmlessIn(q, j, m, s, t, Len(q) + 1),
         Is(r[Len(q) + 1], "adopt", s) => r[Len(q) + 1].thread = t,
         Is(r[Len(q) + 1], "open", s) => m = t /\ ~Has(q, "archive", s)
  PROVE  HarmlessIn(r, j, m, s, t, Len(r) + 1)
<1> SUFFICES ASSUME NEW i \in 1 .. Len(r)
             PROVE  /\ Is(r[i], "adopt", s) => r[i].thread = t
                    /\ Is(r[i], "open", s) =>
                         m = t /\ \A l \in 1 .. Len(r) : l < i => ~Is(r[l], "archive", s)
  BY DEF HarmlessIn
<1>1. CASE i = Len(q) + 1
  <2>1. \A l \in 1 .. Len(r) : l < i => l \in 1 .. Len(q) /\ r[l] = q[l]
    BY <1>1
  <2> QED
    BY <1>1, <2>1 DEF Has
<1>2. CASE i # Len(q) + 1
  <2>1. i \in 1 .. Len(q) /\ r[i] = q[i] /\ i < Len(q) + 1
    BY <1>2
  <2>2. \A l \in 1 .. Len(r) : l < i => l \in 1 .. Len(q) /\ r[l] = q[l]
    BY <2>1
  <2> QED
    BY <2>1, <2>2 DEF HarmlessIn
<1> QED
  BY <1>1, <1>2

\* The job that a pump takes up or leaves, and the mapping it leaves: as far
\* as an adoption of t that would replace nothing is concerned.
Spares(g, s, t) ==
  /\ threads'[g][s] \in {NoThread, t}
  /\ ~NewOpen(job'[g], s)
  /\ Is(job'[g], "adopt", s) => job'[g].thread = t
  /\ \/ threads'[g][s] = threads[g][s] \/ threads'[g][s] = t
     \/ queue[g] # <<>> /\ Take(g) /\ Is(queue[g][1], "archive", s)

LEMMA PumpSpares ==
  ASSUME TypeOK, Phased, JobInv, NEW g \in Gens, Pump(g),
         NEW s \in Sessions, NEW t \in ThreadIds, NEW p \in Nat, p > 0,
         Harmless(g, s, t, p), queue'[g] # queue[g] => p > 1
  PROVE  Spares(g, s, t)
<1> USE DEF TypeOK
<1>0. /\ threads[g][s] \in {NoThread, t} /\ t # NoThread
      /\ ~NewOpen(job[g], s) /\ (Is(job[g], "adopt", s) => job[g].thread = t)
  BY NoThreadIsNoId DEF Harmless, HarmlessIn
<1>n. /\ ~NewOpen(NoJob, s) /\ ~Is(NoJob, "adopt", s)
  BY NoJobIsNone DEF NewOpen
<1>h. ASSUME queue[g] # <<>>, Take(g)
      PROVE  /\ queue[g][1] = NextJob(g)
             /\ Is(NextJob(g), "adopt", s) => NextJob(g).thread = t
             /\ Is(NextJob(g), "open", s) => threads[g][s] = t
  <2>1. 1 \in 1 .. Len(queue[g]) /\ queue[g][1] = NextJob(g) /\ 1 < p
    <3>1. queue'[g] # queue[g]
      BY <1>h, QueueShifted
    <3> QED
      BY <1>h, <3>1, HeadListed
  <2> QED
    BY <2>1 DEF Harmless, HarmlessIn
<1>1. CASE OpenExisting(g)
  BY <1>0, <1>1, DoesOpenExisting DEF Spares
<1>2. CASE OpenBegin(g)
  <2>1. /\ job'[g] = NextJob(g) /\ NextJob(g).kind = "open" /\ queue[g] # <<>> /\ Take(g)
        /\ threads[g][NextJob(g).session] = NoThread /\ threads' = threads
    BY <1>2, DoesOpenBegin
  <2>2. NextJob(g).session # s
    BY <1>0, <1>h, <2>1 DEF Is
  <2> QED
    BY <1>0, <2>1, <2>2 DEF Spares, Is, NewOpen
<1>3. CASE Created(g)
  <2>0. PICK u \in ThreadIds : Makes(g, u)
    BY <1>3, DoesCreated
  <2>1. /\ threads'[g][s] = IF s = job[g].session THEN u ELSE threads[g][s]
        /\ job'[g] = [job[g] EXCEPT !.thread = u]
    BY <2>0 DEF Makes
  <2>2. job[g].kind = "open" /\ job[g] \in Jobs /\ job[g].thread = NoThread
    BY <1>3, DoesCreated, TypedJob
  <2>3. job'[g].kind = "open" /\ job'[g].session = job[g].session
    BY <2>1, <2>2 DEF Jobs
  <2>4. job[g].session # s
    BY <1>0, <2>2 DEF NewOpen, Is
  <2> QED
    BY <1>0, <2>1, <2>3, <2>4 DEF Spares, Is, NewOpen
<1>4. CASE CreateFails(g)
  BY <1>0, <1>4, <1>n, DoesCreateFails DEF Spares
<1>5. CASE Opened(g)
  BY <1>0, <1>5, <1>n, DoesOpened DEF Spares
<1>6. CASE AdoptJobBegin(g)
  <2>1. /\ job'[g] = NextJob(g) /\ NextJob(g).kind = "adopt" /\ queue[g] # <<>> /\ Take(g)
        /\ threads' = threads
    BY <1>6, DoesAdoptJobBegin
  <2> QED
    BY <1>0, <1>h, <2>1 DEF Spares, Is, NewOpen
<1>7. CASE Adopted(g)
  <2>1. /\ job'[g] = NoJob /\ job[g].kind = "adopt"
        /\ \/ threads' = threads
           \/ threads'[g][s] = IF s = job[g].session THEN job[g].thread ELSE threads[g][s]
    BY <1>7, DoesAdopted
  <2> QED
    BY <1>0, <1>n, <2>1 DEF Spares, Is
<1>8. CASE ArchiveJobBegin(g)
  <2>1. /\ queue[g] # <<>> /\ Take(g) /\ NextJob(g).kind = "archive"
        /\ threads'[g][s] = IF s = NextJob(g).session THEN NoThread ELSE threads[g][s]
        /\ job'[g] = NoJob \/ Is(job'[g], "archive", NextJob(g).session)
    BY <1>8, DoesArchiveJobBegin
  <2> QED
    BY <1>0, <1>h, <1>n, <2>1 DEF Spares, Is, NewOpen
<1>9. CASE Archived(g)
  <2>1. job'[g] = NoJob /\ threads' = threads
    BY <1>9 DEF Archived, PumpTypes
  <2> QED
    BY <1>0, <1>n, <2>1 DEF Spares
<1> QED
  BY <1>1, <1>2, <1>3, <1>4, <1>5, <1>6, <1>7, <1>8, <1>9 DEF Pump

LEMMA HarmlessPumped ==
  ASSUME TypeOK, Phased, JobInv, NEW g \in Gens, Pump(g),
         NEW s \in Sessions, NEW t \in ThreadIds, NEW p \in Nat, p > 0,
         Harmless(g, s, t, p)
  PROVE  /\ queue'[g] = queue[g] =>
              HarmlessIn(queue'[g], job'[g], threads'[g][s], s, t, p)
         /\ queue[g] # <<>> /\ Take(g) /\ p > 1 =>
              HarmlessIn(queue'[g], job'[g], threads'[g][s], s, t, p - 1)
<1> USE DEF TypeOK
<1>1. ASSUME queue'[g] = queue[g]
      PROVE  HarmlessIn(queue'[g], job'[g], threads'[g][s], s, t, p)
  <2>1. Spares(g, s, t)
    BY <1>1, PumpSpares
  <2>2. ~(queue[g] # <<>> /\ Take(g))
    BY <1>1, QueueShifted
  <2> QED
    BY <1>1, <2>1, <2>2, HarmlessStay DEF Spares, Harmless
<1>2. ASSUME queue[g] # <<>>, Take(g), p > 1
      PROVE  HarmlessIn(queue'[g], job'[g], threads'[g][s], s, t, p - 1)
  <2>1. Spares(g, s, t)
    BY <1>2, PumpSpares
  <2>2. /\ Len(queue[g]) \in Nat /\ Len(queue'[g]) = Len(queue[g]) - 1 /\ Len(queue[g]) > 0
        /\ \A i \in 1 .. Len(queue'[g]) :
             i + 1 \in 1 .. Len(queue[g]) /\ queue'[g][i] = queue[g][i + 1]
    BY <1>2, QueueShifted
  <2> QED
    BY <2>1, <2>2, HarmlessShift DEF Spares, Harmless
<1> QED
  BY <1>1, <1>2

-----------------------------------------------------------------------------
(* What a step does to the gateways.                                       *)

\* A job is scheduled: by the accept loop, by the sweep or by the adoption.
Sends(j) ==
  /\ Schedule(gen, j) /\ j \in Jobs
  /\ UNCHANGED <<job, threads, worldVars, client, healed, gen, status, restarts>>
  /\ j.kind = "open" => OpenThread /\ j.thread = NoThread /\ handler.session = j.session
  /\ j.kind = "adopt" => AdoptNext /\ <<j.session, j.thread>> \in toAdopt
  /\ j.kind = "archive" => /\ client[j.session] # "live"
                           /\ \/ Release /\ j.session = Head(wire).session
                              \/ SweepNext(j.session)

LEMMA SendsOpen ==
  ASSUME TypeOK, OpenThread
  PROVE  Sends(Job("open", handler.session, NoThread))
<1>1. handler.session \in Sessions
  BY DEF TypeOK, ServeTypes, OpenThread
<1>2. Job("open", handler.session, NoThread) \in Jobs
  BY <1>1, JobType
<1> QED
  BY <1>1, <1>2 DEF Sends, OpenThread, Job, clientVars

LEMMA SendsArchive ==
  ASSUME RightOwners, Release \/ \E s \in Sessions : SweepNext(s)
  PROVE  \E s \in Sessions : Sends(Job("archive", s, NoThread))
<1> USE DEF RightOwners
<1>1. ASSUME Release PROVE \E s \in Sessions : Sends(Job("archive", s, NoThread))
  <2> DEFINE s == Head(wire).session
  <2>1. wire # <<>> /\ Head(wire).kind = "release" /\ Forget(s)
    BY <1>1 DEF Release
  <2>2. s \in Sessions /\ client[s] # "live"
    BY <2>1, RightHead DEF RightFrames, Frames
  <2>3. Schedule(gen, Job("archive", s, NoThread)) /\ Job("archive", s, NoThread) \in Jobs
    BY <2>1, <2>2, ForgetSchedules
  <2> QED
    BY <1>1, <2>2, <2>3 DEF Sends, Release, Job, clientVars
<1>2. ASSUME NEW s \in Sessions, SweepNext(s)
      PROVE  Sends(Job("archive", s, NoThread))
  <2>1. Forget(s) /\ client[s] # "live"
    BY <1>2 DEF SweepNext, RightCare
  <2>2. Schedule(gen, Job("archive", s, NoThread)) /\ Job("archive", s, NoThread) \in Jobs
    BY <2>1, ForgetSchedules
  <2> QED
    BY <1>2, <2>1, <2>2 DEF Sends, SweepNext, Job, clientVars, serveVars
<1> QED
  BY <1>1, <1>2

LEMMA SendsAdopt ==
  ASSUME TypeOK, AdoptNext, toAdopt # {}
  PROVE  \E st \in toAdopt :
           Sends(Job("adopt", st[1], st[2])) /\ toAdopt' = toAdopt \ {st}
<1>1. PICK st \in toAdopt :
         Schedule(gen, Job("adopt", st[1], st[2])) /\ toAdopt' = toAdopt \ {st}
  BY DEF AdoptNext
<1>2. st[1] \in Sessions /\ st[2] \in ThreadIds /\ st = <<st[1], st[2]>>
  BY DEF TypeOK, CareTypes
<1>3. Job("adopt", st[1], st[2]) \in Jobs
  BY <1>2, JobType
<1>4. UNCHANGED status
  BY DEF AdoptNext
<1> QED
  BY <1>1, <1>2, <1>3, <1>4 DEF Sends, AdoptNext, Job, clientVars

LEMMA StepKinds ==
  ASSUME RightOwners, [Next]_vars
  PROVE  \/ UNCHANGED <<queue, job, threads, worldVars>>
         \/ \E j \in Jobs : Sends(j)
         \/ \E g \in Gens : Pump(g)
         \/ \E g \in Gens : Crash(g)
<1> USE DEF RightOwners
<1>1. ASSUME ClientStep \/ SuspectStep \/ SweepCollect \/ AdoptBegin
      PROVE  UNCHANGED <<queue, job, threads, worldVars>>
  BY <1>1 DEF ClientStep, SendRegister, SendRelease, Die, SuspectStep, Suspect, HearFrom,
     AdoptBegin, SweepCollect, pumpVars
<1>2. ASSUME BeginRegister \/ Claim \/ Upsert \/ RefuseRelease
      PROVE  UNCHANGED <<queue, job, threads, worldVars>>
  BY <1>2 DEF BeginRegister, Claim, Upsert, RefuseRelease, pumpVars
<1>3. ASSUME StandDown \/ Elect \/ Restart
      PROVE  UNCHANGED <<queue, job, threads, worldVars>>
  BY <1>3 DEF StandDown, Elect, Restart, pumpVars
<1>4. ASSUME AdoptNext, toAdopt = {}
      PROVE  UNCHANGED <<queue, job, threads, worldVars>>
  BY <1>4 DEF AdoptNext
<1>5. CASE UNCHANGED vars
  BY <1>5 DEF vars, pumpVars
<1>6. \A j : Sends(j) => j \in Jobs
  BY DEF Sends
<1> QED
  BY <1>1, <1>2, <1>3, <1>4, <1>5, <1>6, SendsOpen, SendsArchive, SendsAdopt
     DEF Next, SweepStep, AcceptStep, AdoptStep, BrokerStep

\* A gateway that drains, drains until its process ends.
LEMMA OverNext ==
  ASSUME RightOwners, Phased, WireInv, [Next]_vars,
         NEW g \in Gens, NEW s \in Sessions, ~Crash(g), Over(g, s)
  PROVE  Over(g, s)'
<1> USE DEF RightOwners, TypeOK
<1>f. NoMore(s) => NoMore(s)'
  BY WireNext DEF Fates
<1>g. gen \in Gens /\ gen \in Nat /\ ~(gen > gen) /\ gen + 1 > gen
  BY DEF ServeTypes, Gens
<1>1. ASSUME status[g] = "draining" PROVE status'[g] = "draining"
  <2>1. ASSUME ClientStep \/ SuspectStep \/ SweepStep \/ AcceptStep PROVE UNCHANGED status
    BY <2>1 DEF ClientStep, SendRegister, SendRelease, Die, SuspectStep, Suspect, HearFrom,
       SweepStep, SweepCollect, SweepNext, AcceptStep, BeginRegister, Claim, Upsert, OpenThread,
       Release, RefuseRelease, serveVars
  <2>2. ASSUME AdoptStep \/ StandDown \/ Restart PROVE status'[g] = "draining"
    BY <1>1, <1>g, <2>2 DEF AdoptStep, AdoptBegin, AdoptNext, StandDown, Restart, ServeTypes
  <2>3. ASSUME Elect PROVE status'[g] = "draining"
    <3>1. gen + 1 \in Gens => status[gen + 1] = "waiting"
      BY <1>g DEF Phased, Untouched
    <3>2. status' = [status EXCEPT ![gen + 1] = "started"]
      BY <2>3 DEF Elect
    <3> QED
      BY <1>1, <3>1, <3>2 DEF ServeTypes
  <2>4. ASSUME NEW h \in Gens, Crash(h) PROVE status'[g] = "draining"
    BY <1>1, <2>4 DEF Crash, ServeTypes
  <2>5. ASSUME NEW h \in Gens, Pump(h) PROVE UNCHANGED status
    BY <2>5, PumpsOwn
  <2>6. CASE UNCHANGED vars
    BY <1>1, <2>6 DEF vars, serveVars
  <2> QED
    BY <1>1, <2>1, <2>2, <2>3, <2>4, <2>5, <2>6 DEF Next, BrokerStep
<1> QED
  BY <1>f, <1>1 DEF Over

-----------------------------------------------------------------------------
(* Adoptions on their way, and in hand.                                    *)

\* No open request joins the queue of a gateway that opens no more.
LEMMA FinalBehind ==
  ASSUME RightOwners, Phased, WireInv, [Next]_vars,
         NEW j \in Jobs, NEW g \in Gens, Sends(j), g = gen, ~Crash(g),
         NEW s \in Sessions, NEW p \in Nat, FinalFrom(g, s, p)
  PROVE  FinalFrom(g, s, p)'
<1> USE DEF RightOwners, TypeOK
<1>g. gen' = g
  BY DEF ServeTypes, Sends
<1>1. Over(g, s) /\ Over(g, s)'
  BY <1>g, OverNext DEF FinalFrom
<1>2. ~Is(j, "open", s)
  <2> SUFFICES ASSUME Is(j, "open", s) PROVE FALSE
    OBVIOUS
  <2>1. handler.session = s /\ handler.pc = "claimed"
    BY DEF Is, Sends, OpenThread
  <2>2. Serving
    BY <2>1 DEF Phased, Phases, IdleLoop
  <2> QED
    BY <1>1, <2>1, <2>2 DEF Over, NoMore, Quiet, Serving
<1>3. ASSUME NEW i \in 1 .. Len(queue'[g]), i > p PROVE ~Is(queue'[g][i], "open", s)
  <2>1. /\ Len(queue[g]) \in Nat /\ Len(queue'[g]) = Len(queue[g]) + 1
        /\ queue'[g][Len(queue[g]) + 1] = j
        /\ \A n \in 1 .. Len(queue[g]) : queue'[g][n] = queue[g][n]
    BY <1>g, QueueGrown DEF Sends
  <2>2. i = Len(queue[g]) + 1 \/ i \in 1 .. Len(queue[g])
    BY <2>1
  <2> QED
    BY <1>2, <1>3, <2>1, <2>2 DEF FinalFrom
<1> QED
  BY <1>g, <1>1, <1>3 DEF FinalFrom

\* What a pump adopts was the head of its queue.
LEMMA AdoptsHead ==
  ASSUME TypeOK, NEW g \in Gens, Pump(g), NEW s, Is(job'[g], "adopt", s)
  PROVE  AdoptJobBegin(g)
<1>n. ~Is(NoJob, "adopt", s)
  BY NoJobIsNone
<1>1. ~OpenExisting(g)
  BY <1>n, DoesOpenExisting
<1>2. ~OpenBegin(g)
  BY DoesOpenBegin DEF Is
<1>3. ~Created(g)
  <2> SUFFICES ASSUME Created(g) PROVE FALSE
    OBVIOUS
  <2>0. PICK u \in ThreadIds : Makes(g, u)
    BY DoesCreated
  <2>1. job'[g] = [job[g] EXCEPT !.thread = u]
    BY <2>0 DEF Makes
  <2>2. job[g].kind = "open" /\ job[g] \in Jobs
    BY DoesCreated, TypedJob
  <2> QED
    BY <2>1, <2>2 DEF Jobs, Is
<1>4. ~CreateFails(g) /\ ~Opened(g)
  BY <1>n, DoesCreateFails, DoesOpened
<1>5. ~Adopted(g) /\ ~Archived(g)
  <2>1. Adopted(g) \/ Archived(g) => job'[g] = NoJob
    BY DEF Adopted, Archived, TypeOK, PumpTypes
  <2> QED
    BY <1>n, <2>1
<1>6. ~ArchiveJobBegin(g)
  BY <1>n, DoesArchiveJobBegin DEF Is
<1> QED
  BY <1>1, <1>2, <1>3, <1>4, <1>5, <1>6 DEF Pump

AdoptedAt(g, s) == \A p \in 1 .. Len(queue[g]) : Is(queue[g][p], "adopt", s) =>
  Harmless(g, s, queue[g][p].thread, p) \/ FinalFrom(g, s, p)
AdoptedBy(g, s) == Is(job[g], "adopt", s) =>
  threads[g][s] \in {NoThread, job[g].thread} \/ FinalFrom(g, s, 0)

LEMMA AdoptedSends ==
  ASSUME RightOwners, Phased, WireInv, [Next]_vars, AdoptInv,
         NEW j \in Jobs, NEW g \in Gens, Sends(j), g = gen, ~Crash(g), NEW s \in Sessions,
         AdoptedAt(g, s), AdoptedBy(g, s)
  PROVE  AdoptedAt(g, s)' /\ AdoptedBy(g, s)'
<1> USE DEF RightOwners, TypeOK
<1>g. gen' = g /\ UNCHANGED <<job, threads>>
  BY DEF ServeTypes, Sends
<1>q. /\ Len(queue[g]) \in Nat /\ Len(queue'[g]) = Len(queue[g]) + 1
      /\ queue'[g][Len(queue[g]) + 1] = j
      /\ \A n \in 1 .. Len(queue[g]) : queue'[g][n] = queue[g][n]
  BY <1>g, QueueGrown DEF Sends
<1>f. \A p \in Nat : FinalFrom(g, s, p) => FinalFrom(g, s, p)'
  BY FinalBehind
<1>h. \A t : \A p \in Nat : p <= Len(queue[g]) + 1 /\ Harmless(g, s, t, p) =>
        HarmlessIn(queue'[g], job'[g], threads'[g][s], s, t, p)
  BY <1>g, <1>q, HarmlessBehind DEF Harmless
<1>1. AdoptedBy(g, s)'
  BY <1>g, <1>f DEF AdoptedBy
<1>2. ASSUME NEW p \in 1 .. Len(queue'[g]), Is(queue'[g][p], "adopt", s)
      PROVE  \/ HarmlessIn(queue'[g], job'[g], threads'[g][s], s, queue'[g][p].thread, p)
             \/ FinalFrom(g, s, p)'
  <2>1. CASE p \in 1 .. Len(queue[g])
    <3>1. Harmless(g, s, queue[g][p].thread, p) \/ FinalFrom(g, s, p)
      BY <1>2, <1>q, <2>1 DEF AdoptedAt
    <3> QED
      BY <1>h, <1>f, <1>q, <2>1, <3>1
  <2>2. CASE p = Len(queue[g]) + 1
    <3>1. queue'[g][p] = j /\ MayAdopt(s, j.thread)
      <4>1. queue'[g][p] = j /\ j.kind = "adopt" /\ j.session = s
        BY <1>2, <1>q, <2>2 DEF Is
      <4>2. <<s, j.thread>> \in toAdopt
        BY <4>1 DEF Sends
      <4> QED
        BY <4>1, <4>2 DEF AdoptInv
    <3>2. CASE NoMore(s)
      <4>1. NoMore(s)'
        BY <3>2, WireNext DEF Fates
      <4>2. \A i \in 1 .. Len(queue'[g]) : ~(i > p)
        BY <1>q, <2>2
      <4> QED
        BY <1>g, <4>1, <4>2 DEF FinalFrom, Over
    <3>3. CASE Harmless(g, s, j.thread, p)
      BY <1>h, <1>q, <2>2, <3>1, <3>3
    <3> QED
      BY <2>2, <3>1, <3>2, <3>3 DEF MayAdopt
  <2> QED
    BY <1>q, <2>1, <2>2
<1>3. AdoptedAt(g, s)'
  BY <1>g, <1>2 DEF AdoptedAt, Harmless
<1> QED
  BY <1>1, <1>3

LEMMA AdoptedPump ==
  ASSUME RightOwners, Phased, Ground, [Next]_vars, NEW g \in Gens, Pump(g), ~Crash(g),
         NEW s \in Sessions, AdoptedAt(g, s), AdoptedBy(g, s)
  PROVE  AdoptedAt(g, s)' /\ AdoptedBy(g, s)'
<1> USE DEF RightOwners, TypeOK, Ground
<1>o. Over(g, s) => Over(g, s)'
  BY OverNext
<1>n. \A p \in 1 .. Len(queue[g]) : Is(queue[g][p], "adopt", s) => queue[g][p].thread \in ThreadIds
  BY DEF Phased, AdoptsName, Is
<1>l. Len(queue[g]) \in Nat
  BY QueueLen
<1>1. CASE queue'[g] = queue[g]
  <2>1. ASSUME NEW p \in 1 .. Len(queue[g]), Is(queue[g][p], "adopt", s)
        PROVE  \/ HarmlessIn(queue'[g], job'[g], threads'[g][s], s, queue'[g][p].thread, p)
               \/ FinalFrom(g, s, p)'
    <3>1. Harmless(g, s, queue[g][p].thread, p) \/ FinalFrom(g, s, p)
      BY <2>1 DEF AdoptedAt
    <3>2. p \in Nat /\ p > 0 /\ queue[g][p].thread \in ThreadIds
      BY <1>n, <1>l, <2>1
    <3>3. FinalFrom(g, s, p) => FinalFrom(g, s, p)'
      BY <1>o, <1>1 DEF FinalFrom
    <3> QED
      BY <1>1, <3>1, <3>2, <3>3, HarmlessPumped
  <2>2. AdoptedAt(g, s)'
    BY <1>1, <2>1 DEF AdoptedAt, Harmless
  <2>3. ~AdoptJobBegin(g)
    BY <1>1, <1>l, DoesAdoptJobBegin, QueueShifted
  <2>4. ~Is(job'[g], "adopt", s)
    BY <2>3, AdoptsHead
  <2> QED
    BY <2>2, <2>4 DEF AdoptedBy
<1>2. CASE queue[g] # <<>> /\ Take(g)
  <2>q. /\ Len(queue'[g]) = Len(queue[g]) - 1 /\ Len(queue[g]) > 0
        /\ queue[g][1] = NextJob(g)
        /\ \A i \in 1 .. Len(queue'[g]) :
             i + 1 \in 1 .. Len(queue[g]) /\ queue'[g][i] = queue[g][i + 1]
    BY <1>2, QueueShifted
  <2>f. \A p \in Nat : FinalFrom(g, s, p + 1) => FinalFrom(g, s, p)'
    BY <1>o, <2>q DEF FinalFrom
  <2>1. ASSUME NEW p \in 1 .. Len(queue'[g]), Is(queue'[g][p], "adopt", s)
        PROVE  \/ HarmlessIn(queue'[g], job'[g], threads'[g][s], s, queue'[g][p].thread, p)
               \/ FinalFrom(g, s, p)'
    <3>0. p + 1 \in 1 .. Len(queue[g]) /\ queue'[g][p] = queue[g][p + 1]
      BY <2>q
    <3>1. Harmless(g, s, queue[g][p + 1].thread, p + 1) \/ FinalFrom(g, s, p + 1)
      BY <2>1, <3>0 DEF AdoptedAt
    <3>2. p \in Nat /\ p + 1 \in Nat /\ p + 1 > 0 /\ p + 1 > 1 /\ (p + 1) - 1 = p
      BY <1>l
    <3>3. queue[g][p + 1].thread \in ThreadIds
      BY <1>n, <2>1, <3>0
    <3>4. Harmless(g, s, queue[g][p + 1].thread, p + 1) =>
            HarmlessIn(queue'[g], job'[g], threads'[g][s], s, queue'[g][p].thread, p)
      BY <1>2, <3>0, <3>2, <3>3, HarmlessPumped
    <3> QED
      BY <2>f, <3>1, <3>2, <3>4
  <2>2. AdoptedAt(g, s)'
    BY <2>1 DEF AdoptedAt, Harmless
  <2>3. ASSUME Is(job'[g], "adopt", s)
        PROVE  threads'[g][s] \in {NoThread, job'[g].thread} \/ FinalFrom(g, s, 0)'
    <3>1. job'[g] = queue[g][1] /\ UNCHANGED threads
      BY <2>3, <2>q, AdoptsHead, DoesAdoptJobBegin
    <3>2. Harmless(g, s, queue[g][1].thread, 1) \/ FinalFrom(g, s, 0 + 1)
      BY <2>3, <2>q, <3>1 DEF AdoptedAt
    <3> QED
      BY <2>f, <3>1, <3>2 DEF Harmless, HarmlessIn
  <2> QED
    BY <2>2, <2>3 DEF AdoptedBy
<1> QED
  BY <1>1, <1>2, PumpsOwn

\* A gateway that the step leaves alone.
Beside(g) == queue'[g] = queue[g] /\ job'[g] = job[g] /\ threads'[g] = threads[g]

LEMMA AdoptedBeside ==
  ASSUME NEW g \in Gens, NEW s \in Sessions, Beside(g), Over(g, s) => Over(g, s)',
         AdoptedAt(g, s), AdoptedBy(g, s)
  PROVE  AdoptedAt(g, s)' /\ AdoptedBy(g, s)'
<1>1. \A p : FinalFrom(g, s, p) => FinalFrom(g, s, p)'
  BY DEF FinalFrom, Beside
<1>2. \A p \in 1 .. Len(queue[g]) :
        (FinalFrom(g, s, p) => FinalFrom(g, s, p)') /\ queue'[g][p] = queue[g][p]
  BY <1>1 DEF Beside
<1>3. \A t, p : Harmless(g, s, t, p) =>
        HarmlessIn(queue'[g], job'[g], threads'[g][s], s, t, p)
  BY DEF Harmless, Beside
<1> QED
  BY <1>1, <1>2, <1>3 DEF AdoptedAt, AdoptedBy, Beside, Harmless

LEMMA EndsEmpty ==
  ASSUME TypeOK, NEW g \in Gens, Crash(g)
  PROVE  /\ queue'[g] = <<>> /\ job'[g] = NoJob /\ ~Pumping(g)'
         /\ \A s \in Sessions : threads'[g][s] = NoThread
         /\ \A h \in Gens : h # g => Beside(h) /\ status'[h] = status[h]
         /\ UNCHANGED <<client, healed, gen, restarts, reg, disk, worldVars>>
  BY DEF Crash, TypeOK, PumpTypes, ServeTypes, Beside, Pumping, bookVars, clientVars

LEMMA AdoptedNext ==
  ASSUME RightOwners, Phased, Ground, [Next]_vars, AdoptInv, AdoptedInv
  PROVE  AdoptedInv'
<1> SUFFICES ASSUME NEW g \in Gens, NEW s \in Sessions
             PROVE  AdoptedAt(g, s)' /\ AdoptedBy(g, s)'
  BY DEF AdoptedInv, AdoptedAt, AdoptedBy
<1> USE DEF RightOwners, TypeOK, Ground
<1>a. AdoptedAt(g, s) /\ AdoptedBy(g, s)
  BY DEF AdoptedInv, AdoptedAt, AdoptedBy
<1>g. gen \in Gens
  BY DEF ServeTypes
<1>1. CASE Crash(g)
  <2>1. queue'[g] = <<>> /\ ~Is(job'[g], "adopt", s)
    BY <1>1, EndsEmpty, NoJobIsNone
  <2> QED
    BY <2>1 DEF AdoptedAt, AdoptedBy
<1>2. CASE ~Crash(g)
  <2>o. Over(g, s) => Over(g, s)'
    BY <1>2, OverNext
  <2>b. Beside(g) => AdoptedAt(g, s)' /\ AdoptedBy(g, s)'
    BY <1>a, <2>o, AdoptedBeside
  <2>1. CASE UNCHANGED <<queue, job, threads>>
    BY <2>1, <2>b DEF Beside
  <2>2. ASSUME NEW j \in Jobs, Sends(j) PROVE AdoptedAt(g, s)' /\ AdoptedBy(g, s)'
    <3>1. CASE g = gen
      BY <1>a, <1>2, <2>2, <3>1, AdoptedSends
    <3>2. CASE g # gen
      <4>1. Beside(g)
        BY <1>g, <2>2, <3>2, QueueGrown DEF Sends, Beside
      <4> QED
        BY <4>1, <2>b
    <3> QED
      BY <3>1, <3>2
  <2>3. ASSUME NEW h \in Gens, Pump(h) PROVE AdoptedAt(g, s)' /\ AdoptedBy(g, s)'
    <3>1. CASE h = g
      BY <1>a, <1>2, <2>3, <3>1, AdoptedPump
    <3>2. CASE h # g
      BY <2>3, <2>b, <3>2, PumpsOwn DEF Beside
    <3> QED
      BY <3>1, <3>2
  <2>4. ASSUME NEW h \in Gens, Crash(h) PROVE AdoptedAt(g, s)' /\ AdoptedBy(g, s)'
    BY <1>2, <2>4, <2>b, EndsEmpty
  <2> QED
    BY <2>1, <2>2, <2>3, <2>4, StepKinds
<1> QED
  BY <1>1, <1>2

-----------------------------------------------------------------------------
(* Threads that their gateway no longer holds.                             *)

\* A gateway that starts to work has made nothing yet.
LEMMA PumpStarts ==
  ASSUME RightOwners, Phased, [Next]_vars, NEW g \in Gens, Pumping(g)'
  PROVE  Pumping(g) \/ g > gen
<1> USE DEF RightOwners, TypeOK
<1>g. gen \in Gens /\ gen \in Nat /\ gen + 1 > gen
  BY DEF ServeTypes, Gens
<1>s. UNCHANGED status => Pumping(g)
  BY DEF Pumping
<1>1. ASSUME ClientStep \/ SuspectStep \/ SweepStep \/ AcceptStep PROVE UNCHANGED status
  BY <1>1 DEF ClientStep, SendRegister, SendRelease, Die, SuspectStep, Suspect, HearFrom,
     SweepStep, SweepCollect, SweepNext, AcceptStep, BeginRegister, Claim, Upsert, OpenThread,
     Release, RefuseRelease, serveVars
<1>2. ASSUME AdoptStep \/ StandDown \/ Restart PROVE Pumping(g)
  BY <1>2, <1>g DEF AdoptStep, AdoptBegin, AdoptNext, StandDown, Restart, ServeTypes, Pumping
<1>3. ASSUME Elect PROVE Pumping(g) \/ g > gen
  <2>1. status' = [status EXCEPT ![gen + 1] = "started"]
    BY <1>3 DEF Elect
  <2> QED
    BY <1>g, <2>1 DEF ServeTypes, Pumping
<1>4. ASSUME NEW h \in Gens, Crash(h) PROVE Pumping(g)
  BY <1>4 DEF Crash, ServeTypes, Pumping
<1>5. ASSUME NEW h \in Gens, Pump(h) PROVE UNCHANGED status
  BY <1>5, PumpsOwn
<1>6. CASE UNCHANGED vars
  BY <1>6, <1>s DEF vars, serveVars
<1> QED
  BY <1>s, <1>1, <1>2, <1>3, <1>4, <1>5, <1>6 DEF Next, BrokerStep

LEMMA MadeByOwn ==
  ASSUME TypeOK, NEW g \in Gens, NEW h \in Gens, Pump(h), ~(h = g /\ Created(g)),
         NEW s \in Sessions, NEW t \in ThreadIds, Mine(g, s, t)'
  PROVE  Mine(g, s, t)
<1>1. CASE Created(h)
  <2>0. PICK u \in ThreadIds : Makes(h, u)
    BY <1>1, DoesCreated
  <2>1. \A v \in ThreadIds :
          /\ owner'[v] = IF v = u THEN job[h].session ELSE owner[v]
          /\ maker'[v] = IF v = u THEN h ELSE maker[v]
    BY <2>0 DEF Makes
  <2>2. UNCHANGED archived
    BY <1>1, DoesCreated
  <2> QED
    BY <1>1, <2>1, <2>2 DEF Mine
<1>2. CASE ~Created(h)
  <2>1. UNCHANGED <<owner, maker>> /\ archived \subseteq archived'
    BY <1>2 DEF Pump, OpenExisting, OpenBegin, CreateFails, Opened, AdoptJobBegin,
       Adopted, ArchiveJobBegin, Archived, worldVars
  <2> QED
    BY <2>1 DEF Mine
<1> QED
  BY <1>1, <1>2

AstrayFor(g, s, t) == Astray(g, s, t) => FinalFrom(g, s, 0) /\ ~Making(g, s)

LEMMA AstrayBeside ==
  ASSUME RightOwners, Phased, MakerInv, [Next]_vars, NEW g \in Gens, NEW s \in Sessions,
         NEW t \in ThreadIds, Beside(g), Over(g, s) => Over(g, s)',
         Mine(g, s, t)' => Mine(g, s, t), AstrayFor(g, s, t)
  PROVE  AstrayFor(g, s, t)'
<1> SUFFICES ASSUME Astray(g, s, t)' PROVE FinalFrom(g, s, 0)' /\ ~Making(g, s)'
  BY DEF AstrayFor
<1>1. Mine(g, s, t) /\ threads[g][s] # t /\ ~(job[g].kind = "archive" /\ job[g].thread = t)
  BY DEF Astray, Beside
<1>2. Pumping(g)
  <2>1. maker[t] = g /\ gen \in Nat /\ g \in Nat /\ maker[t] <= gen
    BY <1>1 DEF Mine, MakerInv, RightOwners, TypeOK, ServeTypes, Gens
  <2> QED
    BY <2>1, PumpStarts DEF Astray
<1>3. FinalFrom(g, s, 0) /\ ~Making(g, s)
  BY <1>1, <1>2 DEF AstrayFor, Astray
<1> QED
  BY <1>3 DEF FinalFrom, Making, Beside

LEMMA FinalTaken ==
  ASSUME PumpTypes, NEW g \in Gens, NEW s \in Sessions, Over(g, s)',
         queue'[g] = queue[g] \/ (queue[g] # <<>> /\ Take(g)), FinalFrom(g, s, 0)
  PROVE  /\ FinalFrom(g, s, 0)'
         /\ queue[g] # <<>> => ~Is(NextJob(g), "open", s)
<1>1. ASSUME queue[g] # <<>> PROVE ~Is(NextJob(g), "open", s)
  BY <1>1, HeadListed DEF FinalFrom
<1>2. CASE queue'[g] = queue[g]
  BY <1>1, <1>2 DEF FinalFrom
<1>3. CASE queue[g] # <<>> /\ Take(g)
  BY <1>1, <1>3, QueueShifted DEF FinalFrom
<1> QED
  BY <1>1, <1>2, <1>3

LEMMA AstrayPump ==
  ASSUME RightOwners, Phased, Ground, [Next]_vars, ArchiveOutcomes \subseteq {TRUE},
         NEW g \in Gens, Pump(g), ~Crash(g), NEW s \in Sessions, NEW t \in ThreadIds,
         AdoptedBy(g, s), AstrayFor(g, s, t), Astray(g, s, t)'
  PROVE  FinalFrom(g, s, 0)' /\ ~Making(g, s)'
<1> USE DEF RightOwners, TypeOK, Ground
<1>p. /\ Pumping(g) /\ Len(queue[g]) \in Nat
      /\ queue'[g] = queue[g] \/ (queue[g] # <<>> /\ Take(g))
  BY PumpsOwn, QueueLen
<1>f. FinalFrom(g, s, 0) =>
        FinalFrom(g, s, 0)' /\ (queue[g] # <<>> => ~Is(NextJob(g), "open", s))
  <2>1. FinalFrom(g, s, 0) => Over(g, s)'
    BY OverNext DEF FinalFrom
  <2> QED
    BY <1>p, <2>1, FinalTaken
<1>a. /\ Mine(g, s, t)' /\ threads'[g][s] # t
      /\ ~(job'[g].kind = "archive" /\ job'[g].thread = t)
  BY DEF Astray
<1>m. ~Created(g) => Mine(g, s, t)
  BY <1>a, MadeByOwn
<1>b. ASSUME Mine(g, s, t), threads[g][s] # t, ~(job[g].kind = "archive" /\ job[g].thread = t)
      PROVE  /\ FinalFrom(g, s, 0)' /\ ~Making(g, s)
             /\ queue[g] # <<>> => ~Is(NextJob(g), "open", s)
  BY <1>b, <1>f, <1>p DEF AstrayFor, Astray
<1>t. t # NoThread
  BY NoThreadIsNoId
<1>n. NoJob.kind = "none" /\ ~NewOpen(NoJob, s)
  BY DEF NoJob, NewOpen, Is
<1>1. CASE OpenExisting(g)
  <2>1. UNCHANGED <<job, threads>> /\ ~Created(g)
    BY <1>1, <1>n, DoesOpenExisting, DoesCreated
  <2> QED
    BY <1>a, <1>b, <1>m, <2>1 DEF Making
<1>2. CASE OpenBegin(g)
  <2>1. /\ UNCHANGED threads /\ job[g] = NoJob /\ job'[g] = NextJob(g) /\ ~Created(g)
        /\ queue[g] # <<>> /\ NextJob(g).kind = "open"
    BY <1>2, <1>n, DoesOpenBegin, DoesCreated
  <2>2. ~Is(NextJob(g), "open", s) /\ FinalFrom(g, s, 0)'
    BY <1>a, <1>b, <1>m, <1>n, <2>1
  <2> QED
    BY <2>1, <2>2 DEF Making, NewOpen
<1>3. CASE Created(g)
  <2>0. PICK u \in ThreadIds : Makes(g, u)
    BY <1>3, DoesCreated
  <2>1. /\ owner'[t] = IF t = u THEN job[g].session ELSE owner[t]
        /\ maker'[t] = IF t = u THEN g ELSE maker[t]
        /\ threads'[g][s] = IF s = job[g].session THEN u ELSE threads[g][s]
        /\ job'[g] = [job[g] EXCEPT !.thread = u]
    BY <2>0 DEF Makes
  <2>2. /\ job[g].kind = "open" /\ job[g].thread = NoThread /\ UNCHANGED archived
        /\ job[g] \in Jobs
    BY <1>3, DoesCreated, TypedJob
  <2>3. t # u
    BY <1>a, <2>1 DEF Mine
  <2>4. Mine(g, s, t)
    BY <1>a, <2>1, <2>2, <2>3 DEF Mine
  <2>5. s # job[g].session
    <3> SUFFICES ASSUME s = job[g].session PROVE FALSE
      OBVIOUS
    <3>1. Is(job[g], "open", s)
      BY <2>2 DEF Is
    <3>2. threads[g][s] = NoThread
      BY <2>2, <3>1 DEF JobInv
    <3>3. ~Making(g, s)
      BY <1>b, <1>t, <2>2, <2>4, <3>2
    <3> QED
      BY <2>2, <3>1, <3>3 DEF Making, NewOpen
  <2>6. FinalFrom(g, s, 0)'
    BY <1>a, <1>b, <2>1, <2>2, <2>4, <2>5
  <2>7. job'[g].session = job[g].session
    BY <2>1, <2>2 DEF Jobs
  <2> QED
    BY <2>5, <2>6, <2>7 DEF Making, NewOpen, Is
<1>4. CASE CreateFails(g) \/ Opened(g)
  <2>1. UNCHANGED threads /\ job'[g] = NoJob /\ job[g].kind = "open"
    BY <1>4, DoesCreateFails, DoesOpened DEF CreateFails
  <2>2. Mine(g, s, t)
    <3>1. UNCHANGED worldVars
      BY <1>4 DEF CreateFails, Opened
    <3> QED
      BY <1>a, <3>1 DEF Mine, worldVars
  <2> QED
    BY <1>a, <1>b, <1>n, <2>1, <2>2 DEF Making
<1>5. CASE AdoptJobBegin(g)
  <2>1. /\ UNCHANGED threads /\ job[g] = NoJob /\ job'[g] = NextJob(g) /\ ~Created(g)
        /\ NextJob(g).kind = "adopt"
    BY <1>5, <1>n, DoesAdoptJobBegin, DoesCreated
  <2> QED
    BY <1>a, <1>b, <1>m, <1>n, <2>1 DEF Making, NewOpen, Is
<1>6. CASE Adopted(g)
  <2>1. /\ job'[g] = NoJob /\ job[g].kind = "adopt" /\ ~Created(g)
        /\ \/ threads' = threads
           \/ threads'[g][s] = IF s = job[g].session THEN job[g].thread ELSE threads[g][s]
    BY <1>6, DoesAdopted, DoesCreated
  <2>2. CASE threads[g][s] # t
    BY <1>b, <1>m, <1>n, <2>1, <2>2 DEF Making
  <2>3. CASE threads[g][s] = t
    <3>1. s = job[g].session /\ job[g].thread # t
      BY <1>a, <2>1, <2>3
    <3>2. FinalFrom(g, s, 0)
      BY <1>t, <2>1, <2>3, <3>1 DEF AdoptedBy, Is
    <3> QED
      BY <1>f, <1>n, <2>1, <3>2 DEF Making
  <2> QED
    BY <2>2, <2>3
<1>7. CASE ArchiveJobBegin(g)
  <2> DEFINE e == NextJob(g).session
  <2>1. /\ job[g] = NoJob /\ ~Created(g)
        /\ threads'[g][s] = IF s = e THEN NoThread ELSE threads[g][s]
        /\ IF threads[g][e] = NoThread
           THEN job'[g] = NoJob
           ELSE Is(job'[g], "archive", e) /\ job'[g].thread = threads[g][e]
    BY <1>7, <1>n, DoesArchiveJobBegin, DoesCreated
  <2>2. threads[g][s] # t
    BY <1>a, <1>t, <2>1 DEF Is
  <2> QED
    BY <1>b, <1>m, <1>n, <2>1, <2>2 DEF Making, NewOpen, Is
<1>8. CASE Archived(g)
  <2>1. /\ UNCHANGED <<threads, owner, maker>> /\ job'[g] = NoJob
        /\ job[g].kind = "archive" /\ archived' = archived \cup {job[g].thread}
    BY <1>8, DoesArchived
  <2>2. Mine(g, s, t) /\ job[g].thread # t
    BY <1>a, <2>1 DEF Mine
  <2> QED
    BY <1>a, <1>b, <1>n, <2>1, <2>2 DEF Making
<1> QED
  BY <1>1, <1>2, <1>3, <1>4, <1>5, <1>6, <1>7, <1>8 DEF Pump

LEMMA AstrayNext ==
  ASSUME RightOwners, Phased, Ground, [Next]_vars, AdoptedInv, AstrayInv,
         ArchiveOutcomes \subseteq {TRUE}
  PROVE  AstrayInv'
<1> SUFFICES ASSUME NEW g \in Gens, NEW s \in Sessions, NEW t \in ThreadIds
             PROVE  AstrayFor(g, s, t)'
  BY DEF AstrayInv, AstrayFor
<1> USE DEF RightOwners, TypeOK, Ground
<1>a. AstrayFor(g, s, t) /\ AdoptedBy(g, s)
  BY DEF AstrayInv, AdoptedInv, AstrayFor, AdoptedBy
<1>g. gen \in Gens
  BY DEF ServeTypes
<1>1. CASE Crash(g)
  BY <1>1, EndsEmpty DEF AstrayFor, Astray
<1>2. CASE ~Crash(g)
  <2>o. Over(g, s) => Over(g, s)'
    BY <1>2, OverNext
  <2>w. UNCHANGED worldVars => (Mine(g, s, t)' => Mine(g, s, t))
    BY DEF worldVars, Mine
  <2>b. Beside(g) /\ (Mine(g, s, t)' => Mine(g, s, t)) => AstrayFor(g, s, t)'
    BY <1>a, <2>o, AstrayBeside
  <2>1. CASE UNCHANGED <<queue, job, threads, worldVars>>
    BY <2>1, <2>b, <2>w DEF Beside
  <2>2. ASSUME NEW j \in Jobs, Sends(j) PROVE AstrayFor(g, s, t)'
    <3>0. UNCHANGED worldVars /\ UNCHANGED <<job, threads, status>>
      BY <2>2 DEF Sends
    <3>1. CASE g = gen
      <4>1. Astray(g, s, t)' => Astray(g, s, t)
        BY <2>w, <3>0 DEF Astray, Pumping
      <4>2. FinalFrom(g, s, 0) => FinalFrom(g, s, 0)'
        BY <1>2, <2>2, <3>1, FinalBehind
      <4> QED
        BY <1>a, <3>0, <4>1, <4>2 DEF AstrayFor, Making
    <3>2. CASE g # gen
      <4>1. Beside(g)
        BY <1>g, <2>2, <3>2, QueueGrown DEF Sends, Beside
      <4> QED
        BY <2>b, <2>w, <3>0, <4>1
    <3> QED
      BY <3>1, <3>2
  <2>3. ASSUME NEW h \in Gens, Pump(h) PROVE AstrayFor(g, s, t)'
    <3>1. CASE h = g
      BY <1>a, <1>2, <2>3, <3>1, AstrayPump DEF AstrayFor
    <3>2. CASE h # g
      <4>1. Mine(g, s, t)' => Mine(g, s, t)
        BY <2>3, <3>2, MadeByOwn
      <4> QED
        BY <2>3, <2>b, <3>2, <4>1, PumpsOwn DEF Beside
    <3> QED
      BY <3>1, <3>2
  <2>4. ASSUME NEW h \in Gens, Crash(h) PROVE AstrayFor(g, s, t)'
    BY <1>2, <2>4, <2>b, <2>w, EndsEmpty
  <2> QED
    BY <2>1, <2>2, <2>3, <2>4, StepKinds
<1> QED
  BY <1>1, <1>2

-----------------------------------------------------------------------------
(* So a gateway opens no second thread.                                    *)

OneOpen == \A g \in Gens, s \in Sessions : \A t, u \in ThreadIds :
  Mine(g, s, t) /\ Mine(g, s, u) => t = u

LEMMA OneOpenNext ==
  ASSUME RightOwners, Phased, Ground, [Next]_vars, AstrayInv, OneOpen
  PROVE  OneOpen'
<1> SUFFICES ASSUME NEW g \in Gens, NEW s \in Sessions, NEW t \in ThreadIds, NEW u \in ThreadIds,
                    Mine(g, s, t)', Mine(g, s, u)'
             PROVE  t = u
  BY DEF OneOpen
<1> USE DEF RightOwners, TypeOK, Ground
<1>1. CASE Created(g)
  <2>0. PICK v \in ThreadIds : Makes(g, v)
    BY <1>1, DoesCreated
  <2>1. /\ owner[v] = NoSession
        /\ \A n \in ThreadIds :
             /\ owner'[n] = IF n = v THEN job[g].session ELSE owner[n]
             /\ maker'[n] = IF n = v THEN g ELSE maker[n]
    BY <2>0 DEF Makes
  <2>2. /\ job[g].kind = "open" /\ job[g].thread = NoThread /\ UNCHANGED archived
        /\ job[g].session \in Sessions
    BY <1>1, DoesCreated
  <2>3. ASSUME NEW n \in ThreadIds, n # v, Mine(g, s, n)' PROVE Mine(g, s, n)
    BY <2>1, <2>2, <2>3 DEF Mine
  <2>4. ASSUME NEW n \in ThreadIds, n # v, Mine(g, s, n) PROVE s # job[g].session
    <3> SUFFICES ASSUME s = job[g].session PROVE FALSE
      OBVIOUS
    <3>1. Is(job[g], "open", s)
      BY <2>2 DEF Is
    <3>2. threads[g][s] = NoThread /\ NoThread # n
      BY <2>2, <3>1, NoThreadIsNoId DEF JobInv
    <3>3. Pumping(g)
      BY <1>1 DEF Created
    <3>4. ~Making(g, s)
      BY <2>2, <2>4, <3>2, <3>3 DEF AstrayInv, Astray
    <3> QED
      BY <2>2, <3>1, <3>4 DEF Making, NewOpen
  <2>5. ASSUME Mine(g, s, v)' PROVE s = job[g].session
    BY <2>1, <2>5 DEF Mine
  <2> QED
    BY <2>3, <2>4, <2>5 DEF OneOpen
<1>2. CASE ~Created(g)
  <2>1. UNCHANGED worldVars => (\A n : Mine(g, s, n)' => Mine(g, s, n))
    BY DEF worldVars, Mine
  <2>2. ASSUME NEW h \in Gens, Pump(h)
        PROVE  Mine(g, s, t) /\ Mine(g, s, u)
    BY <1>2, <2>2, MadeByOwn
  <2>3. \A j : Sends(j) => UNCHANGED worldVars
    BY DEF Sends
  <2> QED
    BY <2>1, <2>2, <2>3, StepKinds, EndsEmpty DEF OneOpen
<1> QED
  BY <1>1, <1>2

LEMMA OneThreadIsOneOpen ==
  OneThreadPerGateway <=> (restarts = 0 \/ gen = 1 => OneOpen)
<1>1. \A g \in Gens, s \in Sessions :
        OpenThreads(s, g) = {t \in ThreadIds : Mine(g, s, t)}
  BY DEF OpenThreads, Mine
<1> QED
  BY <1>1 DEF OneThreadPerGateway, OneOpen

-----------------------------------------------------------------------------
(* What an archive on its way says of its session.                         *)

Early == status[gen] \in {"started", "adopting"}
ForgetFor(s) ==
  /\ Has(queue[gen], "archive", s) => Forgotten(s)
  /\ OpensLate(queue[gen], s) => Past(s)
  /\ Early => /\ Has(queue[gen], "archive", s) => OneMore(s)
              /\ OpensLate(queue[gen], s) => NoMore(s)

\* Only a broker that begins to serve is early, or has another register.
LEMMA BrokerStays ==
  ASSUME RightOwners, [Next]_vars, ~Elect, ~Restart
  PROVE  /\ gen' = gen /\ (Early' => Early)
         /\ \A s \in Sessions : reg'[gen][s] # NoRecord =>
              reg[gen][s] # NoRecord \/ (Upsert /\ s = handler.session)
<1> USE DEF RightOwners, TypeOK
<1>g. gen \in Gens
  BY DEF ServeTypes
<1>s. UNCHANGED <<gen, status>> => (Early' => Early)
  BY DEF Early
<1>1. ASSUME ClientStep \/ SuspectStep \/ SweepCollect \/ BeginRegister \/ Claim \/ OpenThread
               \/ RefuseRelease
      PROVE  UNCHANGED <<gen, status, reg>>
  BY <1>1 DEF ClientStep, SendRegister, SendRelease, Die, SuspectStep, Suspect, HearFrom,
     SweepCollect, BeginRegister, Claim, OpenThread, RefuseRelease, serveVars, bookVars
<1>2. ASSUME Upsert
      PROVE  UNCHANGED <<gen, status>> /\ \A s \in Sessions :
               s # handler.session => reg'[gen][s] = reg[gen][s]
  BY <1>2, <1>g DEF Upsert, SaveRecord, BookTypes
<1>3. ASSUME NEW s \in Sessions, Forget(s)
      PROVE  \A u \in Sessions : reg'[gen][u] # NoRecord => reg[gen][u] # NoRecord
  BY <1>3, ForgetSchedules
<1>4. ASSUME Release
      PROVE  /\ UNCHANGED <<gen, status>>
             /\ \A u \in Sessions : reg'[gen][u] # NoRecord => reg[gen][u] # NoRecord
  <2>1. Head(wire).session \in Sessions
    BY <1>4, WireType DEF Release
  <2> QED
    BY <1>3, <1>4, <2>1 DEF Release
<1>5. ASSUME NEW s \in Sessions, SweepNext(s)
      PROVE  /\ UNCHANGED <<gen, status>>
             /\ \A u \in Sessions : reg'[gen][u] # NoRecord => reg[gen][u] # NoRecord
  BY <1>3, <1>5 DEF SweepNext, serveVars
<1>6. ASSUME AdoptStep PROVE UNCHANGED <<gen, reg>> /\ (Early' => Early)
  BY <1>6, <1>g DEF AdoptStep, AdoptBegin, AdoptNext, Early, bookVars
<1>7. ASSUME StandDown PROVE UNCHANGED <<gen, reg>> /\ ~Early'
  BY <1>7, <1>g DEF StandDown, Early, ServeTypes, bookVars
<1>8. ASSUME NEW g \in Gens, Crash(g) PROVE UNCHANGED <<gen, reg>> /\ (Early' => Early)
  BY <1>8, <1>g DEF Crash, Early, ServeTypes, bookVars
<1>9. ASSUME NEW g \in Gens, Pump(g)
      PROVE  /\ UNCHANGED <<gen, status>>
             /\ \A s \in Sessions : reg'[gen][s] # NoRecord => reg[gen][s] # NoRecord
  <2>0. UNCHANGED <<gen, status>>
    BY <1>9, PumpsOwn
  <2>1. CASE g # gen
    BY <1>9, <1>g, <2>0, <2>1, PumpsOwn
  <2>2. CASE g = gen
    <3>1. UNCHANGED reg \/ OpenExisting(g) \/ Opened(g)
      BY <1>9 DEF Pump, OpenBegin, Created, CreateFails, AdoptJobBegin, Adopted,
         ArchiveJobBegin, Archived, bookVars
    <3>2. \A s \in Sessions : reg'[gen][s] # NoRecord => reg[gen][s] # NoRecord
      BY <2>2, <3>1, DoesOpenExisting, DoesOpened
    <3> QED
      BY <2>0, <3>2
  <2> QED
    BY <2>1, <2>2
<1>10. CASE UNCHANGED vars
  BY <1>10, <1>s DEF vars, serveVars, bookVars
<1> QED
  BY <1>s, <1>1, <1>2, <1>4, <1>5, <1>6, <1>7, <1>8, <1>9, <1>10
     DEF Next, SweepStep, AcceptStep, BrokerStep

LEMMA ForgottenStays ==
  ASSUME RightOwners, WireInv, [Next]_vars, ~Elect, ~Restart, NEW s \in Sessions, Forgotten(s)
  PROVE  Forgotten(s)'
<1>1. client'[s] # "live"
  BY OnwardNext DEF Forgotten, RightOwners, Onward
<1>2. CASE Past(s)
  BY <1>1, <1>2, WireNext DEF Forgotten, Fates
<1>3. CASE Quiet(s) /\ reg[gen][s] = NoRecord
  <2>1. OneMore(s)
    BY <1>3 DEF OneMore, Forgotten
  <2>2. s \in healed' \/ Quiet(s)'
    BY <2>1, WireNext DEF Fates, OneMore
  <2>3. reg'[gen'][s] = NoRecord
    BY <1>3, BrokerStays DEF Quiet
  <2> QED
    BY <1>1, <2>2, <2>3 DEF Forgotten, Past
<1> QED
  BY <1>2, <1>3 DEF Forgotten

LEMMA ForgetLess ==
  ASSUME RightOwners, WireInv, [Next]_vars, ~Elect, ~Restart, NEW s \in Sessions, ForgetFor(s),
         Has(queue'[gen], "archive", s) => Has(queue[gen], "archive", s),
         OpensLate(queue'[gen], s) => OpensLate(queue[gen], s)
  PROVE  ForgetFor(s)'
<1>1. gen' = gen /\ (Early' => Early)
  BY BrokerStays
<1>2. Fates(s) /\ (Forgotten(s) => Forgotten(s)')
  BY WireNext, ForgottenStays
<1> QED
  BY <1>1, <1>2 DEF ForgetFor, Fates

\* The archive that a release or the sweep schedules.
LEMMA ForgetSends ==
  ASSUME RightOwners, WireInv, SweepInv, [Next]_vars, NEW j \in Jobs, Sends(j),
         NEW s \in Sessions, Is(j, "archive", s)
  PROVE  Forgotten(s)' /\ (Early' => OneMore(s)')
<1> USE DEF RightOwners, TypeOK
<1>1. client[s] # "live" /\ UNCHANGED <<client, healed, gen, status>>
  BY DEF Sends, Is
<1>2. CASE Release /\ j.session = Head(wire).session
  <2>1. /\ wire # <<>> /\ Head(wire).kind = "release" /\ Forget(s) /\ wire' = Tail(wire)
        /\ handler = IdleLoop /\ handler' = IdleLoop /\ Head(wire).session = s
    BY <1>2 DEF Release, Is
  <2>2. Head(wire) = Frame("release", s)
    BY <2>1, WireShifted, FrameIs
  <2>3. reg'[gen][s] = NoRecord
    BY <2>1, ForgetSchedules
  <2>4. s \in healed \/ Quiet(s)'
    BY <2>1, <2>2, TailLess DEF Quiet, IdleLoop, SessionsAssumption
  <2> QED
    BY <1>1, <2>3, <2>4 DEF Forgotten, OneMore, Past
<1>3. CASE SweepNext(s)
  <2>1. client[s] = "dead" /\ status[gen] = "serving"
    BY <1>3 DEF SweepNext, SweepInv
  <2> QED
    BY <1>1, <2>1 DEF Forgotten, Past, Early
<1> QED
  BY <1>2, <1>3 DEF Sends, Is

LEMMA ForgetForSends ==
  ASSUME RightOwners, WireInv, SweepInv, [Next]_vars, ~Elect, ~Restart,
         NEW j \in Jobs, Sends(j), NEW s \in Sessions, ForgetFor(s)
  PROVE  ForgetFor(s)'
<1> USE DEF RightOwners, TypeOK
<1>g. gen \in Gens /\ gen' = gen /\ (Early' => Early) /\ UNCHANGED <<client, healed>>
  BY BrokerStays DEF ServeTypes, Sends
<1>1. Has(queue'[gen], "archive", s) => Has(queue[gen], "archive", s) \/ Is(j, "archive", s)
  BY <1>g, HasGrown DEF Sends
<1>2. Has(queue'[gen], "archive", s) => Forgotten(s)' /\ (Early' => OneMore(s)')
  <2>1. Has(queue[gen], "archive", s) => Forgotten(s)' /\ (Early' => OneMore(s)')
    BY <1>g, ForgottenStays, WireNext DEF ForgetFor, Fates
  <2> QED
    BY <1>1, <2>1, ForgetSends
<1>3. OpensLate(queue'[gen], s) =>
        OpensLate(queue[gen], s) \/ (Has(queue[gen], "archive", s) /\ Is(j, "open", s))
  BY <1>g, LateGrown DEF Sends
<1>4. ASSUME Has(queue[gen], "archive", s), Is(j, "open", s)
      PROVE  Past(s)' /\ (Early' => NoMore(s)')
  <2>1. handler.session = s /\ OpenThread
    BY <1>4 DEF Sends, Is
  <2>2. Past(s)
    BY <1>4, <2>1 DEF ForgetFor, Forgotten, Quiet
  <2>3. Past(s)' /\ client'[s] # "live"
    BY <1>4, <1>g, <2>2, WireNext DEF Fates, ForgetFor, Forgotten
  <2>4. ASSUME Early' PROVE NoMore(s)'
    <3>1. s \in healed
      BY <1>4, <1>g, <2>1, <2>4 DEF ForgetFor, OneMore, Quiet
    <3>2. ~RegisterOnWire(s)
      BY <2>1, <3>1 DEF WireInv
    <3>3. Quiet(s)'
      BY <2>1, <3>2 DEF OpenThread, Quiet, RegisterOnWire, IdleLoop, SessionsAssumption
    <3> QED
      BY <2>3, <3>3 DEF NoMore
  <2> QED
    BY <2>3, <2>4
<1>5. OpensLate(queue[gen], s) => Past(s)' /\ (Early' => NoMore(s)')
  BY <1>g, WireNext DEF ForgetFor, Fates
<1> QED
  BY <1>g, <1>2, <1>3, <1>4, <1>5 DEF ForgetFor

LEMMA ForgetRestart ==
  ASSUME RightOwners, WireInv, DiskInv, [Next]_vars, Restart, gen = 1, NEW s \in Sessions,
         ForgetFor(s)
  PROVE  ForgetFor(s)'
<1> USE DEF RightOwners, TypeOK
<1>1. /\ UNCHANGED <<gen, queue, client, healed>> /\ wire' = <<>> /\ handler' = IdleLoop
      /\ reg'[gen] = disk
  BY DEF Restart, ServeTypes, BookTypes, clientVars, pumpVars
<1>2. Quiet(s)' /\ reg'[gen][s] = reg[gen][s]
  BY <1>1 DEF Quiet, RegisterOnWire, IdleLoop, SessionsAssumption, DiskInv
<1>3. Forgotten(s) => Forgotten(s)' /\ OneMore(s)'
  BY <1>1, <1>2 DEF Forgotten, Past, OneMore, Quiet
<1>4. Past(s) => Past(s)'
  BY <1>1 DEF Past
<1>5. OpensLate(queue[gen], s) => Has(queue[gen], "archive", s)
  BY DEF OpensLate, Has
<1>6. client'[s] # "live" /\ Past(s)' => NoMore(s)'
  BY <1>2 DEF NoMore
<1> QED
  BY <1>1, <1>3, <1>4, <1>5, <1>6 DEF ForgetFor, Forgotten

LEMMA ForgetNext ==
  ASSUME RightOwners, Phased, Ground, [Next]_vars, restarts' = 0 \/ gen' = 1, ForgetInv
  PROVE  ForgetInv'
<1> SUFFICES ASSUME NEW s \in Sessions PROVE ForgetFor(s)'
  BY DEF ForgetInv, ForgetFor, Early
<1> USE DEF RightOwners, TypeOK, Ground
<1>a. ForgetFor(s)
  BY DEF ForgetInv, ForgetFor, Early
<1>g. gen \in Gens /\ gen \in Nat /\ gen + 1 > gen
  BY DEF ServeTypes, Gens
<1>e. \A q : q = <<>> => ~Has(q, "archive", s) /\ ~OpensLate(q, s)
  BY DEF Has, OpensLate
<1>1. CASE Elect
  <2>1. gen' = gen + 1 /\ gen' \in Gens /\ queue' = queue
    BY <1>1, <1>g DEF Elect, pumpVars, Gens
  <2>2. queue'[gen'] = <<>>
    BY <1>g, <2>1 DEF Phased, Untouched
  <2> QED
    BY <1>e, <2>2 DEF ForgetFor
<1>2. CASE Restart
  <2>1. gen = 1
    BY <1>2 DEF Restart, ServeTypes
  <2> QED
    BY <1>a, <1>2, <2>1, ForgetRestart
<1>3. CASE ~Elect /\ ~Restart
  <2>l. ASSUME /\ Has(queue'[gen], "archive", s) => Has(queue[gen], "archive", s)
               /\ OpensLate(queue'[gen], s) => OpensLate(queue[gen], s)
        PROVE  ForgetFor(s)'
    BY <1>a, <1>3, <2>l, ForgetLess
  <2>1. CASE UNCHANGED queue
    BY <2>1, <2>l
  <2>2. ASSUME NEW j \in Jobs, Sends(j) PROVE ForgetFor(s)'
    BY <1>a, <1>3, <2>2, ForgetForSends
  <2>3. ASSUME NEW h \in Gens, Pump(h) PROVE ForgetFor(s)'
    <3>1. queue'[gen] = queue[gen] \/ (queue[gen] # <<>> /\ Take(gen))
      BY <1>g, <2>3, PumpsOwn
    <3> QED
      BY <1>g, <2>l, <3>1, HasShifted, LateShifted
  <2>4. ASSUME NEW h \in Gens, Crash(h) PROVE ForgetFor(s)'
    BY <1>e, <1>g, <2>4, <2>l, EndsEmpty DEF Beside
  <2> QED
    BY <2>1, <2>2, <2>3, <2>4, StepKinds
<1> QED
  BY <1>1, <1>2, <1>3

-----------------------------------------------------------------------------
(* What the first broker's register names, its gateway holds.              *)

LEMMA ServedOn ==
  ASSUME RightOwners, Phased, [Next]_vars, gen' = 1, Serving'
  PROVE  gen = 1 /\ Serving
<1> USE DEF RightOwners, TypeOK
<1>g. gen \in Gens /\ gen \in Nat /\ gen >= 1
  BY DEF ServeTypes, Gens
<1>1. ~Elect
  BY <1>g DEF Elect
<1>2. CASE Restart
  BY <1>2 DEF Restart, Serving
<1>3. CASE ~Restart
  <2>1. gen = 1 /\ gen' = gen
    BY <1>1, <1>3, BrokerStays
  <2>2. CASE UNCHANGED status
    BY <2>1, <2>2 DEF Serving
  <2>3. CASE AdoptStep
    BY <2>1, <2>3 DEF AdoptStep, AdoptBegin, AdoptNext, Serving
  <2>4. CASE StandDown
    BY <2>4 DEF StandDown, Serving
  <2>5. ASSUME NEW g \in Gens, Crash(g) PROVE Serving
    BY <1>g, <2>1, <2>5 DEF Crash, Serving, ServeTypes
  <2>6. ASSUME ClientStep \/ SuspectStep \/ SweepStep \/ AcceptStep PROVE UNCHANGED status
    BY <2>6 DEF ClientStep, SendRegister, SendRelease, Die, SuspectStep, Suspect, HearFrom,
       SweepStep, SweepCollect, SweepNext, AcceptStep, BeginRegister, Claim, Upsert, OpenThread,
       Release, RefuseRelease, serveVars
  <2>7. ASSUME NEW g \in Gens, Pump(g) PROVE UNCHANGED status
    BY <2>7, PumpsOwn
  <2>8. UNCHANGED vars => UNCHANGED status
    BY DEF vars, serveVars
  <2> QED
    BY <1>1, <1>3, <2>1, <2>2, <2>3, <2>4, <2>5, <2>6, <2>7, <2>8 DEF Next, BrokerStep
<1> QED
  BY <1>1, <1>2, <1>3

\* A step of the gateway leaves it with what the register names.
LEMMA PumpRecords ==
  ASSUME RightOwners, Phased, Ground, Pump(gen), Serving, ForgetInv, AdoptedInv,
         NEW s \in Sessions, NEW t \in ThreadIds,
         Reads(s, t) => Holds(s, t), ~Past(s), Reads(s, t)'
  PROVE  Holds(s, t)'
<1> USE DEF RightOwners, TypeOK, Ground
<1>g. gen \in Gens
  BY DEF ServeTypes
<1>p. /\ UNCHANGED <<handler, gen, status>>
      /\ queue'[gen] = queue[gen] \/ (queue[gen] # <<>> /\ Take(gen))
  BY <1>g, PumpsOwn
<1>h. Has(queue'[gen], "archive", s) => Has(queue[gen], "archive", s)
  BY <1>g, <1>p, HasShifted
<1>t. t # NoThread /\ t # NoRecord
  BY NoThreadIsNoId
<1>k. ASSUME reg'[gen][s] = reg[gen][s], threads'[gen][s] = threads[gen][s] PROVE Holds(s, t)'
  BY <1>h, <1>k, <1>p DEF Reads, Holds
<1>r. ASSUME threads'[gen][s] = t, threads[gen][s] = t, reg[gen][s] # NoRecord PROVE Holds(s, t)'
  <2>1. Has(queue[gen], "archive", s) => Forgotten(s)
    BY DEF ForgetInv
  <2>2. ~Has(queue[gen], "archive", s)
    BY <1>r, <2>1 DEF Forgotten
  <2> QED
    BY <1>h, <1>p, <1>r, <2>2 DEF Holds
<1>1. CASE OpenExisting(gen)
  <2> DEFINE e == NextJob(gen).session
  <2>1. /\ UNCHANGED threads
        /\ reg'[gen][s] = IF s = e /\ reg[gen][s] # NoRecord THEN threads[gen][e] ELSE reg[gen][s]
    BY <1>1, <1>g, DoesOpenExisting
  <2>2. CASE s = e /\ reg[gen][s] # NoRecord
    <3>1. reg'[gen][s] = threads[gen][s]
      BY <2>1, <2>2
    <3>2. threads[gen][s] = t
      BY <1>p, <1>t, <3>1 DEF Reads, Holds
    <3> QED
      BY <1>r, <2>1, <2>2, <3>2
  <2>3. CASE ~(s = e /\ reg[gen][s] # NoRecord)
    BY <1>k, <2>1, <2>3
  <2> QED
    BY <2>2, <2>3
<1>2. CASE OpenBegin(gen)
  BY <1>2, <1>g, <1>k, DoesOpenBegin
<1>3. CASE Created(gen)
  <2> DEFINE e == job[gen].session
  <2>0. PICK u \in ThreadIds : Makes(gen, u)
    BY <1>3, <1>g, DoesCreated
  <2>1. threads'[gen][s] = IF s = e THEN u ELSE threads[gen][s]
    BY <2>0 DEF Makes
  <2>2. /\ job[gen].kind = "open" /\ job[gen].thread = NoThread /\ UNCHANGED reg
    BY <1>3, <1>g, DoesCreated
  <2>3. s # e
    <3> SUFFICES ASSUME s = e PROVE FALSE
      OBVIOUS
    <3>1. threads[gen][s] = NoThread
      BY <1>g, <2>2 DEF JobInv, Is
    <3> QED
      BY <1>p, <1>t, <2>2, <3>1 DEF Reads, Holds
  <2> QED
    BY <1>k, <2>1, <2>2, <2>3
<1>4. CASE CreateFails(gen)
  BY <1>4, <1>g, <1>k, DoesCreateFails
<1>5. CASE Opened(gen)
  <2> DEFINE e == job[gen].session
  <2>1. /\ UNCHANGED threads /\ job[gen].kind = "open"
        /\ reg'[gen][s] = IF s = e /\ reg[gen][s] # NoRecord THEN job[gen].thread ELSE reg[gen][s]
    BY <1>5, <1>g, DoesOpened
  <2>2. CASE s = e /\ reg[gen][s] # NoRecord
    <3>1. reg'[gen][s] = threads[gen][s]
      BY <1>g, <2>1, <2>2 DEF JobInv, Is
    <3>2. threads[gen][s] = t
      BY <1>p, <1>t, <3>1 DEF Reads, Holds
    <3> QED
      BY <1>r, <2>1, <2>2, <3>2
  <2>3. CASE ~(s = e /\ reg[gen][s] # NoRecord)
    BY <1>k, <2>1, <2>3
  <2> QED
    BY <2>2, <2>3
<1>6. CASE AdoptJobBegin(gen)
  BY <1>6, <1>g, <1>k, DoesAdoptJobBegin
<1>7. CASE Adopted(gen)
  <2>1. /\ UNCHANGED reg /\ job[gen].kind = "adopt"
        /\ \/ threads'[gen][s] = threads[gen][s]
           \/ threads'[gen][s] = job[gen].thread /\ s = job[gen].session
    BY <1>7, <1>g, DoesAdopted
  <2>2. CASE threads'[gen][s] = threads[gen][s]
    BY <1>k, <2>1, <2>2
  <2>3. CASE threads'[gen][s] = job[gen].thread /\ s = job[gen].session
    <3>1. threads[gen][s] \in {NoThread, job[gen].thread} \/ FinalFrom(gen, s, 0)
      BY <1>g, <2>1, <2>3 DEF AdoptedInv, Is
    <3>2. ~FinalFrom(gen, s, 0)
      BY DEF FinalFrom, Over, NoMore, Serving
    <3>3. threads[gen][s] = t
      BY <1>p, <2>1 DEF Reads, Holds
    <3> QED
      BY <1>k, <1>t, <2>1, <2>3, <3>1, <3>2, <3>3
  <2> QED
    BY <2>1, <2>2, <2>3
<1>8. CASE ArchiveJobBegin(gen)
  <2>1. /\ UNCHANGED reg /\ queue[gen] # <<>> /\ Take(gen) /\ NextJob(gen).kind = "archive"
        /\ threads'[gen][s] = IF s = NextJob(gen).session THEN NoThread ELSE threads[gen][s]
    BY <1>8, <1>g, DoesArchiveJobBegin
  <2>2. s # NextJob(gen).session
    <3> SUFFICES ASSUME s = NextJob(gen).session PROVE FALSE
      OBVIOUS
    <3>1. Has(queue[gen], "archive", s)
      BY <1>g, <2>1, HasShifted DEF Is
    <3> QED
      BY <1>p, <2>1, <3>1 DEF Reads, Holds
  <2> QED
    BY <1>k, <2>1, <2>2
<1>9. CASE Archived(gen)
  BY <1>9, <1>k, <1>g DEF Archived, bookVars
<1> QED
  BY <1>1, <1>2, <1>3, <1>4, <1>5, <1>6, <1>7, <1>8, <1>9 DEF Pump

\* Of the other steps, only a registration changes what is read of a session
\* to a thread, and to one that was read before.
LEMMA ReadsBefore ==
  ASSUME RightOwners, Phased, DiskInv, [Next]_vars, ~Elect, Restart => gen = 1,
         ~ \E g \in Gens : Pump(g),
         NEW s \in Sessions, NEW t \in ThreadIds, Reads(s, t)'
  PROVE  \/ SweepNext(s)
         \/ Reads(s, t) /\ ~(Release /\ s = Head(wire).session)
<1> USE DEF RightOwners, TypeOK
<1>g. gen \in Gens /\ gen' = gen
  BY BrokerStays DEF ServeTypes, Restart
<1>t. t # NoThread /\ t # NoRecord
  BY NoThreadIsNoId
<1>s. ASSUME UNCHANGED reg, UNCHANGED handler \/ handler'.pc # "known" PROVE Reads(s, t)
  BY <1>g, <1>s DEF Reads
<1>f. ASSUME NEW e \in Sessions, Forget(e), UNCHANGED handler PROVE s # e => Reads(s, t)
  <2>1. reg'[gen][s] = IF s = e THEN NoRecord ELSE reg[gen][s]
    BY <1>f, ForgetSchedules
  <2> QED
    BY <1>f, <1>g, <2>1 DEF Reads
<1>u. Reads(s, t) \/ Release \/ \E e \in Sessions : SweepNext(e)
  <2>1. ASSUME ClientStep \/ SuspectStep \/ SweepCollect \/ RefuseRelease \/ Claim \/ OpenThread
        PROVE  UNCHANGED reg /\ (UNCHANGED handler \/ handler'.pc # "known")
    BY <2>1 DEF ClientStep, SendRegister, SendRelease, Die, SuspectStep, Suspect, HearFrom,
       SweepCollect, RefuseRelease, Claim, OpenThread, serveVars, bookVars, IdleLoop, ServeTypes
  <2>2. ASSUME BeginRegister PROVE Reads(s, t)
    <3>1. /\ UNCHANGED <<reg, gen>>
          /\ \E e : handler' = [pc |-> "known", session |-> e, thread |-> KeepThread(e)]
      BY <2>2 DEF BeginRegister, bookVars
    <3> QED
      BY <1>g, <1>t, <3>1 DEF Reads, KeepThread
  <2>3. ASSUME Upsert PROVE Reads(s, t)
    <3>1. /\ handler.pc = "known" /\ handler'.pc = "upserted"
          /\ reg'[gen][s] = IF s = handler.session THEN handler.thread ELSE reg[gen][s]
      BY <1>g, <2>3 DEF Upsert, SaveRecord, BookTypes, ServeTypes
    <3> QED
      BY <1>g, <3>1 DEF Reads
  <2>4. ASSUME AdoptStep PROVE Reads(s, t)
    BY <1>s, <2>4 DEF AdoptStep, AdoptBegin, AdoptNext, bookVars
  <2>5. ASSUME StandDown PROVE Reads(s, t)
    BY <1>s, <2>5 DEF StandDown, bookVars
  <2>6. ASSUME NEW g \in Gens, Crash(g) PROVE Reads(s, t)
    BY <1>s, <2>6 DEF Crash, bookVars, IdleLoop
  <2>7. ASSUME Restart PROVE Reads(s, t)
    <3>1. reg'[gen] = reg[gen] /\ handler'.pc # "known"
      BY <1>g, <2>7 DEF Restart, DiskInv, BookTypes, IdleLoop
    <3> QED
      BY <1>g, <3>1 DEF Reads
  <2>9. CASE UNCHANGED vars
    BY <1>s, <2>9 DEF vars, serveVars, bookVars
  <2> QED
    BY <1>s, <2>1, <2>2, <2>3, <2>4, <2>5, <2>6, <2>7, <2>9
       DEF Next, SweepStep, AcceptStep, BrokerStep
<1>1. ASSUME Release PROVE s # Head(wire).session /\ Reads(s, t)
  <2>1. /\ Forget(Head(wire).session) /\ UNCHANGED <<handler, gen>> /\ handler = IdleLoop
        /\ Head(wire).session \in Sessions
    BY <1>1, WireType DEF Release
  <2>2. s # Head(wire).session
    <3>1. reg'[gen][Head(wire).session] = NoRecord
      BY <2>1, ForgetSchedules
    <3> QED
      BY <1>g, <1>t, <2>1, <3>1 DEF Reads, IdleLoop
  <2> QED
    BY <1>f, <2>1, <2>2
<1>2. ASSUME NEW e \in Sessions, SweepNext(e)
      PROVE  Reads(s, t) \/ SweepNext(s)
  BY <1>f, <1>2 DEF SweepNext, serveVars
<1> QED
  BY <1>u, <1>1, <1>2

LEMMA RecordNext ==
  ASSUME RightOwners, Phased, Ground, [Next]_vars, ForgetInv, RecordInv, AdoptedInv
  PROVE  RecordInv'
<1> SUFFICES ASSUME gen' = 1, Serving', NEW s \in Sessions, NEW t \in ThreadIds,
                    Reads(s, t)', ~Past(s)'
             PROVE  Holds(s, t)'
  BY DEF RecordInv
<1> USE DEF RightOwners, TypeOK, Ground
<1>g. gen \in Gens /\ gen = 1 /\ Serving
  BY ServedOn DEF ServeTypes
<1>p. ~Past(s) /\ ~SweepNext(s)
  <2>1. ~Past(s)
    BY WireNext DEF Fates
  <2> QED
    BY <2>1 DEF SweepNext, SweepInv, Past
<1>r. Reads(s, t) => Holds(s, t)
  BY <1>g, <1>p DEF RecordInv
<1>h. ASSUME threads'[gen][s] = threads[gen][s], Reads(s, t),
             Has(queue'[gen], "archive", s) => Has(queue[gen], "archive", s)
      PROVE  Holds(s, t)'
  BY <1>g, <1>h, <1>r DEF Holds
<1>b. (~ \E g \in Gens : Pump(g)) =>
         Reads(s, t) /\ ~(Release /\ s = Head(wire).session)
  <2>1. ~Elect
    BY <1>g DEF Elect, ServeTypes, Gens
  <2> QED
    BY <1>g, <1>p, <2>1, ReadsBefore
<1>1. ASSUME NEW g \in Gens, Pump(g) PROVE Holds(s, t)'
  <2>1. CASE g = gen
    BY <1>1, <1>g, <1>p, <1>r, <2>1, PumpRecords
  <2>2. CASE g # gen
    <3>1. /\ UNCHANGED handler /\ reg'[gen] = reg[gen] /\ queue'[gen] = queue[gen]
          /\ threads'[gen] = threads[gen]
      BY <1>1, <1>g, <2>2, PumpsOwn
    <3>2. Reads(s, t)
      BY <1>g, <3>1 DEF Reads
    <3> QED
      BY <1>h, <3>1, <3>2
  <2> QED
    BY <2>1, <2>2
<1>2. CASE ~ \E g \in Gens : Pump(g)
  <2>1. CASE UNCHANGED <<queue, job, threads>>
    BY <1>2, <1>b, <1>h, <2>1
  <2>2. ASSUME NEW j \in Jobs, Sends(j) PROVE Holds(s, t)'
    <3>1. ~Is(j, "archive", s)
      BY <1>2, <1>b, <1>p, <2>2 DEF Sends, Is
    <3>2. Has(queue'[gen], "archive", s) => Has(queue[gen], "archive", s)
      BY <1>g, <2>2, <3>1, HasGrown DEF Sends
    <3> QED
      BY <1>2, <1>b, <1>h, <2>2, <3>2 DEF Sends
  <2>3. ASSUME NEW g \in Gens, Crash(g) PROVE Holds(s, t)'
    <3>1. g # gen
      BY <1>g, <2>3, EndsEmpty DEF Serving, Pumping
    <3> QED
      BY <1>2, <1>b, <1>g, <1>h, <2>3, <3>1, EndsEmpty DEF Beside
  <2> QED
    BY <1>2, <2>1, <2>2, <2>3, StepKinds
<1> QED
  BY <1>1, <1>2

-----------------------------------------------------------------------------
(* What a broker may be asked to adopt, it may still be asked to adopt      *)
(* after every step that does not end the broker.                          *)

\* The thread a gateway holds replaces none.
LEMMA HeldHarmless ==
  ASSUME RightOwners, JobInv, AdoptedInv, Serving, NEW s \in Sessions, NEW t \in ThreadIds,
         threads[gen][s] = t, OpensLate(queue[gen], s) => NoMore(s), ~NoMore(s)
  PROVE  Harmless(gen, s, t, Len(queue[gen]) + 1)
<1> USE DEF RightOwners, TypeOK
<1>g. gen \in Gens /\ t # NoThread /\ Len(queue[gen]) \in Nat
  BY NoThreadIsNoId, QueueLen DEF ServeTypes
<1>f. \A p : ~FinalFrom(gen, s, p)
  BY DEF FinalFrom, Over, Serving
<1>1. ~NewOpen(job[gen], s)
  BY <1>g DEF JobInv, NewOpen
<1>2. Is(job[gen], "adopt", s) => job[gen].thread = t
  BY <1>f, <1>g DEF AdoptedInv
<1>3. \A i \in 1 .. Len(queue[gen]) : Is(queue[gen][i], "adopt", s) => queue[gen][i].thread = t
  BY <1>f, <1>g DEF AdoptedInv, Harmless, HarmlessIn
<1>4. \A i, k \in 1 .. Len(queue[gen]) :
        k < i /\ Is(queue[gen][i], "open", s) => ~Is(queue[gen][k], "archive", s)
  BY DEF OpensLate
<1> QED
  BY <1>1, <1>2, <1>3, <1>4 DEF Harmless, HarmlessIn

LEMMA OpensHead ==
  ASSUME TypeOK, NEW g \in Gens, Pump(g), NEW s, Is(job'[g], "open", s)
  PROVE  Is(job[g], "open", s) \/ Has(queue[g], "open", s)
<1>n. ~Is(NoJob, "open", s)
  BY NoJobIsNone
<1>1. CASE OpenExisting(g)
  BY <1>1, DoesOpenExisting
<1>2. CASE OpenBegin(g)
  BY <1>2, DoesOpenBegin, HasShifted DEF TypeOK
<1>3. CASE Created(g)
  <2>0. PICK u \in ThreadIds : Makes(g, u)
    BY <1>3, DoesCreated
  <2>1. job'[g] = [job[g] EXCEPT !.thread = u]
    BY <2>0 DEF Makes
  <2>2. job[g].kind = "open" /\ job[g] \in Jobs
    BY <1>3, DoesCreated, TypedJob
  <2> QED
    BY <2>1, <2>2 DEF Jobs, Is
<1>4. CASE CreateFails(g) \/ Opened(g)
  BY <1>4, <1>n, DoesCreateFails, DoesOpened
<1>5. CASE AdoptJobBegin(g)
  <2>1. job'[g] = NextJob(g) /\ NextJob(g).kind = "adopt"
    BY <1>5 DEF AdoptJobBegin, TypeOK, PumpTypes
  <2> QED
    BY <2>1 DEF Is
<1>6. CASE Adopted(g) \/ Archived(g)
  <2>1. job'[g] = NoJob
    BY <1>6 DEF Adopted, Archived, TypeOK, PumpTypes
  <2> QED
    BY <1>n, <2>1
<1>7. CASE ArchiveJobBegin(g)
  BY <1>7, <1>n, DoesArchiveJobBegin DEF Is
<1> QED
  BY <1>1, <1>2, <1>3, <1>4, <1>5, <1>6, <1>7 DEF Pump

\* Nobody asks for another thread of the session at the accept loop.
Content(s, t) == handler.session = s =>
  handler.pc # "claimed" /\ (handler.pc = "known" => handler.thread = t)

LEMMA WaitsOn ==
  ASSUME RightOwners, [Next]_vars, ~Elect, ~Restart, NEW s \in Sessions, NEW t \in ThreadIds,
         Waits(s, t)
  PROVE  \/ SweepNext(s) \/ (Release /\ s = Head(wire).session)
         \/ reg'[gen][s] = t /\ Content(s, t)'
<1> USE DEF RightOwners, TypeOK
<1>g. gen \in Gens /\ reg[gen][s] = t /\ Content(s, t)
  BY DEF ServeTypes, Waits, Content
<1>t. t # NoThread /\ t # NoRecord
  BY NoThreadIsNoId
<1>s. UNCHANGED <<reg, handler>> => reg'[gen][s] = t /\ Content(s, t)'
  BY <1>g DEF Content
<1>i. handler' = IdleLoop => Content(s, t)'
  BY DEF Content, IdleLoop
<1>1. ASSUME ClientStep \/ SuspectStep \/ SweepCollect \/ RefuseRelease \/ AdoptStep \/ StandDown
      PROVE  UNCHANGED <<reg, handler>>
  BY <1>1 DEF ClientStep, SendRegister, SendRelease, Die, SuspectStep, Suspect, HearFrom,
     SweepCollect, RefuseRelease, AdoptStep, AdoptBegin, AdoptNext, StandDown, serveVars, bookVars
<1>2. ASSUME BeginRegister PROVE reg'[gen][s] = t /\ Content(s, t)'
  BY <1>2, <1>g DEF BeginRegister, KeepThread, Content, bookVars
<1>3. ASSUME Upsert PROVE reg'[gen][s] = t /\ Content(s, t)'
  <2>1. /\ handler.pc = "known" /\ handler'.pc = "upserted"
        /\ reg'[gen][s] = IF s = handler.session THEN handler.thread ELSE reg[gen][s]
    BY <1>3, <1>g DEF Upsert, SaveRecord, BookTypes, ServeTypes
  <2> QED
    BY <1>g, <2>1 DEF Content
<1>4. ASSUME Claim PROVE reg'[gen][s] = t /\ Content(s, t)'
  <2>1. UNCHANGED reg
    BY <1>4 DEF Claim
  <2>2. CASE handler' = IdleLoop
    BY <1>g, <1>i, <2>1, <2>2
  <2>3. CASE handler' # IdleLoop
    <3>1. /\ MayClaim(handler.session) /\ handler' = [handler EXCEPT !.pc = "claimed"]
      BY <1>4, <2>3 DEF Claim
    <3>2. handler'.session = handler.session /\ handler.session # s
      BY <1>g, <1>t, <3>1 DEF MayClaim, ServeTypes
    <3> QED
      BY <1>g, <2>1, <3>2 DEF Content
  <2> QED
    BY <2>2, <2>3
<1>5. ASSUME OpenThread PROVE reg'[gen][s] = t /\ Content(s, t)'
  BY <1>5, <1>g, <1>i DEF OpenThread, bookVars
<1>6. ASSUME NEW e \in Sessions, Forget(e), UNCHANGED handler, s # e
      PROVE  reg'[gen][s] = t /\ Content(s, t)'
  BY <1>6, <1>g, ForgetSchedules DEF Content
<1>7. ASSUME Release, s # Head(wire).session PROVE reg'[gen][s] = t /\ Content(s, t)'
  <2>1. /\ Forget(Head(wire).session) /\ UNCHANGED handler /\ Head(wire).session \in Sessions
    BY <1>7, WireType DEF Release
  <2> QED
    BY <1>6, <1>7, <2>1
<1>8. ASSUME NEW e \in Sessions, SweepNext(e), e # s PROVE reg'[gen][s] = t /\ Content(s, t)'
  BY <1>6, <1>8 DEF SweepNext, serveVars
<1>9. ASSUME NEW g \in Gens, Crash(g) PROVE reg'[gen][s] = t /\ Content(s, t)'
  <2>1. UNCHANGED reg /\ (UNCHANGED handler \/ handler' = IdleLoop)
    BY <1>9 DEF Crash, bookVars
  <2> QED
    BY <1>g, <1>i, <1>s, <2>1
<1>10. ASSUME NEW g \in Gens, Pump(g) PROVE reg'[gen][s] = t /\ Content(s, t)'
  <2>1. UNCHANGED handler
    BY <1>10, PumpsOwn
  <2>2. reg'[gen][s] = reg[gen][s]
    <3>1. CASE g # gen
      BY <1>10, <1>g, <3>1, PumpsOwn
    <3>2. CASE g = gen
      <4>1. UNCHANGED reg \/ OpenExisting(g) \/ Opened(g)
        BY <1>10 DEF Pump, OpenBegin, Created, CreateFails, AdoptJobBegin, Adopted,
           ArchiveJobBegin, Archived, bookVars
      <4>2. ASSUME OpenExisting(g) PROVE NextJob(g).session # s
        BY <3>2, <4>2, DoesOpenExisting, HasShifted DEF Waits, Is
      <4>3. ASSUME Opened(g) PROVE job[g].session # s
        BY <3>2, <4>3, DoesOpened DEF Waits, Is
      <4> QED
        BY <3>2, <4>1, <4>2, <4>3, DoesOpenExisting, DoesOpened
    <3> QED
      BY <3>1, <3>2
  <2> QED
    BY <1>g, <2>1, <2>2 DEF Content
<1>11. CASE UNCHANGED vars
  BY <1>11, <1>s DEF vars, serveVars, bookVars
<1> QED
  BY <1>s, <1>1, <1>2, <1>3, <1>4, <1>5, <1>7, <1>8, <1>9, <1>10, <1>11
     DEF Next, SweepStep, AcceptStep, BrokerStep

\* The disjuncts of MayAdopt, for a given queue, job and mapping.
MayDo(s, t) == Harmless(gen, s, t, Len(queue[gen]) + 1) /\ (OneMore(s) \/ Holds(s, t) \/ Waits(s, t))

LEMMA WaitsStays ==
  ASSUME RightOwners, [Next]_vars, ~Elect, ~Restart, NEW s \in Sessions, NEW t \in ThreadIds,
         Waits(s, t), ~SweepNext(s), ~(Release /\ s = Head(wire).session),
         Has(queue'[gen], "archive", s) => Has(queue[gen], "archive", s),
         Has(queue'[gen], "open", s) => Has(queue[gen], "open", s),
         Is(job'[gen], "open", s) => Is(job[gen], "open", s) \/ Has(queue[gen], "open", s)
  PROVE  Waits(s, t)'
<1>1. gen' = gen
  BY BrokerStays
<1>2. reg'[gen][s] = t /\ Content(s, t)'
  BY WaitsOn
<1> QED
  BY <1>1, <1>2 DEF Waits, Content

LEMMA MayBeside ==
  ASSUME RightOwners, WireInv, [Next]_vars, ~Elect, ~Restart,
         NEW s \in Sessions, NEW t \in ThreadIds, MayDo(s, t), Beside(gen),
         ~SweepNext(s), ~(Release /\ s = Head(wire).session)
  PROVE  MayDo(s, t)'
<1>1. gen' = gen
  BY BrokerStays
<1>2. HarmlessIn(queue'[gen'], job'[gen'], threads'[gen'][s], s, t, Len(queue'[gen']) + 1)
  BY <1>1 DEF Beside, MayDo, Harmless
<1>3. OneMore(s) => OneMore(s)'
  BY WireNext DEF Fates
<1>4. Holds(s, t) => Holds(s, t)'
  BY <1>1 DEF Beside, Holds
<1>5. Waits(s, t) => Waits(s, t)'
  <2>1. /\ Has(queue'[gen], "archive", s) => Has(queue[gen], "archive", s)
        /\ Has(queue'[gen], "open", s) => Has(queue[gen], "open", s)
        /\ Is(job'[gen], "open", s) => Is(job[gen], "open", s)
    BY DEF Beside
  <2> QED
    BY <2>1, WaitsStays
<1> QED
  BY <1>2, <1>3, <1>4, <1>5 DEF MayDo, Harmless

LEMMA MaySends ==
  ASSUME RightOwners, WireInv, SweepInv, [Next]_vars, ~Elect, ~Restart, Early, Early',
         NEW s \in Sessions, NEW t \in ThreadIds, MayDo(s, t), ~NoMore(s)',
         NEW j \in Jobs, Sends(j), Is(j, "adopt", s) => j.thread = t
  PROVE  MayDo(s, t)'
<1> USE DEF RightOwners, TypeOK
<1>g. gen' = gen /\ gen \in Gens /\ UNCHANGED <<job, threads, client, healed>>
  BY BrokerStays DEF Sends, ServeTypes
<1>q. /\ Len(queue[gen]) \in Nat /\ Len(queue'[gen]) = Len(queue[gen]) + 1
      /\ queue'[gen][Len(queue[gen]) + 1] = j
      /\ \A n \in 1 .. Len(queue[gen]) : queue'[gen][n] = queue[gen][n]
  BY <1>g, QueueGrown DEF Sends
<1>o. ASSUME Is(j, "open", s) PROVE Holds(s, t)
  <2>1. OpenThread /\ handler.session = s
    BY <1>o DEF Sends, Is
  <2>2. ~Waits(s, t)
    BY <2>1 DEF Waits, OpenThread
  <2>3. ~OneMore(s)
    <3> SUFFICES ASSUME OneMore(s) PROVE FALSE
      OBVIOUS
    <3>1. s \in healed /\ client[s] # "live"
      BY <2>1 DEF OneMore, Quiet
    <3>2. ~RegisterOnWire(s)
      BY <2>1, <3>1 DEF WireInv
    <3>3. NoMore(s)'
      BY <1>g, <2>1, <3>1, <3>2
         DEF OpenThread, NoMore, Past, Quiet, RegisterOnWire, IdleLoop, SessionsAssumption
    <3> QED
      BY <3>3
  <2> QED
    BY <2>2, <2>3 DEF MayDo
<1>1. HarmlessIn(queue'[gen], job[gen], threads[gen][s], s, t, Len(queue'[gen]) + 1)
  <2>1. Is(j, "open", s) => threads[gen][s] = t /\ ~Has(queue[gen], "archive", s)
    BY <1>o DEF Holds
  <2> QED
    BY <1>q, <2>1, HarmlessAtEnd DEF MayDo, Harmless
<1>2. HarmlessIn(queue'[gen'], job'[gen'], threads'[gen'][s], s, t, Len(queue'[gen']) + 1)
  BY <1>1, <1>g
<1>3. OneMore(s) \/ Is(j, "archive", s) => OneMore(s)'
  BY WireNext, ForgetSends DEF Fates
<1>4. ASSUME ~Is(j, "archive", s), Holds(s, t) PROVE Holds(s, t)'
  BY <1>4, <1>g, HasGrown DEF Holds, Sends
<1>5. ASSUME ~Is(j, "archive", s), Waits(s, t) PROVE Holds(s, t)' \/ Waits(s, t)'
  <2>1. CASE Is(j, "open", s)
    BY <1>4, <1>5, <1>o, <2>1
  <2>2. CASE ~Is(j, "open", s)
    <3>1. /\ Has(queue'[gen], "archive", s) => Has(queue[gen], "archive", s)
          /\ Has(queue'[gen], "open", s) => Has(queue[gen], "open", s)
          /\ Is(job'[gen], "open", s) => Is(job[gen], "open", s)
      BY <1>5, <1>g, <2>2, HasGrown DEF Sends
    <3>2. ~SweepNext(s)
      BY DEF SweepNext, SweepInv, Early
    <3>3. ~(Release /\ s = Head(wire).session)
      <4> SUFFICES ASSUME Release, s = Head(wire).session PROVE FALSE
        OBVIOUS
      <4>1. Forget(s)
        BY DEF Release
      <4>2. Has(queue'[gen], "archive", s)
        BY <4>1, <1>g, ForgetSchedules, HasGrown
      <4> QED
        BY <1>5, <3>1, <4>2 DEF Waits
    <3> QED
      BY <1>5, <3>1, <3>2, <3>3, WaitsStays
  <2> QED
    BY <2>1, <2>2
<1> QED
  BY <1>2, <1>3, <1>4, <1>5 DEF MayDo, Harmless

LEMMA MayPump ==
  ASSUME RightOwners, Phased, WireInv, JobInv, [Next]_vars, ~Elect, ~Restart, Early,
         NEW s \in Sessions, NEW t \in ThreadIds, MayDo(s, t), Pump(gen)
  PROVE  MayDo(s, t)'
<1> USE DEF RightOwners, TypeOK
<1>g. gen \in Gens /\ gen' = gen /\ UNCHANGED <<handler, wire>>
  BY BrokerStays, PumpsOwn DEF ServeTypes
<1>l. Len(queue[gen]) \in Nat /\ Len(queue[gen]) + 1 \in Nat /\ Len(queue[gen]) + 1 > 0
  BY <1>g, QueueLen
<1>q. queue'[gen] = queue[gen] \/ (queue[gen] # <<>> /\ Take(gen))
  BY <1>g, PumpsOwn
<1>h. /\ Has(queue'[gen], "archive", s) => Has(queue[gen], "archive", s)
      /\ Has(queue'[gen], "open", s) => Has(queue[gen], "open", s)
      /\ Is(job'[gen], "open", s) => Is(job[gen], "open", s) \/ Has(queue[gen], "open", s)
  BY <1>g, <1>q, HasShifted, OpensHead
<1>t. queue[gen] # <<>> /\ Take(gen) =>
        Len(queue[gen]) > 0 /\ Len(queue[gen]) + 1 > 1 /\ Len(queue'[gen]) + 1 = (Len(queue[gen]) + 1) - 1
  BY <1>g, <1>l, QueueShifted
<1>1. HarmlessIn(queue'[gen], job'[gen], threads'[gen][s], s, t, Len(queue'[gen]) + 1)
  BY <1>g, <1>l, <1>q, <1>t, HarmlessPumped DEF MayDo
<1>2. HarmlessIn(queue'[gen'], job'[gen'], threads'[gen'][s], s, t, Len(queue'[gen']) + 1)
  BY <1>1, <1>g
<1>3. OneMore(s) => OneMore(s)'
  BY WireNext DEF Fates
<1>4. ASSUME Holds(s, t) PROVE Holds(s, t)'
  <2>1. Spares(gen, s, t)
    BY <1>g, <1>l, <1>q, <1>t, PumpSpares DEF MayDo
  <2>2. ASSUME queue[gen] # <<>>, Take(gen), Is(queue[gen][1], "archive", s)
        PROVE  FALSE
    BY <1>4, <1>g, <2>2, HasShifted, HeadListed DEF Holds
  <2>3. threads'[gen][s] = t
    BY <1>4, <2>1, <2>2 DEF Spares, Holds
  <2> QED
    BY <1>4, <1>g, <1>h, <2>3 DEF Holds
<1>5. ASSUME Waits(s, t) PROVE Waits(s, t)'
  <2>1. ~Has(queue'[gen], "archive", s) /\ ~Has(queue'[gen], "open", s)
        /\ ~Is(job'[gen], "open", s)
    BY <1>5, <1>h DEF Waits
  <2>2. Content(s, t)'
    BY <1>5, <1>g DEF Content, Waits
  <2>3. reg'[gen][s] = t
    <3>1. UNCHANGED reg \/ OpenExisting(gen) \/ Opened(gen)
      BY DEF Pump, OpenBegin, Created, CreateFails, AdoptJobBegin, Adopted,
         ArchiveJobBegin, Archived, bookVars
    <3>2. ASSUME OpenExisting(gen) PROVE NextJob(gen).session # s
      BY <1>5, <1>g, <3>2, DoesOpenExisting, HasShifted DEF Waits, Is
    <3>3. ASSUME Opened(gen) PROVE job[gen].session # s
      BY <1>5, <1>g, <3>3, DoesOpened DEF Waits, Is
    <3> QED
      BY <1>5, <1>g, <3>1, <3>2, <3>3, DoesOpenExisting, DoesOpened DEF Waits
  <2> QED
    BY <1>g, <2>1, <2>2, <2>3 DEF Waits, Content
<1> QED
  BY <1>2, <1>3, <1>4, <1>5 DEF MayDo, Harmless

LEMMA MayStays ==
  ASSUME RightOwners, Phased, Ground, [Next]_vars, ~Elect, ~Restart, Early',
         NEW s \in Sessions, NEW t \in ThreadIds, MayAdopt(s, t),
         \A j \in Jobs : Sends(j) /\ Is(j, "adopt", s) => j.thread = t
  PROVE  MayAdopt(s, t)'
<1> USE DEF RightOwners, TypeOK, Ground
<1>g. gen' = gen /\ gen \in Gens /\ Early
  BY BrokerStays DEF ServeTypes
<1>1. CASE NoMore(s)
  BY <1>1, WireNext DEF MayAdopt, Fates
<1>2. CASE MayDo(s, t) /\ ~NoMore(s)'
  <2>f. ASSUME Release, s = Head(wire).session PROVE \E j \in Jobs : Sends(j)
    BY <2>f, SendsArchive DEF Sends
  <2>s. ~SweepNext(s)
    BY <1>g DEF SweepNext, SweepInv, Early
  <2>b. Beside(gen) /\ ~(\E j \in Jobs : Sends(j)) => MayDo(s, t)'
    BY <1>2, <2>f, <2>s, MayBeside
  <2>1. ASSUME NEW j \in Jobs, Sends(j) PROVE MayDo(s, t)'
    BY <1>2, <1>g, <2>1, MaySends
  <2>2. ASSUME UNCHANGED <<queue, job, threads>> PROVE MayDo(s, t)'
    BY <2>1, <2>2, <2>b DEF Beside
  <2>3. ASSUME NEW g \in Gens, Pump(g) PROVE MayDo(s, t)'
    <3>1. CASE g = gen
      BY <1>2, <1>g, <2>3, <3>1, MayPump
    <3>2. CASE g # gen
      BY <1>g, <2>1, <2>3, <2>b, <3>2, PumpsOwn DEF Beside
    <3> QED
      BY <3>1, <3>2
  <2>4. ASSUME NEW g \in Gens, Crash(g) PROVE MayDo(s, t)'
    <3>1. g # gen
      BY <1>g, <2>4, EndsEmpty DEF Early, Pumping
    <3> QED
      BY <1>g, <2>1, <2>4, <2>b, <3>1, EndsEmpty
  <2>5. MayDo(s, t)'
    BY <2>1, <2>2, <2>3, <2>4, StepKinds
  <2> QED
    BY <2>5 DEF MayDo, MayAdopt
<1> QED
  BY <1>1, <1>2 DEF MayDo, MayAdopt

\* No step but an election and a restart starts a broker.
LEMMA StartedBefore ==
  ASSUME RightOwners, [Next]_vars, ~Elect, ~Restart, status[gen] = "adopting"
  PROVE  status'[gen] # "started"
<1> USE DEF RightOwners, TypeOK
<1>g. gen \in Gens
  BY DEF ServeTypes
<1>1. ClientStep \/ SuspectStep \/ SweepStep \/ AcceptStep => UNCHANGED status
  BY DEF ClientStep, SendRegister, SendRelease, Die, SuspectStep, Suspect, HearFrom,
     SweepStep, SweepCollect, SweepNext, AcceptStep, BeginRegister, Claim, Upsert, OpenThread,
     Release, RefuseRelease, serveVars
<1>2. AdoptStep \/ StandDown => status'[gen] # "started"
  BY <1>g DEF AdoptStep, AdoptBegin, AdoptNext, StandDown, ServeTypes
<1>3. \A h \in Gens : Crash(h) => status'[gen] # "started"
  BY <1>g DEF Crash, ServeTypes
<1>4. \A h \in Gens : Pump(h) => UNCHANGED status
  BY PumpsOwn
<1>5. UNCHANGED vars => UNCHANGED status
  BY DEF vars, serveVars
<1> QED
  BY <1>1, <1>2, <1>3, <1>4, <1>5 DEF Next, BrokerStep

\* An elected broker's gateway is new: whatever the file names replaces none.
LEMMA MayElect ==
  ASSUME RightOwners, Phased, Elect, NEW s \in Sessions, NEW t \in ThreadIds, Reads(s, t)'
  PROVE  MayAdopt(s, t)'
<1> USE DEF RightOwners, TypeOK
<1>1. /\ gen' = gen + 1 /\ gen' \in Gens /\ gen' > gen /\ UNCHANGED <<queue, job, threads, handler>>
      /\ handler = IdleLoop
  BY DEF Elect, Phased, Phases, Serving, pumpVars, ServeTypes, Gens
<1>2. queue'[gen'] = <<>> /\ job'[gen'] = NoJob /\ threads'[gen'][s] = NoThread
  BY <1>1 DEF Phased, Untouched
<1>3. /\ ~Has(queue'[gen'], "archive", s) /\ ~Has(queue'[gen'], "open", s)
      /\ ~Is(job'[gen'], "open", s) /\ ~Is(job'[gen'], "adopt", s)
  BY <1>2, NoJobIsNone DEF Has
<1>4. HarmlessIn(queue'[gen'], job'[gen'], threads'[gen'][s], s, t, Len(queue'[gen']) + 1)
  BY <1>2, <1>3 DEF HarmlessIn, NewOpen
<1>5. Waits(s, t)'
  BY <1>1, <1>3 DEF Waits, Reads, IdleLoop, SessionsAssumption
<1> QED
  BY <1>4, <1>5 DEF MayAdopt, Harmless

\* The first broker, restarted: its gateway holds what the file names, or the
\* session has ended and registers no more.
LEMMA MayRestart ==
  ASSUME RightOwners, Phased, Ground, [Next]_vars, RecordInv, AdoptedInv,
         Restart, gen = 1, NEW s \in Sessions, NEW t \in ThreadIds, Reads(s, t)'
  PROVE  MayAdopt(s, t)'
<1> USE DEF RightOwners, TypeOK, Ground
<1>1. /\ UNCHANGED <<gen, queue, job, threads, client, healed>> /\ Serving
      /\ handler' = IdleLoop /\ wire' = <<>> /\ reg'[gen] = reg[gen]
  BY DEF Restart, Serving, pumpVars, clientVars, DiskInv, BookTypes
<1>2. Reads(s, t)
  BY <1>1 DEF Reads, IdleLoop
<1>3. Quiet(s)'
  BY <1>1 DEF Quiet, RegisterOnWire, IdleLoop, SessionsAssumption
<1>4. CASE Past(s)
  <2>1. NoMore(s)'
    BY <1>1, <1>3, <1>4 DEF NoMore, Past, WireInv
  <2> QED
    BY <2>1 DEF MayAdopt
<1>5. CASE ~Past(s)
  <2>1. Holds(s, t)
    BY <1>1, <1>2, <1>5 DEF RecordInv
  <2>2. ~OpensLate(queue[gen], s)
    BY <2>1 DEF OpensLate, Holds, Has
  <2>3. Harmless(gen, s, t, Len(queue[gen]) + 1)
    BY <1>1, <1>5, <2>1, <2>2, HeldHarmless DEF NoMore, Holds
  <2> QED
    BY <1>1, <2>1, <2>3 DEF MayAdopt, Holds, Harmless
<1> QED
  BY <1>4, <1>5

\* What a broker that has just started reads, it read before the step, or its
\* gateway holds it.
LEMMA MayRead ==
  ASSUME RightOwners, Phased, Ground, [Next]_vars, ForgetInv, AdoptedInv, ~Elect, ~Restart,
         status[gen] = "started", NEW s \in Sessions, NEW t \in ThreadIds,
         Reads(s, t) => MayAdopt(s, t), Reads(s, t)'
  PROVE  MayAdopt(s, t)
<1> USE DEF RightOwners, TypeOK, Ground
<1>g. gen \in Gens /\ gen' = gen /\ Serving
  BY BrokerStays DEF ServeTypes, Serving
<1>t. t # NoThread /\ t # NoRecord
  BY NoThreadIsNoId
<1>h. ASSUME threads[gen][s] = t PROVE MayAdopt(s, t)
  <2>1. /\ Has(queue[gen], "archive", s) => OneMore(s)
        /\ OpensLate(queue[gen], s) => NoMore(s)
    BY DEF ForgetInv
  <2>2. NoMore(s) \/ Harmless(gen, s, t, Len(queue[gen]) + 1)
    BY <1>g, <1>h, <2>1, HeldHarmless
  <2> QED
    BY <1>h, <2>1, <2>2 DEF MayAdopt, Holds
<1>1. CASE ~ \E g \in Gens : Pump(g)
  <2>1. ~SweepNext(s)
    BY DEF SweepNext, SweepInv
  <2> QED
    BY <1>1, <2>1, ReadsBefore
<1>2. ASSUME NEW g \in Gens, Pump(g) PROVE MayAdopt(s, t)
  <2>1. UNCHANGED handler
    BY <1>2, PumpsOwn
  <2>2. reg'[gen][s] = reg[gen][s] \/ (reg'[gen][s] = threads[gen][s])
    <3>1. CASE g # gen
      BY <1>2, <1>g, <3>1, PumpsOwn
    <3>2. CASE g = gen
      <4>1. UNCHANGED reg \/ OpenExisting(g) \/ Opened(g)
        BY <1>2 DEF Pump, OpenBegin, Created, CreateFails, AdoptJobBegin, Adopted,
           ArchiveJobBegin, Archived, bookVars
      <4>2. OpenExisting(g) =>
              reg'[gen][s] = reg[gen][s] \/ reg'[gen][s] = threads[gen][s]
        BY <3>2, DoesOpenExisting
      <4>3. ASSUME Opened(g) PROVE reg'[gen][s] = reg[gen][s] \/ reg'[gen][s] = threads[gen][s]
        <5>1. /\ job[gen].kind = "open"
              /\ reg'[gen][s] = IF s = job[gen].session /\ reg[gen][s] # NoRecord
                                THEN job[gen].thread ELSE reg[gen][s]
          BY <3>2, <4>3, DoesOpened
        <5>2. s = job[gen].session => threads[gen][s] = job[gen].thread
          BY <1>g, <5>1 DEF JobInv, Is
        <5> QED
          BY <5>1, <5>2
      <4> QED
        BY <4>1, <4>2, <4>3
    <3> QED
      BY <3>1, <3>2
  <2> QED
    BY <1>g, <1>h, <2>1, <2>2 DEF Reads
<1> QED
  BY <1>1, <1>2

\* Who is on the list to adopt was on it, or is what the register names.
LEMMA ListedBefore ==
  ASSUME RightOwners, Phased, [Next]_vars
  PROVE  \/ AdoptBegin
         \/ toAdopt' \subseteq toAdopt
<1> USE DEF RightOwners, TypeOK
<1>1. ClientStep \/ SuspectStep \/ SweepStep \/ AcceptStep => UNCHANGED toAdopt
  BY DEF ClientStep, SendRegister, SendRelease, Die, SuspectStep, Suspect, HearFrom,
     SweepStep, SweepCollect, SweepNext, AcceptStep, BeginRegister, Claim, Upsert, OpenThread,
     Release, RefuseRelease, careVars
<1>2. AdoptNext => toAdopt' \subseteq toAdopt
  BY DEF AdoptNext
<1>3. StandDown \/ Elect \/ Restart => UNCHANGED toAdopt
  BY DEF StandDown, Elect, Restart, careVars
<1>4. \A g \in Gens : Crash(g) => toAdopt' \subseteq toAdopt
  BY DEF Crash, careVars
<1>5. \A g \in Gens : Pump(g) => UNCHANGED toAdopt
  BY PumpsOwn
<1>6. UNCHANGED vars => UNCHANGED toAdopt
  BY DEF vars, careVars
<1> QED
  BY <1>1, <1>2, <1>3, <1>4, <1>5, <1>6 DEF Next, AdoptStep, BrokerStep

LEMMA OneAtATime ==
  ASSUME TypeOK, AdoptInv, AdoptNext, NEW st \in toAdopt', NEW j \in Jobs, Sends(j),
         Is(j, "adopt", st[1])
  PROVE  FALSE
<1>1. toAdopt # {}
  BY DEF AdoptNext
<1>2. PICK su \in toAdopt : Sends(Job("adopt", su[1], su[2])) /\ toAdopt' = toAdopt \ {su}
  BY <1>1, SendsAdopt
<1>3. j = Job("adopt", su[1], su[2])
  <2>1. gen \in Gens
    BY DEF TypeOK, ServeTypes
  <2>2. Schedule(gen, j) /\ Schedule(gen, Job("adopt", su[1], su[2]))
    BY <1>2 DEF Sends
  <2>3. Job("adopt", su[1], su[2]) \in Jobs
    BY <1>2 DEF Sends
  <2> QED
    BY <2>1, <2>2, <2>3, QueueGrown DEF TypeOK
<1>4. st[1] = su[1] /\ st \in toAdopt /\ st # su
  BY <1>2, <1>3 DEF Is, Job
<1> QED
  BY <1>2, <1>4 DEF AdoptInv

LEMMA AdoptInvNext ==
  ASSUME RightOwners, Phased, Ground, [Next]_vars, restarts' = 0 \/ gen' = 1,
         ForgetInv, RecordInv, AdoptInv, AdoptedInv
  PROVE  AdoptInv'
<1> USE DEF RightOwners, TypeOK, Ground
<1>g. gen \in Gens
  BY DEF ServeTypes
<1>e. ASSUME Elect \/ Restart
      PROVE  toAdopt' = {} /\ \A s \in Sessions, t \in ThreadIds : Reads(s, t)' => MayAdopt(s, t)'
  <2>1. toAdopt' = {}
    BY <1>e DEF Elect, Restart, careVars, Phased, Phases
  <2>2. Restart => gen = 1
    BY DEF Restart, ServeTypes
  <2> QED
    BY <1>e, <2>1, <2>2, MayElect, MayRestart
<1>1. ASSUME status'[gen'] = "started", NEW s \in Sessions, NEW t \in ThreadIds, Reads(s, t)'
      PROVE  MayAdopt(s, t)'
  <2>1. CASE Elect \/ Restart
    BY <1>1, <1>e, <2>1
  <2>2. CASE ~Elect /\ ~Restart
    <3>1. gen' = gen /\ Early' /\ Early
      BY <1>1, <2>2, BrokerStays DEF Early
    <3>2. ~AdoptNext /\ ~AdoptBegin
      BY <1>1, <1>g, <3>1 DEF AdoptNext, AdoptBegin, ServeTypes
    <3>3. status[gen] = "started"
      <4>1. status[gen] # "adopting"
        <5>1. ASSUME status[gen] = "adopting" PROVE FALSE
          BY <1>1, <2>2, <3>1, <3>2, <5>1, StartedBefore
        <5> QED
          BY <5>1
      <4> QED
        BY <3>1, <4>1 DEF Early
    <3>4. MayAdopt(s, t)
      BY <1>1, <2>2, <3>3, MayRead DEF AdoptInv
    <3>5. \A j \in Jobs : ~(Sends(j) /\ Is(j, "adopt", s))
      BY <3>2 DEF Sends, Is
    <3> QED
      BY <2>2, <3>1, <3>4, <3>5, MayStays
  <2> QED
    BY <2>1, <2>2
<1>2. ASSUME NEW st \in toAdopt' PROVE MayAdopt(st[1], st[2])'
  <2>1. ~Elect /\ ~Restart
    BY <1>2, <1>e
  <2>2. gen' = gen /\ Early'
    <3>1. Phased'
      BY PhasedNext
    <3>2. status'[gen'] = "adopting"
      BY <1>2, <3>1 DEF Phased, Phases
    <3> QED
      BY <2>1, <3>2, BrokerStays DEF Early
  <2>3. st[1] \in Sessions /\ st[2] \in ThreadIds
    <3>1. CareTypes'
      BY TypeNext
    <3> QED
      BY <1>2, <3>1 DEF CareTypes
  <2>4. MayAdopt(st[1], st[2])
    <3>1. CASE AdoptBegin
      <4>1. status[gen] = "started" /\ reg[gen][st[1]] = st[2]
        BY <1>2, <3>1 DEF AdoptBegin
      <4> QED
        BY <2>3, <4>1 DEF AdoptInv, Reads
    <3>2. CASE toAdopt' \subseteq toAdopt
      BY <1>2, <3>2 DEF AdoptInv
    <3> QED
      BY <3>1, <3>2, ListedBefore
  <2>5. \A j \in Jobs : Sends(j) /\ Is(j, "adopt", st[1]) => j.thread = st[2]
    <3>1. ASSUME NEW j \in Jobs, Sends(j), Is(j, "adopt", st[1]) PROVE FALSE
      <4>1. AdoptNext
        BY <3>1 DEF Sends, Is
      <4> QED
        BY <1>2, <3>1, <4>1, OneAtATime
    <3> QED
      BY <3>1
  <2> QED
    BY <2>1, <2>2, <2>3, <2>4, <2>5, MayStays
<1>3. ASSUME NEW st \in toAdopt', NEW su \in toAdopt', st[1] = su[1] PROVE st = su
  <2>1. CASE AdoptBegin
    <3>1. /\ st \in Sessions \X ThreadIds /\ su \in Sessions \X ThreadIds
          /\ reg[gen][st[1]] = st[2] /\ reg[gen][su[1]] = su[2]
      BY <1>3, <2>1 DEF AdoptBegin
    <3> QED
      BY <1>3, <3>1
  <2>2. CASE toAdopt' \subseteq toAdopt
    BY <1>3, <2>2 DEF AdoptInv
  <2> QED
    BY <2>1, <2>2, ListedBefore
<1> QED
  BY <1>1, <1>2, <1>3 DEF AdoptInv

-----------------------------------------------------------------------------
LEMMA SingleInit == Init => SingleSafe
<1> SUFFICES ASSUME Init PROVE SingleSafe
  OBVIOUS
<1>1. RightOwners /\ Phased /\ Ground
  BY RightInit, PhasedInit, GroundInit
<1>g. /\ gen \in Gens /\ gen = 1 /\ status[gen] = "serving" /\ toAdopt = {}
      /\ handler = IdleLoop /\ IdleLoop.pc = "idle"
  BY DEF Init, Gens, IdleLoop
<1>2. \A g \in Gens : \A kind, s : ~Has(queue[g], kind, s) /\ ~OpensLate(queue[g], s)
  BY DEF Init, Has, OpensLate
<1>3. ForgetInv
  BY <1>2, <1>g DEF ForgetInv
<1>4. RecordInv
  BY <1>g, NoThreadIsNoId DEF RecordInv, Reads, Init
<1>5. AdoptInv
  BY <1>g DEF AdoptInv
<1>6. AdoptedInv
  BY NoJobIsNone DEF AdoptedInv, Init
<1>7. AstrayInv /\ OneThreadPerGateway
  <2>1. \A g \in Gens, s \in Sessions, t \in ThreadIds : ~Mine(g, s, t)
    BY DEF Init, Mine, Gens
  <2> QED
    BY <2>1, OneThreadIsOneOpen DEF AstrayInv, Astray, OneOpen
<1> QED
  BY <1>1, <1>3, <1>4, <1>5, <1>6, <1>7 DEF SingleSafe, OneEach

LEMMA SingleBefore ==
  ASSUME RightOwners, [Next]_vars, restarts' = 0 \/ gen' = 1
  PROVE  restarts = 0 \/ gen = 1
<1> USE DEF RightOwners, TypeOK
<1>g. gen \in Nat /\ gen >= 1 /\ restarts \in Nat
  BY DEF ServeTypes, Gens
<1>1. CASE Restart
  BY <1>1, <1>g DEF Restart
<1>2. CASE Elect
  BY <1>2, <1>g DEF Elect
<1>3. CASE ~Restart /\ ~Elect
  <2>1. gen' = gen
    BY <1>3, BrokerStays
  <2>2. ClientStep \/ SuspectStep \/ SweepStep \/ AcceptStep \/ AdoptStep => UNCHANGED restarts
    BY DEF ClientStep, SendRegister, SendRelease, Die, SuspectStep, Suspect, HearFrom,
       SweepStep, SweepCollect, SweepNext, AcceptStep, BeginRegister, Claim, Upsert, OpenThread,
       Release, RefuseRelease, AdoptStep, AdoptBegin, AdoptNext, serveVars
  <2>3. StandDown \/ (\E g \in Gens : Crash(g)) => UNCHANGED restarts
    BY DEF StandDown, Crash
  <2>4. \A g \in Gens : Pump(g) => UNCHANGED restarts
    BY PumpsOwn
  <2>5. UNCHANGED vars => UNCHANGED restarts
    BY DEF vars, serveVars
  <2> QED
    BY <1>3, <2>1, <2>2, <2>3, <2>4, <2>5 DEF Next, BrokerStep
<1> QED
  BY <1>1, <1>2, <1>3

LEMMA SingleNext ==
  ASSUME ArchiveOutcomes \subseteq {TRUE}, SingleSafe, [Next]_vars
  PROVE  SingleSafe'
<1>0. RightOwners /\ Phased /\ Ground
  BY DEF SingleSafe
<1>1. RightOwners' /\ Phased' /\ Ground'
  BY <1>0, RightNext, PhasedNext, GroundNext
<1>2. ASSUME restarts' = 0 \/ gen' = 1 PROVE OneEach'
  <2>1. /\ ForgetInv /\ RecordInv /\ AdoptInv /\ AdoptedInv /\ AstrayInv
        /\ OneThreadPerGateway /\ (restarts = 0 \/ gen = 1)
    BY <1>0, <1>2, SingleBefore DEF SingleSafe, OneEach
  <2>2. ForgetInv' /\ RecordInv' /\ AdoptInv' /\ AdoptedInv' /\ AstrayInv'
    BY <1>0, <1>2, <2>1, ForgetNext, RecordNext, AdoptInvNext, AdoptedNext, AstrayNext
  <2>3. OneOpen'
    BY <1>0, <2>1, OneOpenNext, OneThreadIsOneOpen
  <2>4. OneThreadPerGateway'
    BY <2>3 DEF OneThreadPerGateway, OpenThreads, OneOpen, Mine
  <2> QED
    BY <2>2, <2>4 DEF OneEach
<1> QED
  BY <1>1, <1>2 DEF SingleSafe

\* When Discord archives what it is asked to archive, no gateway ever has two
\* open threads for one session, for any number of sessions, of brokers one
\* after the other, of crashes and of lost or repeated frames; and when the
\* serving thread was restarted, as long as there has been one process
\* (ensure_thread() answers from the mapping, INV-C14).
THEOREM OneThreadEach ==
  ASSUME ArchiveOutcomes \subseteq {TRUE}
  PROVE  Spec => []OneThreadPerGateway
<1>1. Init => SingleSafe
  BY SingleInit
<1>2. SingleSafe /\ [Next]_vars => SingleSafe'
  BY SingleNext
<1>3. SingleSafe => OneThreadPerGateway
  BY DEF SingleSafe, OneEach, OneThreadPerGateway
<1> QED
  BY <1>1, <1>2, <1>3, PTL DEF Spec
=============================================================================
