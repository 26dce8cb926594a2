-------------------------- MODULE ControlPlaneProofs --------------------------
(***************************************************************************)
(* The control plane, for every value of the constants: any number of      *)
(* calls, any limit and window, whatever the scheduler, the crawls and     *)
(* restarts of the API process do in between.                              *)
(***************************************************************************)
EXTENDS ControlPlane, CrawlRunsProofs

(* The ledger and the crawl processes are sound under the control plane.   *)
Core == TypeInv /\ BuffersInv

LEMMA CoreRestart ==
    ASSUME Core, Restart
    PROVE  Core'
<1>1. UNCHANGED <<ledger, closed, observed, proc, captures, overlapped>> /\ calls' = {}
  BY DEF Restart
<1>2. TypeInv'
  BY <1>1 DEF Core, TypeInv, TypeOK
<1>3. IdInv'
  BY <1>1 DEF Core, BuffersInv, IdInv, Used
<1>4. BufferInv' /\ DistinctStamps' /\ StoredInv'
  BY <1>1 DEF Core, BuffersInv, BufferInv, DistinctStamps, StoredInv, Committed
<1> QED BY <1>2, <1>3, <1>4 DEF Core, BuffersInv

(* To the ledger and the crawls a step is one of CrawlRuns, or a restart.   *)
LEMMA PlaneSteps ==
    ASSUME Core, [ControlNext]_controlVars
    PROVE  [Next]_vars \/ Restart
<1>1. \A s : TriggerOne(s) => Next
  BY CrawlAssumption DEF TriggerOne, Next
<1>2. \A call \in calls : LaunchFails(call) => Next
  BY DEF Next
<1>3. ASSUME NEW call \in calls, NEW r \in call, Launch(call, r) PROVE Next
  <2>1. r \in Runs
    BY DEF Core, TypeInv, TypeOK
  <2>2. Launches(r)
    BY <1>3 DEF Launches
  <2> QED BY <2>1, <2>2 DEF Next
<1>4. TriggerAll => Next
  BY DEF Next
<1>5. ASSUME NEW h \in Requests, Serve(h) PROVE [Next]_vars
  <2>1. CASE Trigger(h)
    BY <1>1, <1>4, <2>1 DEF Trigger
  <2>2. CASE LaunchOne(h)
    BY <1>3, <2>2 DEF LaunchOne
  <2>3. CASE ~Trigger(h) /\ ~LaunchOne(h)
    BY <1>5, <2>3 DEF Serve, Look, Create, FindExpired, PopLeft, RefuseCall,
                      FindRoom, Record, TriggerRaises
  <2> QED BY <2>1, <2>2, <2>3
<1>6. \A h \in Requests : LaunchRaises(h) => Next
  BY <1>2 DEF LaunchRaises
<1>7. \A h \in Requests : Unauthorized(h) \/ Arrive(h) => UNCHANGED vars
  BY DEF Unauthorized, Arrive
<1>8. (\E s \in Sources : ScheduledCrawl(s)) \/ JobLaunches \/ JobLaunchRaises => Next
  BY <1>1, <1>2, <1>3 DEF ScheduledCrawl, JobLaunches, JobLaunchRaises
<1>9. TickOfClock \/ UNCHANGED controlVars => UNCHANGED vars
  BY DEF TickOfClock, controlVars
<1>10. CrawlSteps => Next
  BY DEF CrawlSteps, Next
<1> QED BY <1>5, <1>6, <1>7, <1>8, <1>9, <1>10 DEF ControlNext

LEMMA CoreStep == Core /\ [ControlNext]_controlVars => Core'
<1>1. Core /\ [Next]_vars => Core'
  BY Kinds, BuffersStep, BufferPast DEF Core, BuffersInv
<1> QED BY <1>1, PlaneSteps, CoreRestart

(* A process works for the source its row names ...                        *)
SourceInv ==
    \A r \in Runs : ledger[r] # Absent /\ proc[r].pc \in Live
                        => proc[r].source = ledger[r].source

(* ... and a row once opened stays, and names the same source.             *)
RowsStay ==
    \A r \in Runs : ledger[r] # Absent =>
        ledger'[r] # Absent /\ ledger'[r].source = ledger[r].source

LEMMA RowNames ==
    /\ \A s : Opened(s).source = s /\ Opened(s) # Absent
    /\ \A p : Outcome(p).source = p.source /\ Outcome(p) # Absent
<1>1. \A s : Opened(s).source = s /\ Opened(s) # Absent
  BY RowOpens
<1>2. \A p : Outcome(p).source = p.source /\ Outcome(p).status \in Terminal
  BY OutcomeFields
<1>3. Absent.status \notin Terminal
  BY DEF Absent, Terminal
<1> QED BY <1>1, <1>2, <1>3

LEMMA SourceStep ==
    ASSUME Core, SourceInv, [Next]_vars
    PROVE  SourceInv' /\ RowsStay
<1> USE RowNames
<1>1. TypeInv /\ IdInv /\ BuffersPast
  BY BufferPast DEF Core, BuffersInv
<1>2. CASE UNCHANGED vars \/ Gives
  BY <1>2 DEF vars, Gives, SourceInv, RowsStay
<1>3. ASSUME NEW n \in Nat, Opens(NextIds(n)) PROVE SourceInv' /\ RowsStay
  <2>1. \A r \in NextIds(n) : r \in Runs => ledger[r] = Absent /\ proc[r] = Idle
    BY <1>3 DEF Opens, Used
  <2>2. Idle.pc \notin Live
    BY DEF Idle, Live
  <2> QED BY <1>3, <2>1, <2>2 DEF Opens, SourceInv, RowsStay
<1>4. ASSUME NEW r \in Runs, NEW q, Moves(r, q),
             \A x \in Runs \ {r} : ledger'[x] = ledger[x],
             ledger[r] # Absent => ledger'[r] # Absent
                                   /\ ledger'[r].source = ledger[r].source,
             ledger'[r] # Absent /\ q.pc \in Live => q.source = ledger'[r].source
      PROVE  SourceInv' /\ RowsStay
  <2>1. proc'[r] = q /\ \A x \in Runs \ {r} : proc'[x] = proc[x]
    BY <1>1, <1>4, Moved
  <2>2. SourceInv'
    BY <1>4, <2>1 DEF SourceInv
  <2>3. RowsStay
    BY <1>4 DEF RowsStay
  <2> QED BY <2>2, <2>3
<1>5. ASSUME NEW r \in Runs, Goes(r) PROVE SourceInv' /\ RowsStay
  <2>1. PICK q \in Process : Moves(r, q) /\ q.source = proc[r].source
    BY <1>5 DEF Goes
  <2>2. ledger[r] # Absent => proc[r].source = ledger[r].source
    BY <1>5 DEF Goes, SourceInv
  <2>3. ledger'[r] = ledger[r] \/ ledger'[r] = Opened(proc[r].source)
    BY <1>1, <1>5 DEF Goes, Prepare, TypeInv, TypeOK
  <2> QED BY <1>4, <1>5, <2>1, <2>2, <2>3 DEF Goes
<1>6. ASSUME NEW r \in Runs, Ends(r) PROVE SourceInv' /\ RowsStay
  <2>1. PICK pc \in {"exited", "died"} : Moves(r, Gone(proc[r], pc))
    BY <1>6 DEF Ends
  <2>2. Gone(proc[r], pc).pc \notin Live
    BY GoneFields DEF Live
  <2>3. ledger[r] # Absent => proc[r].source = ledger[r].source
    BY <1>6 DEF Ends, SourceInv
  <2>4. ledger'[r] = ledger[r] \/ ledger'[r] = Outcome(proc[r])
    BY <1>1, <1>6 DEF Ends, CloseRun, TypeInv, TypeOK
  <2> QED BY <1>4, <1>6, <2>1, <2>2, <2>3, <2>4 DEF Ends
<1>7. ASSUME NEW r \in Runs, Flushes(r) \/ \E e \in Entries, a \in Prices : Keeps(r, e, a)
      PROVE  SourceInv' /\ RowsStay
  <2>1. \E q : Moves(r, q) /\ q.source = proc[r].source
    BY <1>7 DEF Flushes, Keeps
  <2>2. proc[r].pc \in Live /\ UNCHANGED ledger
    BY <1>7 DEF Flushes, Keeps, Live
  <2> QED BY <1>4, <2>1, <2>2 DEF SourceInv
<1>8. ASSUME NEW r \in Runs, NEW call \in calls, Starts(r), Launch(call, r)
      PROVE  SourceInv' /\ RowsStay
  <2>1. PICK s, owned : Moves(r, Started(s, owned))
    BY <1>8 DEF Starts
  <2>2. proc'[r] = Started(s, owned)
    BY <1>1, <2>1, Moved
  <2>3. proc'[r].source = ledger[r].source
    BY <1>1, <1>8 DEF Launch, TypeInv, TypeOK
  <2> QED BY <1>4, <1>8, <2>1, <2>2, <2>3 DEF Starts
<1>9. ASSUME NEW r \in Runs, Starts(r), r \notin Used PROVE SourceInv' /\ RowsStay
  <2>1. PICK s, owned : Moves(r, Started(s, owned))
    BY <1>9 DEF Starts
  <2>2. ledger[r] = Absent /\ UNCHANGED ledger
    BY <1>9 DEF Starts, Used
  <2> QED BY <1>4, <2>1, <2>2
<1>10. ASSUME NEW r \in Runs, Steps(r) PROVE SourceInv' /\ RowsStay
  BY <1>5, <1>6, <1>7, <1>8, <1>9, <1>10 DEF Steps
<1> QED BY <1>1, <1>2, <1>3, <1>10, Kinds

LEMMA SourceKept ==
    ASSUME Core, SourceInv, [ControlNext]_controlVars
    PROVE  SourceInv' /\ RowsStay
<1>1. CASE Restart
  BY <1>1 DEF Restart, SourceInv, RowsStay
<1> QED BY <1>1, PlaneSteps, SourceStep

-----------------------------------------------------------------------------
(***************************************************************************)
(* What a step does to the thread it is a step of.                         *)
(***************************************************************************)

Handler == [pc : {"idle", "looking", "creating", "checking", "popping",
                  "appending", "triggering", "launching", "answered"},
            body : Bodies \cup {"all"}, mine : Requests \cup {NoOne},
            at : 0..MaxTime, runs : SUBSET Runs, answer : Answers]

Turns(h, q) == handler' = [handler EXCEPT ![h] = q]

(* The thread answers: its runs are what remains of it.                    *)
Answered(h, status) ==
    [NewHandler EXCEPT !.pc = "answered", !.body = handler[h].body,
                       !.runs = handler[h].runs, !.answer = status]

LEMMA AnswersTurn ==
    ASSUME NEW h, NEW status
    PROVE  Answer(h, status) = [handler EXCEPT ![h] = Answered(h, status)]
BY DEF Answer, Answered

LEMMA AnsweredType ==
    ASSUME ControlTypeOK, NEW h \in Requests, NEW status \in Answers
    PROVE  /\ Answered(h, status) \in Handler
           /\ Answered(h, status).pc = "answered"
           /\ Answered(h, status).body = handler[h].body
           /\ Answered(h, status).runs = handler[h].runs
           /\ Answered(h, status).answer = status
<1>1. 0 \in 0..MaxTime
  BY ControlAssumption
<1> QED BY <1>1 DEF ControlTypeOK, Answered, NewHandler, Handler

LEMMA Turned ==
    ASSUME ControlTypeOK, NEW h \in Requests, NEW q, Turns(h, q)
    PROVE  /\ handler'[h] = q
           /\ \A g \in Requests \ {h} : handler'[g] = handler[g]
           /\ q \in Handler => handler' \in [Requests -> Handler]
BY DEF ControlTypeOK, Turns, Handler

(* Every variable of the control plane keeps its type.                     *)
LEMMA TypeKept ==
    ASSUME ControlTypeOK, Core, [ControlNext]_controlVars
    PROVE  ControlTypeOK'
<1>1. /\ limiter \in Requests \cup {NoOne} /\ window \in [Requests -> Seq(0..MaxTime)]
      /\ clock \in 0..MaxTime /\ jobs \subseteq Registered /\ crowded \in BOOLEAN
      /\ restarts \in 0..MaxRestarts /\ handler \in [Requests -> Handler]
  BY DEF ControlTypeOK, Handler
<1> DEFINE Sound(q) == q \in Handler
           Rest == /\ limiter' \in Requests \cup {NoOne}
                   /\ window' \in [Requests -> Seq(0..MaxTime)]
                   /\ clock' \in 0..MaxTime /\ jobs' \subseteq Registered
                   /\ crowded' \in BOOLEAN /\ restarts' \in 0..MaxRestarts
<1>2. handler' \in [Requests -> Handler] /\ Rest => ControlTypeOK'
  BY DEF ControlTypeOK, Handler
<1>3. ASSUME NEW h \in Requests, NEW q \in Handler, Turns(h, q), Rest
      PROVE  ControlTypeOK'
  BY <1>2, <1>3, Turned
<1>4. ASSUME NEW h \in Requests, NEW status \in Answers,
             handler' = Answer(h, status), Rest
      PROVE  ControlTypeOK'
  <2>1. Turns(h, Answered(h, status))
    BY <1>4, AnswersTurn DEF Turns
  <2> QED BY <1>3, <1>4, <2>1, AnsweredType
<1>5. ASSUME NEW h \in Requests, Unauthorized(h) PROVE ControlTypeOK'
  <2>1. handler' = Answer(h, "401") /\ "401" \in Answers
    BY <1>5 DEF Unauthorized, Answers
  <2>2. Rest
    BY <1>1, <1>5 DEF Unauthorized
  <2> HIDE DEF Rest
  <2> QED BY <1>4, <2>1, <2>2
<1>6. ASSUME NEW h \in Requests, NEW pc \in {"looking", "checking", "popping", "appending"},
             handler' = [handler EXCEPT ![h].pc = pc], Rest
      PROVE  ControlTypeOK'
  <2> DEFINE q == [handler[h] EXCEPT !.pc = pc]
  <2>1. q \in Handler
    BY <1>1 DEF Handler
  <2>2. Turns(h, q)
    BY <1>6 DEF Turns
  <2> HIDE DEF q, Rest
  <2> QED BY <1>3, <1>6, <2>1, <2>2
<1>7. ASSUME NEW h \in Requests, Arrive(h) PROVE ControlTypeOK'
  <2>1. handler' = [handler EXCEPT ![h].pc = "looking"]
    BY <1>7 DEF Arrive
  <2>2. Rest
    BY <1>1, <1>7 DEF Arrive
  <2> HIDE DEF Rest
  <2> QED BY <1>6, <2>1, <2>2
<1>8. ASSUME NEW h \in Requests, Look(h) \/ Create(h) PROVE ControlTypeOK'
  <2> DEFINE mine == IF limiter = NoOne THEN h ELSE limiter
             q == [handler[h] EXCEPT !.pc = "checking", !.mine = mine, !.at = clock]
             b == [handler[h] EXCEPT !.pc = "creating"]
             c == [handler[h] EXCEPT !.pc = "checking", !.mine = h, !.at = clock]
  <2>1. mine \in Requests \cup {NoOne} /\ (limiter # NoOne => mine = limiter)
    BY <1>1
  <2>2. Rest
    BY <1>1, <1>8 DEF Look, Create
  <2>3. Turns(h, b) \/ Turns(h, c) \/ Turns(h, q)
    BY <1>8, <2>1 DEF Look, Create, Turns
  <2> HIDE DEF mine
  <2>4. b \in Handler /\ c \in Handler /\ q \in Handler
    BY <1>1, <2>1 DEF Handler
  <2> HIDE DEF b, c, q, Rest
  <2> QED BY <1>3, <2>2, <2>3, <2>4
<1>9. ASSUME NEW h \in Requests, FindExpired(h) \/ FindRoom(h) PROVE ControlTypeOK'
  <2>1. \E pc \in {"popping", "appending"} : handler' = [handler EXCEPT ![h].pc = pc]
    BY <1>9 DEF FindExpired, FindRoom
  <2>2. Rest
    BY <1>1, <1>9 DEF FindExpired, FindRoom
  <2> HIDE DEF Rest
  <2> QED BY <1>6, <2>1, <2>2
<1>10. ASSUME NEW h \in Requests, PopLeft(h) PROVE ControlTypeOK'
  <2>1. CASE CallsOf(h) = <<>>
    <3>1. handler' = Answer(h, "500") /\ "500" \in Answers
      BY <1>10, <2>1 DEF PopLeft, Answers
    <3>2. Rest
      BY <1>1, <1>10, <2>1 DEF PopLeft
    <3> HIDE DEF Rest
    <3> QED BY <1>4, <3>1, <3>2
  <2>2. CASE CallsOf(h) # <<>>
    <3>1. handler' = [handler EXCEPT ![h].pc = "checking"]
      BY <1>10, <2>2 DEF PopLeft
    <3>2. window' \in [Requests -> Seq(0..MaxTime)]
      <4>1. window' = [window EXCEPT ![handler[h].mine] = Tail(window[handler[h].mine])]
        BY <1>1, <1>10, <2>2 DEF PopLeft
      <4>2. \A w \in Seq(0..MaxTime) : w # <<>> => Tail(w) \in Seq(0..MaxTime)
        BY HeadTailProperties
      <4> QED BY <1>1, <2>2, <4>1, <4>2 DEF CallsOf
    <3>3. Rest
      BY <1>1, <1>10, <3>2 DEF PopLeft
    <3> HIDE DEF Rest
    <3> QED BY <1>6, <3>1, <3>3
  <2> QED BY <2>1, <2>2
<1>11. ASSUME NEW h \in Requests, RefuseCall(h) PROVE ControlTypeOK'
  <2>1. handler' = Answer(h, "429") /\ "429" \in Answers
    BY <1>11 DEF RefuseCall, Answers
  <2>2. Rest
    BY <1>1, <1>11 DEF RefuseCall
  <2> HIDE DEF Rest
  <2> QED BY <1>4, <2>1, <2>2
<1>12. ASSUME NEW h \in Requests, NEW body \in Bodies, Record(h, body)
       PROVE  ControlTypeOK'
  <2>1. window' \in [Requests -> Seq(0..MaxTime)]
    <3>1. \A w \in Seq(0..MaxTime) : \A t \in 0..MaxTime : Append(w, t) \in Seq(0..MaxTime)
      BY AppendProperties
    <3>2. handler[h].at \in 0..MaxTime
      BY <1>1 DEF Handler
    <3> QED BY <1>1, <1>12, <3>1, <3>2 DEF Record
  <2>2. Rest
    BY <1>1, <1>12, <2>1 DEF Record
  <2>3. CASE body = "bad"
    <3>1. handler' = Answer(h, "400") /\ "400" \in Answers
      BY <1>12, <2>3 DEF Record, Answers
    <3> HIDE DEF Rest
    <3> QED BY <1>4, <2>2, <3>1
  <2>4. CASE body # "bad"
    <3> DEFINE q == [handler[h] EXCEPT !.pc = "triggering", !.body = body]
    <3>1. q \in Handler
      BY <1>1 DEF Handler
    <3>2. Turns(h, q)
      BY <1>12, <2>4 DEF Record, Turns
    <3> HIDE DEF q, Rest
    <3> QED BY <1>3, <2>2, <3>1, <3>2
  <2> QED BY <2>3, <2>4
<1>13. ASSUME NEW h \in Requests, Trigger(h) PROVE ControlTypeOK'
  <2> DEFINE q == [handler[h] EXCEPT !.pc = "launching", !.runs = RunsOpened]
  <2>1. RunsOpened \in SUBSET Runs
    <3>1. [Next]_vars
      <4>1. \A s : TriggerOne(s) => s \in Sources
        BY CrawlAssumption DEF TriggerOne
      <4> QED BY <1>13, <4>1 DEF Trigger, Next
    <3>2. TypeInv'
      BY <3>1, Kinds, BufferPast DEF Core, BuffersInv
    <3> QED BY <3>2 DEF TypeInv, TypeOK, RunsOpened
  <2>2. Turns(h, q) \/ handler' = Answer(h, "202")
    BY <1>13 DEF Trigger, Turns
  <2>3. Rest
    BY <1>1, <1>13 DEF Trigger
  <2>5. "202" \in Answers
    BY DEF Answers
  <2> HIDE DEF Rest
  <2>4. q \in Handler
    <3> DEFINE opened == RunsOpened
               b == [handler[h] EXCEPT !.pc = "launching", !.runs = opened]
    <3>1. opened \in SUBSET Runs
      BY <2>1
    <3> HIDE DEF opened
    <3>2. b \in Handler
      BY <1>1, <3>1 DEF Handler
    <3> QED BY <3>2 DEF opened
  <2> HIDE DEF q
  <2> QED BY <1>3, <1>4, <2>2, <2>3, <2>4, <2>5
<1>14. ASSUME NEW h \in Requests, TriggerRaises(h) \/ LaunchRaises(h)
       PROVE  ControlTypeOK'
  <2>1. \E status \in {"404", "500"} : handler' = Answer(h, status)
    BY <1>14 DEF TriggerRaises, LaunchRaises
  <2>2. Rest
    BY <1>1, <1>14 DEF TriggerRaises, LaunchRaises
  <2> HIDE DEF Rest
  <2> QED BY <1>4, <2>1, <2>2 DEF Answers
<1>15. ASSUME NEW h \in Requests, LaunchOne(h) PROVE ControlTypeOK'
  <2>1. handler' = handler \/ handler' = Answer(h, "202")
    BY <1>15 DEF LaunchOne, Launched
  <2>2. Rest
    BY <1>1, <1>15 DEF LaunchOne
  <2> HIDE DEF Rest
  <2> QED BY <1>1, <1>2, <1>4, <2>1, <2>2 DEF Answers
<1>16. CASE Restart
  <2>1. Rest
    <3>1. <<>> \in Seq(0..MaxTime)
      OBVIOUS
    <3>2. jobs' \subseteq Registered
      BY <1>16 DEF Restart, Jobs
    <3>3. restarts' \in 0..MaxRestarts
      BY <1>1, <1>16, ControlAssumption DEF Restart
    <3> QED BY <1>1, <1>16, <3>1, <3>2, <3>3 DEF Restart
  <2>2. \A h \in Requests : Answer(h, "lost")[h] \in Handler
    <3>1. \A h \in Requests : Answer(h, "lost")[h] = Answered(h, "lost")
      BY <1>1, AnswersTurn
    <3> QED BY <3>1, AnsweredType DEF Answers
  <2>3. handler' \in [Requests -> Handler]
    BY <1>1, <1>16, <2>2 DEF Restart
  <2> HIDE DEF Rest
  <2> QED BY <1>2, <2>1, <2>3
<1>17. CASE (\E s \in Sources : ScheduledCrawl(s)) \/ JobLaunches \/ JobLaunchRaises
            \/ CrawlSteps \/ TickOfClock \/ UNCHANGED controlVars
  <2>1. Rest /\ UNCHANGED handler
    BY <1>1, <1>17, ControlAssumption
       DEF ScheduledCrawl, JobLaunches, JobLaunchRaises, CrawlSteps, TickOfClock,
           controlVars, planeVars
  <2> HIDE DEF Rest
  <2> QED BY <1>1, <1>2, <2>1
<1> HIDE DEF Rest
<1>18. ASSUME NEW h \in Requests, Serve(h) PROVE ControlTypeOK'
  BY <1>8, <1>9, <1>10, <1>11, <1>12, <1>13, <1>14, <1>15, <1>18 DEF Serve
<1> QED BY <1>5, <1>7, <1>14, <1>16, <1>17, <1>18 DEF ControlNext

LEMMA PlaneInvariant == ControlSpec => [](ControlTypeOK /\ Core)
<1>1. ControlInit => ControlTypeOK /\ Core
  <2> SUFFICES ASSUME ControlInit PROVE ControlTypeOK /\ Core
    OBVIOUS
  <2>1. Core
    BY InitBuffers DEF ControlInit, Core
  <2>2. NewHandler \in Handler /\ <<>> \in Seq(0..MaxTime) /\ 0 \in 0..MaxTime
        /\ 0 \in 0..MaxRestarts
    BY ControlAssumption DEF NewHandler, Handler, Answers
  <2>3. jobs \subseteq Registered
    BY DEF ControlInit, Jobs
  <2> QED BY <2>1, <2>2, <2>3 DEF ControlInit, ControlTypeOK, Handler
<1>2. ControlTypeOK /\ Core /\ [ControlNext]_controlVars => ControlTypeOK' /\ Core'
  BY TypeKept, CoreStep
<1> QED BY <1>1, <1>2, PTL DEF ControlSpec

(* Every variable of the control plane keeps its type.                     *)
THEOREM ControlTypeCorrect == ControlSpec => []ControlTypeOK
BY PlaneInvariant, PTL

-----------------------------------------------------------------------------
(***************************************************************************)
(* An answer tells the truth about the runs it reports.                    *)
(***************************************************************************)

(* A thread has runs from its trigger on; while it launches, each of them  *)
(* has a process or is in the one launch list that is left of the call.    *)
RunsFit(h) ==
    /\ handler[h].pc # "answered" => handler[h].answer = "none"
    /\ handler[h].pc \notin {"launching", "answered"} => handler[h].runs = {}
    /\ handler[h].pc = "launching" =>
        /\ handler[h].runs # {}
        /\ OneEach(handler[h].runs, Targets(handler[h].body))
        /\ \A r \in handler[h].runs :
                At(r, "none") => \E call \in calls : r \in call
        /\ \A c, d \in calls : c \cap handler[h].runs # {}
                /\ d \cap handler[h].runs # {} => c = d
    /\ \A r \in handler[h].runs : ledger[r] # Absent
    /\ \A call \in calls : call \cap handler[h].runs # {}
                => call \subseteq handler[h].runs

AnswerFits(h) ==
    /\ handler[h].answer = "202" =>
        /\ OneEach(handler[h].runs, Targets(handler[h].body))
        /\ \A r \in handler[h].runs : ~At(r, "none")
    /\ handler[h].answer \in {"401", "429", "400", "404"} => handler[h].runs = {}

RunsApart ==
    \A g, h \in Requests : handler[g].runs \cap handler[h].runs # {} => g = h

RunsInv ==
    /\ {} \notin calls /\ RunsApart
    /\ \A h \in Requests : RunsFit(h) /\ AnswerFits(h)

LEMMA RunsTell == RunsInv => AnswerTrue
BY DEF RunsInv, RunsApart, AnswerFits, AnswerTrue

LEMMA CallsUsed ==
    ASSUME Core
    PROVE  \A call \in calls : call \subseteq Used
<1>1. \A r \in Runs : ledger[r].status = "running" => ledger[r] # Absent
  BY DEF Absent
<1> QED BY <1>1 DEF Core, BuffersInv, IdInv, Used, TypeInv, TypeOK

(* A trigger opens a run for every target, whose ids no one has seen.      *)
LEMMA TriggerOpens ==
    ASSUME Core, NEW targets \in SUBSET Registered, OpenRows(targets)
    PROVE  \E ids : /\ Opens(ids) /\ EachOnce(targets, ids)
                    /\ ids \notin calls \/ ids = {}
                    /\ RunsOpened = ids
<1>1. targets \subseteq Sources /\ IsFiniteSet(targets)
  BY CrawlAssumption, FS_Subset
<1> DEFINE ids == NextIds(Cardinality(targets))
<1>2. Opens(ids) /\ EachOnce(targets, ids)
  BY <1>1, TypeOpenRows DEF Core, BuffersInv
<1> HIDE DEF ids
<1>3. ids \notin calls \/ ids = {}
  BY <1>2, CallsUsed DEF Opens
<1>4. RunsOpened = ids
  BY <1>2, <1>3 DEF Opens, RunsOpened
<1> QED BY <1>2, <1>3, <1>4

(* A thread that stands still, where nothing of its runs changes.          *)
LEMMA RunsStay ==
    ASSUME RunsInv, NEW h \in Requests, handler'[h] = handler[h],
           \A r \in handler[h].runs :
                /\ ledger[r] # Absent => /\ ledger'[r] # Absent
                                         /\ ledger'[r].source = ledger[r].source
                /\ At(r, "none")' <=> At(r, "none"),
           \A call : call \cap handler[h].runs # {} =>
                (call \in calls' <=> call \in calls)
    PROVE  RunsFit(h)' /\ AnswerFits(h)'
<1>1. RunsFit(h) /\ AnswerFits(h)
  BY DEF RunsInv
<1>2. \A r \in handler[h].runs : ledger'[r] # Absent /\ ledger'[r].source = ledger[r].source
  BY <1>1 DEF RunsFit
<1>3. \A sources : OneEach(handler[h].runs, sources) => OneEach(handler[h].runs, sources)'
  BY <1>2 DEF OneEach
<1>4. AnswerFits(h)'
  BY <1>1, <1>3 DEF AnswerFits
<1>5. \A r \in handler[h].runs : At(r, "none") /\ handler[h].pc = "launching"
        => \E call \in calls' : r \in call
  BY <1>1 DEF RunsFit
<1> QED BY <1>1, <1>2, <1>3, <1>4, <1>5 DEF RunsFit

LEMMA RunsOfThread ==
    ASSUME ControlTypeOK, RunsInv, NEW h \in Requests
    PROVE  handler[h].runs \subseteq Used
BY DEF ControlTypeOK, RunsInv, RunsFit, Used

(* ... while rows are opened, a process of another call is launched, or    *)
(* another call is given up.                                               *)
LEMMA OpenAside ==
    ASSUME ControlTypeOK, RunsInv, NEW h \in Requests, handler'[h] = handler[h],
           NEW ids, Opens(ids)
    PROVE  RunsFit(h)' /\ AnswerFits(h)'
<1>1. handler[h].runs \cap ids = {}
  BY RunsOfThread DEF Opens
<1>2. handler[h].runs \subseteq Runs
  BY DEF ControlTypeOK
<1> QED BY <1>1, <1>2, RunsStay DEF Opens, At

LEMMA LaunchAside ==
    ASSUME ControlTypeOK, Core, RunsInv, NEW h \in Requests, handler'[h] = handler[h],
           NEW call \in calls, NEW r \in call, Launch(call, r),
           call \cap handler[h].runs = {}
    PROVE  RunsFit(h)' /\ AnswerFits(h)'
<1>1. handler[h].runs \subseteq Runs /\ r \notin handler[h].runs
  BY DEF ControlTypeOK
<1>2. \A x \in Runs \ {r} : proc'[x] = proc[x]
  BY DEF Launch, Core, TypeInv, TypeOK
<1>3. calls' = (calls \ {call}) \cup ({call \ {r}} \ {{}}) /\ UNCHANGED ledger
  BY DEF Launch
<1> QED BY <1>1, <1>2, <1>3, RunsStay DEF At

LEMMA FailAside ==
    ASSUME RunsInv, NEW h \in Requests, handler'[h] = handler[h],
           NEW call \in calls, LaunchFails(call), call \cap handler[h].runs = {}
    PROVE  RunsFit(h)' /\ AnswerFits(h)'
BY RunsStay DEF LaunchFails, At

(* Nothing of the ledger changes.                                          *)
LEMMA VarsAside ==
    ASSUME RunsInv, NEW h \in Requests, handler'[h] = handler[h], UNCHANGED vars
    PROVE  RunsFit(h)' /\ AnswerFits(h)'
BY RunsStay DEF vars, At

(* A thread goes on before its trigger, or answers that it has no runs.    *)
LEMMA RunsTurn ==
    ASSUME ControlTypeOK, RunsInv, NEW h \in Requests, NEW q, Turns(h, q),
           UNCHANGED vars, handler[h].pc \notin {"launching", "answered"},
           q.runs = handler[h].runs,
           \/ /\ q.pc \notin {"launching", "answered"}
              /\ q.answer = handler[h].answer
           \/ q.pc = "answered" /\ q.answer # "202"
    PROVE  RunsInv'
<1>1. handler'[h] = q /\ \A g \in Requests \ {h} : handler'[g] = handler[g]
  BY Turned
<1>2. \A g \in Requests \ {h} : RunsFit(g)' /\ AnswerFits(g)'
  BY <1>1, VarsAside
<1>3. q.runs = {} /\ (q.pc # "answered" => q.answer = "none")
  BY DEF RunsInv, RunsFit
<1>4. RunsFit(h)' /\ AnswerFits(h)'
  BY <1>1, <1>3 DEF RunsFit, AnswerFits
<1>5. RunsApart'
  BY <1>1, <1>3 DEF RunsInv, RunsApart
<1>6. UNCHANGED calls
  BY DEF vars
<1> QED BY <1>2, <1>4, <1>5, <1>6 DEF RunsInv

LEMMA RunsRefuse ==
    ASSUME ControlTypeOK, RunsInv, NEW h \in Requests, NEW status \in Answers \ {"202"},
           handler' = Answer(h, status), UNCHANGED vars,
           handler[h].pc \notin {"launching", "answered"}
    PROVE  RunsInv'
<1>1. Turns(h, Answered(h, status))
  BY AnswersTurn DEF Turns
<1> QED BY <1>1, AnsweredType, RunsTurn

LEMMA RunsServe ==
    ASSUME ControlTypeOK, RunsInv, NEW h \in Requests,
           \/ Unauthorized(h) \/ Arrive(h) \/ Look(h) \/ Create(h) \/ FindExpired(h)
           \/ PopLeft(h) \/ RefuseCall(h) \/ FindRoom(h) \/ TriggerRaises(h)
           \/ \E body \in Bodies : Record(h, body)
    PROVE  RunsInv'
<1>1. UNCHANGED vars
  BY DEF Unauthorized, Arrive, Look, Create, FindExpired, PopLeft, RefuseCall,
         FindRoom, TriggerRaises, Record
<1>2. handler[h].pc \notin {"launching", "answered"}
  BY DEF Unauthorized, Arrive, Look, Create, FindExpired, PopLeft, RefuseCall,
         FindRoom, TriggerRaises, Record, HandlerIs
<1>3. \/ \E status \in {"401", "500", "429", "400", "404"} : handler' = Answer(h, status)
      \/ \E pc \in {"looking", "creating", "checking", "popping", "appending"} :
            handler' = [handler EXCEPT ![h].pc = pc]
      \/ \E mine \in Requests \cup {NoOne} :
            handler' = [handler EXCEPT ![h].pc = "checking", ![h].mine = mine,
                                       ![h].at = clock]
      \/ \E body \in Bodies :
            handler' = [handler EXCEPT ![h].pc = "triggering", ![h].body = body]
  BY DEF Unauthorized, Arrive, Look, Create, FindExpired, PopLeft, RefuseCall,
         FindRoom, TriggerRaises, Record, ControlTypeOK
<1>4. ASSUME NEW q, Turns(h, q), q.runs = handler[h].runs,
             q.pc \notin {"launching", "answered"}, q.answer = handler[h].answer
      PROVE  RunsInv'
  BY <1>1, <1>2, <1>4, RunsTurn
<1>5. handler[h] \in Handler
  BY DEF ControlTypeOK, Handler
<1>6. CASE \E status \in {"401", "500", "429", "400", "404"} : handler' = Answer(h, status)
  BY <1>1, <1>2, <1>6, RunsRefuse DEF Answers
<1>7. ASSUME NEW pc \in {"looking", "creating", "checking", "popping", "appending"},
             handler' = [handler EXCEPT ![h].pc = pc]
      PROVE  RunsInv'
  <2> DEFINE q == [handler[h] EXCEPT !.pc = pc]
  <2>1. Turns(h, q)
    BY <1>7 DEF Turns
  <2>2. q.runs = handler[h].runs /\ q.pc = pc /\ q.answer = handler[h].answer
    BY <1>5 DEF Handler
  <2> HIDE DEF q
  <2> QED BY <1>4, <2>1, <2>2
<1>8. ASSUME NEW mine, handler' = [handler EXCEPT ![h].pc = "checking",
                                         ![h].mine = mine, ![h].at = clock]
      PROVE  RunsInv'
  <2> DEFINE q == [handler[h] EXCEPT !.pc = "checking", !.mine = mine, !.at = clock]
  <2>1. Turns(h, q)
    BY <1>8 DEF Turns
  <2>2. q.runs = handler[h].runs /\ q.pc = "checking" /\ q.answer = handler[h].answer
    BY <1>5 DEF Handler
  <2> HIDE DEF q
  <2> QED BY <1>4, <2>1, <2>2
<1>9. ASSUME NEW body, handler' = [handler EXCEPT ![h].pc = "triggering", ![h].body = body]
      PROVE  RunsInv'
  <2> DEFINE q == [handler[h] EXCEPT !.pc = "triggering", !.body = body]
  <2>1. Turns(h, q)
    BY <1>9 DEF Turns
  <2>2. q.runs = handler[h].runs /\ q.pc = "triggering" /\ q.answer = handler[h].answer
    BY <1>5 DEF Handler
  <2> HIDE DEF q
  <2> QED BY <1>4, <2>1, <2>2
<1> QED BY <1>3, <1>6, <1>7, <1>8, <1>9

LEMMA RunsTrigger ==
    ASSUME ControlTypeOK, Core, RunsInv, NEW h \in Requests, Trigger(h)
    PROVE  RunsInv'
<1>0. PICK targets \in SUBSET Registered :
            targets = Targets(handler[h].body) /\ OpenRows(targets)
  BY DEF Trigger, TriggerAll, TriggerOne, Targets
<1>1. PICK ids : /\ Opens(ids) /\ EachOnce(targets, ids)
                 /\ ids \notin calls \/ ids = {}
                 /\ RunsOpened = ids
  BY <1>0, TriggerOpens
<1>2. OneEach(ids, targets)'
  BY <1>1 DEF OneEach, EachOnce
<1>3. handler[h].pc = "triggering" /\ handler[h].runs = {} /\ handler[h].answer = "none"
  BY DEF Trigger, HandlerIs, RunsInv, RunsFit
<1>4. calls' = calls \cup ({ids} \ {{}}) /\ {} \notin calls'
  BY <1>1 DEF Opens, RunsInv
<1>5. ASSUME NEW q, Turns(h, q), q.runs = ids, q.body = handler[h].body,
             \/ q.pc = "launching" /\ q.answer = "none" /\ ids # {}
             \/ q.pc = "answered" /\ q.answer = "202" /\ ids = {}
      PROVE  RunsInv'
  <2>1. handler'[h] = q /\ \A g \in Requests \ {h} : handler'[g] = handler[g]
    BY <1>5, Turned
  <2>2. \A g \in Requests \ {h} : RunsFit(g)' /\ AnswerFits(g)'
    BY <1>1, <2>1, OpenAside
  <2>3. \A call \in calls : call \cap ids = {}
    BY <1>1, CallsUsed DEF Opens
  <2>4. \A r \in ids : ledger'[r] # Absent
    BY <1>1, RowNames DEF Opens
  <2>5. OneEach(handler[h].runs, Targets(handler[h].body))'
    <3>1. handler'[h].runs = ids /\ Targets(handler'[h].body) = targets
      BY <1>0, <1>5, <2>1
    <3> QED BY <1>2, <3>1 DEF OneEach, Targets
  <2>6. RunsFit(h)' /\ AnswerFits(h)'
    BY <1>1, <1>4, <1>5, <2>1, <2>3, <2>4, <2>5 DEF RunsFit, AnswerFits
  <2>7. RunsApart'
    <3>1. \A g \in Requests : handler[g].runs \cap ids = {}
      BY <1>1, RunsOfThread DEF Opens
    <3> QED BY <1>5, <2>1, <3>1 DEF RunsInv, RunsApart
  <2> QED BY <1>4, <2>2, <2>6, <2>7 DEF RunsInv
<1>6. CASE ids = {}
  <2>1. Turns(h, Answered(h, "202"))
    BY <1>1, <1>6, AnswersTurn DEF Trigger, Turns
  <2>2. /\ Answered(h, "202").runs = ids /\ Answered(h, "202").pc = "answered"
        /\ Answered(h, "202").answer = "202"
        /\ Answered(h, "202").body = handler[h].body
    BY <1>3, <1>6, AnsweredType DEF Answers
  <2> QED BY <1>5, <1>6, <2>1, <2>2
<1>7. CASE ids # {}
  <2> DEFINE q == [handler[h] EXCEPT !.pc = "launching", !.runs = ids]
  <2>1. Turns(h, q)
    BY <1>1, <1>7 DEF Trigger, Turns
  <2>2. /\ q.pc = "launching" /\ q.runs = ids /\ q.answer = handler[h].answer
        /\ q.body = handler[h].body
    BY DEF ControlTypeOK
  <2> HIDE DEF q
  <2> QED BY <1>3, <1>5, <1>7, <2>1, <2>2
<1> QED BY <1>6, <1>7

(* A call is launched, or given up, by the thread whose runs it holds ...  *)
LEMMA RunsLaunch ==
    ASSUME ControlTypeOK, Core, RunsInv, NEW h \in Requests, LaunchOne(h)
    PROVE  RunsInv'
<1>0. PICK call \in calls :
            \E r \in call : /\ call \subseteq handler[h].runs
                            /\ Launch(call, r) /\ Launched(h, call)
  BY DEF LaunchOne
<1>1. PICK r \in call : /\ r \in call /\ call \subseteq handler[h].runs
                        /\ Launch(call, r) /\ Launched(h, call)
  BY <1>0
<1>2. handler[h].pc = "launching" /\ r \in Runs /\ handler[h].runs \subseteq Runs
  BY <1>1 DEF LaunchOne, HandlerIs, ControlTypeOK
<1>3. /\ calls' = (calls \ {call}) \cup ({call \ {r}} \ {{}}) /\ UNCHANGED ledger
      /\ ~At(r, "none")' /\ \A x \in Runs \ {r} : proc'[x] = proc[x]
  BY <1>1, <1>2 DEF Launch, Core, TypeInv, TypeOK, At
<1>4. \A g \in Requests \ {h} : call \cap handler[g].runs = {}
  BY <1>1 DEF RunsInv, RunsApart
<1>5. RunsFit(h)
  BY DEF RunsInv
<1>6. Cardinality(call) = 1 => call = {r}
  <2>1. IsFiniteSet(call)
    <3>1. call \subseteq 1..MaxRuns
      BY <1>1 DEF Core, TypeInv, TypeOK, Runs
    <3>2. IsFiniteSet(1..MaxRuns)
      BY CrawlAssumption, FS_Interval
    <3> QED BY <3>1, <3>2, FS_Subset
  <2> QED BY <1>1, <2>1, FS_Singleton
<1>7. {} \notin calls'
  BY <1>3 DEF RunsInv
<1>8. ASSUME handler' = handler, Cardinality(call) # 1 PROVE RunsInv'
  <2>1. \A g \in Requests \ {h} : RunsFit(g)' /\ AnswerFits(g)'
    BY <1>1, <1>4, <1>8, LaunchAside
  <2>2. \A x \in handler[h].runs : At(x, "none")' => \E c \in calls' : x \in c
    <3> SUFFICES ASSUME NEW x \in handler[h].runs, At(x, "none")'
                 PROVE  \E c \in calls' : x \in c
      OBVIOUS
    <3>1. x # r /\ At(x, "none")
      BY <1>2, <1>3 DEF At
    <3>2. PICK c \in calls : x \in c
      BY <1>2, <1>5, <3>1 DEF RunsFit
    <3>3. CASE c = call
      <4>1. call \ {r} \in calls' /\ x \in call \ {r}
        BY <1>3, <3>1, <3>2, <3>3
      <4> QED BY <4>1
    <3>4. CASE c # call
      BY <1>3, <3>2, <3>4
    <3> QED BY <3>3, <3>4
  <2>3. \A c \in calls' : c \cap handler[h].runs # {} => c \subseteq handler[h].runs
    BY <1>1, <1>3, <1>5 DEF RunsFit
  <2>4. \A c, d \in calls' : c \cap handler[h].runs # {}
                /\ d \cap handler[h].runs # {} => c = d
    BY <1>1, <1>2, <1>3, <1>5 DEF RunsFit
  <2>5. OneEach(handler[h].runs, Targets(handler[h].body))'
    BY <1>2, <1>3, <1>5, <1>8 DEF RunsFit, OneEach, Targets
  <2>6. RunsFit(h)'
    BY <1>2, <1>3, <1>5, <1>8, <2>2, <2>3, <2>4, <2>5 DEF RunsFit
  <2>7. AnswerFits(h)'
    BY <1>2, <1>5, <1>8 DEF RunsFit, AnswerFits
  <2> QED BY <1>7, <1>8, <2>1, <2>6, <2>7 DEF RunsInv, RunsApart
<1>9. ASSUME handler' = Answer(h, "202"), call = {r} PROVE RunsInv'
  <2>1. Turns(h, Answered(h, "202"))
    BY <1>9, AnswersTurn DEF Turns
  <2>2. /\ handler'[h].pc = "answered" /\ handler'[h].answer = "202"
        /\ handler'[h].runs = handler[h].runs /\ handler'[h].body = handler[h].body
        /\ \A g \in Requests \ {h} : handler'[g] = handler[g]
    BY <2>1, Turned, AnsweredType DEF Answers
  <2>3. \A g \in Requests \ {h} : RunsFit(g)' /\ AnswerFits(g)'
    BY <1>1, <1>4, <2>2, LaunchAside
  <2>4. \A x \in handler[h].runs : ~At(x, "none")'
    <3> SUFFICES ASSUME NEW x \in handler[h].runs, At(x, "none")' PROVE FALSE
      OBVIOUS
    <3>1. x # r /\ At(x, "none")
      BY <1>2, <1>3 DEF At
    <3>2. PICK c \in calls : x \in c
      BY <1>2, <1>5, <3>1 DEF RunsFit
    <3>3. c = call
      BY <1>1, <1>2, <1>5, <3>2 DEF RunsFit
    <3> QED BY <1>9, <3>1, <3>2, <3>3
  <2>5. \A c \in calls' : c \cap handler[h].runs # {} => c \subseteq handler[h].runs
    BY <1>3, <1>5, <1>9 DEF RunsFit
  <2>6. RunsFit(h)' /\ AnswerFits(h)'
    BY <1>2, <1>3, <1>5, <2>2, <2>4, <2>5 DEF RunsFit, AnswerFits, OneEach
  <2>7. RunsApart'
    BY <2>2 DEF RunsInv, RunsApart
  <2> QED BY <1>7, <2>3, <2>6, <2>7 DEF RunsInv
<1> QED BY <1>1, <1>6, <1>8, <1>9 DEF Launched

LEMMA RunsRaise ==
    ASSUME ControlTypeOK, RunsInv, NEW h \in Requests, LaunchRaises(h)
    PROVE  RunsInv'
<1>1. PICK call \in calls : call \subseteq handler[h].runs /\ LaunchFails(call)
  BY DEF LaunchRaises
<1>2. Turns(h, Answered(h, "500"))
  BY AnswersTurn DEF Turns, LaunchRaises
<1>3. /\ handler'[h].pc = "answered" /\ handler'[h].answer = "500"
      /\ handler'[h].runs = handler[h].runs
      /\ \A g \in Requests \ {h} : handler'[g] = handler[g]
  BY <1>2, Turned, AnsweredType DEF Answers
<1>4. \A g \in Requests \ {h} : call \cap handler[g].runs = {}
  BY <1>1 DEF RunsInv, RunsApart
<1>5. \A g \in Requests \ {h} : RunsFit(g)' /\ AnswerFits(g)'
  BY <1>1, <1>3, <1>4, FailAside
<1>6. calls' = calls \ {call} /\ UNCHANGED ledger
  BY <1>1 DEF LaunchFails
<1>7. RunsFit(h)' /\ AnswerFits(h)'
  BY <1>3, <1>6 DEF RunsInv, RunsFit, AnswerFits
<1>8. RunsApart'
  BY <1>3 DEF RunsInv, RunsApart
<1> QED BY <1>5, <1>6, <1>7, <1>8 DEF RunsInv

(* ... or by a job, none of whose runs are those of a thread.              *)
LEMMA RunsJob ==
    ASSUME ControlTypeOK, Core, RunsInv,
           (\E s \in Sources : ScheduledCrawl(s)) \/ JobLaunches \/ JobLaunchRaises
    PROVE  RunsInv'
<1>1. UNCHANGED handler
  BY DEF ScheduledCrawl, JobLaunches, JobLaunchRaises, planeVars
<1>2. RunsApart'
  BY <1>1 DEF RunsInv, RunsApart
<1>3. ASSUME NEW call \in calls, OfJob(call), NEW h \in Requests
      PROVE  call \cap handler[h].runs = {}
  BY <1>3 DEF OfJob, RunsInv, RunsFit
<1>4. CASE \E s \in Sources : ScheduledCrawl(s)
  <2>0. PICK s : s \in Registered /\ OpenRows({s})
    BY <1>4 DEF ScheduledCrawl, TriggerOne
  <2>1. PICK ids : Opens(ids)
    BY <2>0, TriggerOpens
  <2>2. {} \notin calls'
    BY <2>1 DEF Opens, RunsInv
  <2> QED BY <1>1, <1>2, <2>1, <2>2, OpenAside DEF RunsInv
<1>5. CASE JobLaunches
  <2>0. PICK call \in calls :
            \E r \in call : r \in call /\ OfJob(call) /\ Launch(call, r)
    BY <1>5 DEF JobLaunches
  <2>1. PICK r \in call : r \in call /\ OfJob(call) /\ Launch(call, r)
    BY <2>0
  <2>2. {} \notin calls'
    BY <2>1 DEF Launch, RunsInv
  <2> QED BY <1>1, <1>2, <1>3, <2>1, <2>2, LaunchAside DEF RunsInv
<1>6. CASE JobLaunchRaises
  <2>1. PICK call \in calls : OfJob(call) /\ LaunchFails(call)
    BY <1>6 DEF JobLaunchRaises
  <2>2. {} \notin calls'
    BY <2>1 DEF LaunchFails, RunsInv
  <2> QED BY <1>1, <1>2, <1>3, <2>1, <2>2, FailAside DEF RunsInv
<1> QED BY <1>4, <1>5, <1>6

(* The crawls of a thread's runs go on.                                    *)
LEMMA RunsCrawl ==
    ASSUME ControlTypeOK, Core, RunsInv, CrawlSteps, RowsStay
    PROVE  RunsInv'
<1>1. PICK r \in Runs : Proceed(r) \/ Fault(r)
  BY DEF CrawlSteps
<1>2. TypeInv /\ BuffersPast
  BY BufferPast DEF Core, BuffersInv
<1>3. Works(r)
  BY <1>1, <1>2, TypeWorks
<1>4. UNCHANGED <<calls, handler>>
  BY <1>3 DEF Works, Goes, Ends, Flushes, Keeps, CrawlSteps, planeVars
<1>5. proc[r].pc # "none"
  BY <1>3 DEF Works, Goes, Ends, Flushes, Keeps, Live
<1>6. \E q : Moves(r, q) /\ q.pc # "none"
  <2>1. CASE Ends(r)
    BY <2>1, GoneFields DEF Ends
  <2>2. CASE Goes(r)
    BY <2>2 DEF Goes, Live
  <2>3. CASE Flushes(r) \/ \E e \in Entries, a \in Prices : Keeps(r, e, a)
    BY <2>3 DEF Flushes, Keeps
  <2> QED BY <1>3, <2>1, <2>2, <2>3 DEF Works
<1>7. proc'[r].pc # "none" /\ \A x \in Runs \ {r} : proc'[x] = proc[x]
  BY <1>2, <1>6, Moved
<1>8. \A x \in Runs : At(x, "none")' <=> At(x, "none")
  BY <1>5, <1>7 DEF At
<1>9. \A h \in Requests : handler[h].runs \subseteq Runs
  BY DEF ControlTypeOK
<1>10. \A h \in Requests : RunsFit(h)' /\ AnswerFits(h)'
  BY <1>4, <1>8, <1>9, RunsStay DEF RowsStay
<1> QED BY <1>4, <1>10 DEF RunsInv, RunsApart

LEMMA RestartTurns ==
    ASSUME ControlTypeOK, Restart, NEW h \in Requests
    PROVE  \/ handler'[h] = handler[h] /\ handler[h].pc \in {"idle", "answered"}
           \/ /\ handler'[h].pc = "answered" /\ handler'[h].answer = "lost"
              /\ handler'[h].runs = handler[h].runs
<1>1. Answer(h, "lost")[h] = Answered(h, "lost")
  BY AnswersTurn DEF ControlTypeOK
<1> QED BY <1>1, AnsweredType DEF Restart, Answers

LEMMA RunsRestart ==
    ASSUME ControlTypeOK, RunsInv, Restart
    PROVE  RunsInv'
<1>1. calls' = {} /\ UNCHANGED <<ledger, proc>>
  BY DEF Restart
<1>2. \A h \in Requests : handler'[h].runs = handler[h].runs
  BY RestartTurns
<1>3. ASSUME NEW h \in Requests PROVE RunsFit(h)' /\ AnswerFits(h)'
  <2>1. RunsFit(h) /\ AnswerFits(h)
    BY DEF RunsInv
  <2> QED BY <1>1, <1>2, <2>1, RestartTurns DEF RunsFit, AnswerFits, OneEach, At
<1>4. RunsApart'
  BY <1>2 DEF RunsInv, RunsApart
<1> QED BY <1>1, <1>3, <1>4 DEF RunsInv

LEMMA RunsStep ==
    ASSUME ControlTypeOK, Core, SourceInv, RunsInv, [ControlNext]_controlVars
    PROVE  RunsInv'
<1>1. CASE TickOfClock \/ UNCHANGED controlVars
  <2>1. UNCHANGED <<handler, ledger, proc, calls>>
    BY <1>1 DEF TickOfClock, controlVars, planeVars, vars
  <2> QED BY <2>1 DEF RunsInv, RunsApart, RunsFit, AnswerFits, OneEach, At
<1>2. \A h \in Requests : Serve(h) => RunsInv'
  BY RunsServe, RunsTrigger, RunsLaunch DEF Serve
<1>3. CrawlSteps => RunsInv'
  BY SourceKept, RunsCrawl
<1> QED BY <1>1, <1>2, <1>3, RunsServe, RunsRaise, RunsJob, RunsRestart DEF ControlNext

(* 202 tells the truth: it reports one run for every source that was asked *)
(* for, each launched and of no other call, however the crawls, the jobs   *)
(* and restarts went since; an answer that refuses leaves no row behind.   *)
(* Where the sources table is empty, a call for all reports no run.        *)
THEOREM AnswerCorrect == ControlSpec => []AnswerTrue
<1>1. ControlInit => RunsInv /\ SourceInv
  <2> SUFFICES ASSUME ControlInit PROVE RunsInv /\ SourceInv
    OBVIOUS
  <2>1. calls = {} /\ \A h \in Requests : handler[h] = NewHandler
    BY DEF ControlInit, Init
  <2>2. NewHandler.pc = "idle" /\ NewHandler.runs = {} /\ NewHandler.answer = "none"
    BY DEF NewHandler
  <2>3. RunsInv
    BY <2>1, <2>2 DEF RunsInv, RunsApart, RunsFit, AnswerFits
  <2>4. SourceInv
    BY DEF ControlInit, Init, SourceInv
  <2> QED BY <2>3, <2>4
<1>2. ControlTypeOK /\ Core /\ SourceInv /\ RunsInv /\ [ControlNext]_controlVars
        => SourceInv' /\ RunsInv'
  BY RunsStep, SourceKept
<1> QED BY <1>1, <1>2, RunsTell, PlaneInvariant, PTL DEF ControlSpec

-----------------------------------------------------------------------------
(***************************************************************************)
(* The rate limit, as long as no two threads are inside the limiter.       *)
(***************************************************************************)

Over   == {"triggering", "launching", "answered"}
Inside(h) == handler[h].pc \in {"checking", "popping", "appending"}
Calls  == window[limiter]

(* Who passed has left the limiter.                                        *)
PassedOver ==
    /\ IsFiniteSet(passed)
    /\ \A p \in passed : p.call \in Requests /\ p.at \in 0..MaxTime
                         /\ handler[p.call].pc \in Over

OneInside == \A g, h \in Requests : InLimiter(g) /\ InLimiter(h) => g = h

(* What the thread inside the limiter has seen still holds.                *)
ThreadFits(h) ==
    /\ handler[h].pc = "creating" => limiter = NoOne
    /\ Inside(h) => /\ limiter # NoOne /\ handler[h].mine = limiter
                    /\ handler[h].at <= clock
    /\ handler[h].pc = "popping" => Expired(h)
    /\ handler[h].pc = "appending" => Len(Calls) < MaxCalls

(* t is past for whoever is inside the limiter, or will be.                *)
Past(t) == t <= clock /\ \A h \in Requests : Inside(h) => t <= handler[h].at

(* The limiter lists, in order, the calls that passed, but for those that  *)
(* have expired.                                                           *)
Mirrors(f) ==
    /\ \A i, j \in 1..Len(Calls) : i < j => f[i] # f[j] /\ Calls[i] <= Calls[j]
    /\ \A i \in 1..Len(Calls) : f[i].at = Calls[i] /\ Past(Calls[i])
    /\ \A p \in passed : Past(p.at + PerSeconds) \/ \E i \in 1..Len(Calls) : f[i] = p

Mirrored == \E f \in [1..Len(Calls) -> passed] : Mirrors(f)

LimiterInv ==
    /\ OneInside /\ \A h \in Requests : ThreadFits(h)
    /\ \A h \in Requests : h # limiter => window[h] = <<>>
    /\ limiter = NoOne => passed = {}
    /\ limiter # NoOne => Mirrored

WindowInv == PassedOver /\ (~crowded => LimiterInv)

LEMMA CallsType ==
    ASSUME ControlTypeOK, limiter # NoOne
    PROVE  /\ limiter \in Requests /\ Calls \in Seq(0..MaxTime) /\ Len(Calls) \in Nat
           /\ \A i \in 1..Len(Calls) : Calls[i] \in 0..MaxTime
<1>1. limiter \in Requests /\ Calls \in Seq(0..MaxTime)
  BY DEF ControlTypeOK, Calls
<1> QED BY <1>1, LenProperties, ElementOfSeq

(* The steps that touch neither the limiter nor who is inside it.          *)
LEMMA LimiterStay ==
    ASSUME ControlTypeOK, PassedOver, LimiterInv,
           UNCHANGED <<limiter, window, passed>>,
           clock' \in Int, clock <= clock',
           \A h \in Requests : InLimiter(h)' => handler'[h] = handler[h]
    PROVE  LimiterInv'
<1>1. \A h \in Requests : InLimiter(h)' => InLimiter(h)
  BY DEF InLimiter
<1>2. \A h \in Requests : Inside(h)' => Inside(h) /\ handler'[h] = handler[h]
  BY DEF InLimiter, Inside
<1>3. OneInside'
  BY <1>1 DEF LimiterInv, OneInside
<1>4. ASSUME NEW h \in Requests PROVE ThreadFits(h)'
  <2>1. CASE ~InLimiter(h)'
    BY <2>1 DEF ThreadFits, Inside, InLimiter
  <2>2. CASE InLimiter(h)'
    <3>1. handler'[h] = handler[h] /\ ThreadFits(h)
      BY <2>2 DEF LimiterInv
    <3>2. handler[h].at \in Int /\ clock \in Int
      BY DEF ControlTypeOK
    <3>3. Inside(h)' => handler'[h].at <= clock'
      BY <1>2, <3>1, <3>2 DEF ThreadFits
    <3> QED BY <3>1, <3>3 DEF ThreadFits, Inside, Calls, Expired, CallsOf
  <2> QED BY <2>1, <2>2
<1>5. ASSUME NEW t \in Int, Past(t) PROVE Past(t)'
  <2>1. clock \in Int
    BY DEF ControlTypeOK
  <2> QED BY <1>2, <1>5, <2>1 DEF Past
<1>6. limiter # NoOne => Mirrored'
  <2> SUFFICES ASSUME limiter # NoOne PROVE Mirrored'
    OBVIOUS
  <2>1. PICK f \in [1..Len(Calls) -> passed] : Mirrors(f)
    BY DEF LimiterInv, Mirrored
  <2>2. Calls' = Calls /\ \A i \in 1..Len(Calls) : Calls[i] \in Int
    BY CallsType DEF Calls
  <2>3. \A p \in passed : p.at + PerSeconds \in Int
    BY ControlAssumption DEF PassedOver
  <2>4. Mirrors(f)'
    BY <1>5, <2>1, <2>2, <2>3 DEF Mirrors
  <2> QED BY <2>1, <2>2, <2>4 DEF Mirrored
<1> QED BY <1>3, <1>4, <1>6 DEF LimiterInv

(* A step of the one thread inside the limiter.                            *)
LEMMA LimiterTurn ==
    ASSUME OneInside, NEW h \in Requests,
           InLimiter(h) \/ \A g \in Requests : ~InLimiter(g),
           \A g \in Requests \ {h} : handler'[g] = handler[g]
    PROVE  /\ \A g \in Requests \ {h} : ~InLimiter(g)' /\ ~Inside(g)' /\ ThreadFits(g)'
           /\ OneInside'
<1>1. \A g \in Requests \ {h} : ~InLimiter(g)
  BY DEF OneInside
<1>2. \A g \in Requests \ {h} : ~InLimiter(g)'
  BY <1>1 DEF InLimiter
<1>3. \A g \in Requests \ {h} : ~Inside(g)' /\ ThreadFits(g)'
  BY <1>2 DEF InLimiter, Inside, ThreadFits
<1>4. OneInside'
  BY <1>2 DEF OneInside
<1> QED BY <1>2, <1>3, <1>4

(* ... that leaves the list as it is and holds no time before another.     *)
LEMMA MirrorStay ==
    ASSUME ControlTypeOK, PassedOver, Mirrored, limiter # NoOne,
           UNCHANGED <<limiter, window, passed, clock>>,
           \A h \in Requests : Inside(h)' =>
                \/ handler'[h].at = clock
                \/ Inside(h) /\ handler'[h].at = handler[h].at
    PROVE  Mirrored'
<1>1. PICK f \in [1..Len(Calls) -> passed] : Mirrors(f)
  BY DEF Mirrored
<1>2. Calls' = Calls /\ \A i \in 1..Len(Calls) : Calls[i] \in Int
  BY CallsType DEF Calls
<1>3. \A p \in passed : p.at + PerSeconds \in Int
  BY ControlAssumption DEF PassedOver
<1>4. \A t \in Int : Past(t) => Past(t)'
  BY DEF Past
<1>5. Mirrors(f)'
  BY <1>1, <1>2, <1>3, <1>4 DEF Mirrors
<1> QED BY <1>1, <1>2, <1>5 DEF Mirrored

LEMMA LimiterArrive ==
    ASSUME ControlTypeOK, PassedOver, LimiterInv, NEW h \in Requests, Arrive(h),
           ~crowded'
    PROVE  LimiterInv'
<1>1. /\ handler'[h].pc = "looking"
      /\ \A g \in Requests \ {h} : handler'[g] = handler[g]
      /\ \A g \in Requests : ~InLimiter(g)
      /\ UNCHANGED <<limiter, window, passed, clock>>
  BY DEF Arrive, ControlTypeOK
<1>2. OneInside' /\ \A g \in Requests \ {h} : ThreadFits(g)' /\ ~Inside(g)'
  BY <1>1, LimiterTurn DEF LimiterInv
<1>3. ThreadFits(h)' /\ ~Inside(h)'
  BY <1>1 DEF ThreadFits, Inside
<1>4. limiter # NoOne => Mirrored'
  BY <1>1, <1>2, <1>3, MirrorStay DEF LimiterInv
<1> QED BY <1>1, <1>2, <1>3, <1>4 DEF LimiterInv

LEMMA LimiterLook ==
    ASSUME ControlTypeOK, PassedOver, LimiterInv, NEW h \in Requests, Look(h)
    PROVE  LimiterInv'
<1>1. /\ \/ limiter = NoOne /\ handler'[h].pc = "creating"
         \/ /\ limiter # NoOne /\ handler'[h].pc = "checking"
            /\ handler'[h].mine = limiter /\ handler'[h].at = clock
      /\ \A g \in Requests \ {h} : handler'[g] = handler[g]
      /\ InLimiter(h)
      /\ UNCHANGED <<limiter, window, passed, clock>>
  BY DEF Look, HandlerIs, InLimiter, ControlTypeOK
<1>2. OneInside' /\ \A g \in Requests \ {h} : ThreadFits(g)' /\ ~Inside(g)'
  BY <1>1, LimiterTurn DEF LimiterInv
<1>3. ThreadFits(h)'
  BY <1>1 DEF ThreadFits, Inside, ControlTypeOK
<1>4. limiter # NoOne => Mirrored'
  <2>1. \A g \in Requests : Inside(g)' => handler'[g].at = clock
    BY <1>1, <1>2 DEF Inside
  <2>2. limiter # NoOne => Mirrored
    BY DEF LimiterInv
  <2>3. UNCHANGED <<limiter, window, passed, clock>>
    BY <1>1
  <2> QED BY <2>1, <2>2, <2>3, MirrorStay
<1> QED BY <1>1, <1>2, <1>3, <1>4 DEF LimiterInv

(* A limiter is built only where there is none, and no call has passed.    *)
LEMMA LimiterCreate ==
    ASSUME ControlTypeOK, PassedOver, LimiterInv, NEW h \in Requests, Create(h)
    PROVE  LimiterInv'
<1>1. /\ limiter' = h /\ handler'[h].pc = "checking" /\ handler'[h].mine = h
      /\ handler'[h].at = clock
      /\ \A g \in Requests \ {h} : handler'[g] = handler[g]
      /\ InLimiter(h) /\ handler[h].pc = "creating"
      /\ UNCHANGED <<window, passed, clock>>
  BY DEF Create, HandlerIs, InLimiter, ControlTypeOK
<1>2. OneInside' /\ \A g \in Requests \ {h} : ThreadFits(g)' /\ ~Inside(g)'
  BY <1>1, LimiterTurn DEF LimiterInv
<1>3. h # NoOne /\ limiter = NoOne /\ passed = {}
  BY <1>1, ControlAssumption DEF LimiterInv, ThreadFits
<1>4. \A g \in Requests : window[g] = <<>>
  BY <1>3, ControlAssumption DEF LimiterInv
<1>5. ThreadFits(h)'
  BY <1>1, <1>3 DEF ThreadFits, Inside, ControlTypeOK
<1>6. Mirrored'
  <2>1. Calls' = <<>> /\ Len(Calls') = 0
    BY <1>1, <1>4, EmptySeq DEF Calls
  <2> DEFINE f == [i \in 1..0 |-> 0]
  <2>2. f \in [1..0 -> passed]
    OBVIOUS
  <2> HIDE DEF f
  <2>3. Mirrors(f)'
    BY <1>1, <1>3, <2>1 DEF Mirrors
  <2>4. f \in [1..Len(Calls') -> passed']
    BY <1>1, <2>1, <2>2
  <2> QED BY <2>3, <2>4 DEF Mirrored
<1> QED BY <1>1, <1>2, <1>3, <1>4, <1>5, <1>6 DEF LimiterInv

LEMMA LimiterFind ==
    ASSUME ControlTypeOK, PassedOver, LimiterInv, NEW h \in Requests,
           FindExpired(h) \/ FindRoom(h)
    PROVE  LimiterInv'
<1>1. /\ \/ handler'[h].pc = "popping" /\ Expired(h)
         \/ handler'[h].pc = "appending" /\ Len(CallsOf(h)) < MaxCalls
      /\ handler'[h].mine = handler[h].mine /\ handler'[h].at = handler[h].at
      /\ \A g \in Requests \ {h} : handler'[g] = handler[g]
      /\ InLimiter(h) /\ Inside(h)
      /\ UNCHANGED <<limiter, window, passed, clock>>
  BY DEF FindExpired, FindRoom, HandlerIs, InLimiter, Inside, ControlTypeOK
<1>2. OneInside' /\ \A g \in Requests \ {h} : ThreadFits(g)' /\ ~Inside(g)'
  BY <1>1, LimiterTurn DEF LimiterInv
<1>3. limiter # NoOne /\ handler[h].mine = limiter /\ handler[h].at <= clock
  BY <1>1 DEF LimiterInv, ThreadFits
<1>4. ThreadFits(h)'
  BY <1>1, <1>3 DEF ThreadFits, Inside, Expired, CallsOf, Calls
<1>5. Mirrored'
  BY <1>1, <1>2, <1>3, MirrorStay DEF LimiterInv
<1> QED BY <1>1, <1>2, <1>3, <1>4, <1>5 DEF LimiterInv

(* The first call is popped: it has expired for good.                      *)
LEMMA LimiterPop ==
    ASSUME ControlTypeOK, PassedOver, LimiterInv, NEW h \in Requests, PopLeft(h)
    PROVE  LimiterInv'
<1>1. /\ InLimiter(h) /\ Inside(h) /\ handler[h].pc = "popping"
      /\ UNCHANGED <<limiter, passed, clock>>
  BY DEF PopLeft, HandlerIs, InLimiter, Inside
<1>2. /\ limiter # NoOne /\ handler[h].mine = limiter /\ handler[h].at <= clock
      /\ Expired(h)
  BY <1>1 DEF LimiterInv, ThreadFits
<1>3. /\ CallsOf(h) = Calls /\ Calls # <<>>
      /\ handler[h].at - Head(Calls) >= PerSeconds
  BY <1>2 DEF CallsOf, Calls, Expired
<1> DEFINE n == Len(Calls)
<1>4. /\ limiter \in Requests /\ n \in Nat /\ n >= 1 /\ Head(Calls) = Calls[1]
      /\ Calls \in Seq(0..MaxTime)
  BY <1>2, <1>3, CallsType, EmptySeq
<1>5. /\ handler'[h].pc = "checking" /\ handler'[h].mine = limiter
      /\ handler'[h].at = handler[h].at
      /\ \A g \in Requests \ {h} : handler'[g] = handler[g]
      /\ Calls' = Tail(Calls)
      /\ \A g \in Requests : g # limiter => window'[g] = window[g]
  BY <1>1, <1>2, <1>3, <1>4 DEF PopLeft, ControlTypeOK, Calls, CallsOf
<1>6. /\ Len(Calls') = n - 1
      /\ \A i \in 1..(n - 1) : Calls'[i] = Calls[i + 1]
  BY <1>3, <1>4, <1>5, HeadTailProperties
<1>7. OneInside' /\ \A g \in Requests \ {h} : ThreadFits(g)' /\ ~Inside(g)'
  BY <1>1, <1>5, LimiterTurn DEF LimiterInv
<1>8. ThreadFits(h)'
  BY <1>1, <1>2, <1>5 DEF ThreadFits, Inside
<1>9. Mirrored'
  <2>1. PICK f \in [1..n -> passed] : Mirrors(f)
    BY <1>2 DEF LimiterInv, Mirrored
  <2>2. PICK m \in Nat : m = n
    BY <1>4
  <2>3. PICK k \in [1..(m - 1) -> passed] : \A i \in 1..(m - 1) : k[i] = f[i + 1]
    <3> DEFINE k == [i \in 1..(m - 1) |-> f[i + 1]]
    <3>1. \A i \in 1..(m - 1) : i + 1 \in 1..n
      BY <2>2
    <3>2. k \in [1..(m - 1) -> passed]
      BY <3>1
    <3> QED BY <3>2
  <2>4. \A t \in Int : Past(t) => Past(t)'
    BY <1>1, <1>5, <1>7 DEF Past, Inside
  <2>5. Past(f[1].at + PerSeconds)'
    <3>1. f[1].at = Calls[1] /\ Calls[1] \in Int /\ handler[h].at \in Int
      BY <1>2, <1>4, <2>1, CallsType DEF Mirrors, ControlTypeOK
    <3>2. f[1].at + PerSeconds <= handler[h].at /\ f[1].at + PerSeconds <= clock
      BY <1>2, <1>3, <1>4, <3>1, ControlAssumption DEF ControlTypeOK
    <3> QED BY <1>1, <1>5, <1>7, <3>2 DEF Past
  <2>6. ASSUME NEW i \in 1..(m - 1)
        PROVE  /\ i + 1 \in 1..n /\ Calls'[i] = Calls[i + 1] /\ k[i] = f[i + 1]
               /\ Calls[i + 1] \in Int
    BY <1>2, <1>6, <2>2, <2>3, <2>6, CallsType
  <2>7. \A i, j \in 1..(m - 1) : i < j => k[i] # k[j] /\ Calls'[i] <= Calls'[j]
    BY <2>1, <2>6 DEF Mirrors
  <2>8. \A i \in 1..(m - 1) : k[i].at = Calls'[i]
    BY <2>1, <2>6 DEF Mirrors
  <2>9. ASSUME NEW p \in passed
        PROVE  Past(p.at + PerSeconds)' \/ \E i \in 1..(m - 1) : k[i] = p
    <3>1. p.at + PerSeconds \in Int
      BY ControlAssumption DEF PassedOver
    <3>2. CASE Past(p.at + PerSeconds)
      BY <2>4, <3>1, <3>2
    <3>3. ASSUME NEW i \in 1..n, f[i] = p
          PROVE  Past(p.at + PerSeconds)' \/ \E x \in 1..(m - 1) : k[x] = p
      <4>1. CASE i = 1
        BY <2>5, <3>3, <4>1
      <4>2. CASE i # 1
        <5>1. i - 1 \in 1..(m - 1) /\ (i - 1) + 1 = i
          BY <1>4, <2>2, <4>2
        <5>2. k[i - 1] = p
          BY <2>3, <3>3, <5>1
        <5> QED BY <5>1, <5>2
      <4> QED BY <4>1, <4>2
    <3> QED BY <2>1, <3>2, <3>3 DEF Mirrors
  <2>10. Len(Calls') = m - 1
    BY <1>6, <2>2
  <2>11. ASSUME NEW i \in 1..(m - 1) PROVE Past(Calls[i])'
    <3>1. PICK t \in Int : t = Calls[i + 1]
      BY <2>6
    <3>2. Past(t)' /\ Calls'[i] = t
      BY <2>1, <2>4, <2>6, <3>1 DEF Mirrors
    <3> QED BY <3>2 DEF Past
  <2>12. Mirrors(k)'
    BY <1>1, <2>7, <2>8, <2>9, <2>10, <2>11 DEF Mirrors
  <2> QED BY <1>1, <2>10, <2>12 DEF Mirrored
<1>10. \A g \in Requests : g # limiter' => window'[g] = <<>>
  BY <1>1, <1>5 DEF LimiterInv
<1> QED BY <1>1, <1>2, <1>7, <1>8, <1>9, <1>10 DEF LimiterInv

(* A call is recorded: it did not pass before, and no one passed later.    *)
LEMMA RecordFields ==
    ASSUME ControlTypeOK, NEW h \in Requests, NEW body \in Bodies, Record(h, body)
    PROVE  /\ handler'[h].pc \in Over
           /\ \A g \in Requests \ {h} : handler'[g] = handler[g]
           /\ passed' = passed \cup {[call |-> h, at |-> handler[h].at]}
           /\ UNCHANGED <<limiter, clock>>
<1>1. CASE body = "bad"
  <2>1. Turns(h, Answered(h, "400"))
    BY <1>1, AnswersTurn DEF Record, Turns
  <2>2. handler'[h].pc = "answered" /\ \A g \in Requests \ {h} : handler'[g] = handler[g]
    BY <2>1, Turned, AnsweredType DEF Answers
  <2> QED BY <2>2 DEF Record, Over
<1>2. CASE body # "bad"
  BY <1>2 DEF Record, Over, ControlTypeOK
<1> QED BY <1>1, <1>2

LEMMA LimiterRecord ==
    ASSUME ControlTypeOK, PassedOver, LimiterInv, NEW h \in Requests,
           NEW body \in Bodies, Record(h, body)
    PROVE  LimiterInv'
<1>1. /\ handler'[h].pc \in Over
      /\ \A g \in Requests \ {h} : handler'[g] = handler[g]
      /\ passed' = passed \cup {[call |-> h, at |-> handler[h].at]}
      /\ UNCHANGED <<limiter, clock>>
  BY RecordFields
<1>2. /\ InLimiter(h) /\ Inside(h) /\ handler[h].pc = "appending"
      /\ window' = [window EXCEPT ![handler[h].mine] =
                        Append(window[handler[h].mine], handler[h].at)]
  BY DEF Record, HandlerIs, InLimiter, Inside
<1>3. limiter # NoOne /\ handler[h].mine = limiter /\ handler[h].at <= clock
  BY <1>2 DEF LimiterInv, ThreadFits
<1> DEFINE n == Len(Calls)
           at == handler[h].at
<1>4. /\ limiter \in Requests /\ n \in Nat /\ Calls \in Seq(0..MaxTime)
      /\ at \in 0..MaxTime /\ clock \in Int
  BY <1>3, CallsType DEF ControlTypeOK
<1>5. /\ Calls' = Append(Calls, at)
      /\ \A g \in Requests : g # limiter => window'[g] = window[g]
  BY <1>1, <1>2, <1>3, <1>4 DEF Calls, ControlTypeOK
<1>6. /\ Len(Calls') = n + 1 /\ Calls'[n + 1] = at
      /\ \A i \in 1..n : Calls'[i] = Calls[i]
  BY <1>4, <1>5, AppendProperties
<1>7. /\ OneInside' /\ \A g \in Requests \ {h} : ThreadFits(g)' /\ ~Inside(g)'
      /\ ~Inside(h)' /\ ThreadFits(h)'
  <2>1. ~Inside(h)' /\ ThreadFits(h)'
    BY <1>1 DEF Over, Inside, ThreadFits
  <2> QED BY <1>1, <1>2, <2>1, LimiterTurn DEF LimiterInv
<1>8. Mirrored'
  <2>1. PICK f \in [1..n -> passed] : Mirrors(f)
    BY <1>3 DEF LimiterInv, Mirrored
  <2>2. PICK m \in Nat : m = n
    BY <1>4
  <2>0. PICK a \in Int : a = handler[h].at
    BY <1>4
  <2>3. PICK call : a = handler[h].at /\ call = [call |-> h, at |-> a]
    BY <2>0
  <2>4. /\ passed' = passed \cup {call} /\ call.at = a
        /\ call \notin passed
    BY <1>1, <1>2, <2>3 DEF PassedOver, Over
  <2>5. PICK k \in [1..(m + 1) -> passed'] :
            k[m + 1] = call /\ \A i \in 1..m : k[i] = f[i]
    <3> DEFINE k == [i \in 1..(m + 1) |-> IF i = m + 1 THEN call ELSE f[i]]
    <3>1. \A i \in 1..(m + 1) : i = m + 1 \/ i \in 1..n
      BY <2>2
    <3>2. k \in [1..(m + 1) -> passed']
      BY <2>4, <3>1
    <3>3. k[m + 1] = call /\ \A i \in 1..m : k[i] = f[i]
      OBVIOUS
    <3> QED BY <3>2, <3>3
  <2>6. \A t \in Int : Past(t) => Past(t)' /\ t <= a
    BY <1>1, <1>2, <1>7, <2>3 DEF Past
  <2>7. Past(a)'
    BY <1>1, <1>3, <1>7, <2>3 DEF Past
  <2>8. ASSUME NEW i \in 1..m
        PROVE  /\ k[i] = f[i] /\ f[i] \in passed /\ Calls'[i] = Calls[i]
               /\ Calls[i] \in Int /\ f[i].at = Calls[i] /\ Past(Calls[i])
    <3>1. i \in 1..n
      BY <2>2
    <3>2. k[i] = f[i]
      BY <2>5
    <3>3. f[i] \in passed
      BY <2>1, <3>1
    <3>4. Calls'[i] = Calls[i] /\ Calls[i] \in Int
      BY <1>3, <1>6, <3>1, CallsType
    <3>5. f[i].at = Calls[i] /\ Past(Calls[i])
      BY <2>1, <3>1 DEF Mirrors
    <3> QED BY <3>2, <3>3, <3>4, <3>5
  <2>9. ASSUME NEW i \in 1..(m + 1)
        PROVE  k[i].at = Calls'[i] /\ Past(Calls[i])'
    <3>1. CASE i = m + 1
      <4>1. k[i].at = a /\ Calls'[i] = a
        BY <1>6, <2>2, <2>3, <2>4, <2>5, <3>1
      <4> QED BY <2>7, <4>1 DEF Past
    <3>2. CASE i \in 1..m
      <4>1. PICK t \in Int : t = Calls[i] /\ Calls'[i] = t /\ Past(t)
        BY <2>8, <3>2
      <4>2. Past(t)'
        BY <2>6, <4>1
      <4> QED BY <2>8, <3>2, <4>1, <4>2 DEF Past
    <3> QED BY <3>1, <3>2
  <2>10. ASSUME NEW i \in 1..(m + 1), NEW j \in 1..(m + 1), i < j
         PROVE  k[i] # k[j] /\ Calls'[i] <= Calls'[j]
    <3>1. i \in 1..m
      BY <2>10
    <3>2. CASE j = m + 1
      <4>1. k[j] = call /\ Calls'[j] = a
        BY <1>6, <2>2, <2>3, <2>5, <3>2
      <4>2. k[i] # call
        BY <2>4, <2>8, <3>1
      <4>3. Calls'[i] <= a
        <5>1. PICK t \in Int : t = Calls[i] /\ Past(t)
          BY <2>8, <3>1
        <5> QED BY <2>6, <2>8, <3>1, <5>1
      <4> QED BY <4>1, <4>2, <4>3
    <3>3. CASE j \in 1..m
      <4>1. i \in 1..n /\ j \in 1..n
        BY <2>2, <3>1, <3>3
      <4>2. f[i] # f[j] /\ Calls[i] <= Calls[j]
        BY <2>1, <2>10, <4>1 DEF Mirrors
      <4> QED BY <2>8, <3>1, <3>3, <4>2
    <3> QED BY <3>2, <3>3
  <2>11. ASSUME NEW p \in passed'
         PROVE  Past(p.at + PerSeconds)' \/ \E i \in 1..(m + 1) : k[i] = p
    <3>1. CASE p = call
      BY <2>5, <3>1
    <3>2. CASE p \in passed
      <4>1. p.at + PerSeconds \in Int
        BY <3>2, ControlAssumption DEF PassedOver
      <4>2. CASE Past(p.at + PerSeconds)
        BY <2>6, <4>1, <4>2
      <4>3. ASSUME NEW i \in 1..n, f[i] = p
            PROVE  \E x \in 1..(m + 1) : k[x] = p
        BY <2>2, <2>5, <4>3
      <4> QED BY <2>1, <3>2, <4>2, <4>3 DEF Mirrors
    <3> QED BY <2>4, <3>1, <3>2
  <2>12. Len(Calls') = m + 1
    BY <1>6, <2>2
  <2>13. Mirrors(k)'
    BY <2>9, <2>10, <2>11, <2>12 DEF Mirrors
  <2> QED BY <2>12, <2>13 DEF Mirrored
<1>9. \A g \in Requests : g # limiter' => window'[g] = <<>>
  BY <1>1, <1>5 DEF LimiterInv
<1> QED BY <1>1, <1>3, <1>7, <1>8, <1>9 DEF LimiterInv

(* A restart empties every limiter and leaves no thread inside one.        *)
LEMMA LimiterRestart ==
    ASSUME ControlTypeOK, Restart
    PROVE  PassedOver' /\ LimiterInv'
<1>1. limiter' = NoOne /\ passed' = {} /\ \A h \in Requests : window'[h] = <<>>
  BY DEF Restart
<1>2. \A h \in Requests : handler'[h].pc \in {"idle", "answered"}
  BY RestartTurns
<1>3. \A h \in Requests : ~InLimiter(h)' /\ ~Inside(h)' /\ ThreadFits(h)'
  BY <1>2 DEF InLimiter, Inside, ThreadFits
<1>4. PassedOver'
  BY <1>1, FS_EmptySet DEF PassedOver
<1>5. OneInside'
  BY <1>3 DEF OneInside
<1> QED BY <1>1, <1>3, <1>4, <1>5 DEF LimiterInv

(* A thread that is behind the limiter stays behind it.                    *)
LEMMA PassedTurn ==
    ASSUME PassedOver, NEW h \in Requests, passed' = passed,
           \A g \in Requests \ {h} : handler'[g] = handler[g],
           handler[h].pc \notin Over \/ handler'[h].pc \in Over
    PROVE  PassedOver'
BY DEF PassedOver

(* A step of a thread that is then behind the limiter.                     *)
LEMMA WindowBehind ==
    ASSUME ControlTypeOK, WindowInv, NEW h \in Requests,
           UNCHANGED <<limiter, window, passed, clock, crowded>>,
           \A g \in Requests \ {h} : handler'[g] = handler[g],
           handler'[h].pc \in Over
    PROVE  WindowInv'
<1>1. PassedOver'
  BY PassedTurn DEF WindowInv
<1>2. \A g \in Requests : InLimiter(g)' => handler'[g] = handler[g]
  BY DEF InLimiter, Over
<1>3. clock' \in Int /\ clock <= clock'
  BY DEF ControlTypeOK
<1>4. UNCHANGED <<limiter, window, passed>>
  OBVIOUS
<1>5. ~crowded' => LimiterInv'
  BY <1>2, <1>3, <1>4, LimiterStay DEF WindowInv
<1> QED BY <1>1, <1>5 DEF WindowInv

LEMMA WindowAnswered ==
    ASSUME ControlTypeOK, WindowInv, NEW h \in Requests, NEW status \in Answers,
           UNCHANGED <<limiter, window, passed, clock, crowded>>,
           handler' = Answer(h, status)
    PROVE  WindowInv'
<1>1. Turns(h, Answered(h, status))
  BY AnswersTurn DEF Turns
<1>2. /\ \A g \in Requests \ {h} : handler'[g] = handler[g]
      /\ handler'[h].pc \in Over
  BY <1>1, Turned, AnsweredType DEF Over
<1> QED BY <1>2, WindowBehind

(* A step of a thread that stays in front of the limiter or inside it.     *)
LEMMA WindowServe ==
    ASSUME ControlTypeOK, WindowInv, NEW h \in Requests,
           \/ Look(h) \/ Create(h) \/ FindExpired(h) \/ FindRoom(h)
           \/ PopLeft(h) /\ CallsOf(h) # <<>>
    PROVE  WindowInv'
<1>1. passed' = passed /\ crowded' = crowded
  BY DEF Look, Create, FindExpired, FindRoom, PopLeft
<1>2. handler[h].pc \notin Over
  BY DEF Look, Create, FindExpired, FindRoom, PopLeft, HandlerIs, Over
<1>3. \A g \in Requests \ {h} : handler'[g] = handler[g]
  BY DEF Look, Create, FindExpired, FindRoom, PopLeft, ControlTypeOK
<1>4. PassedOver'
  BY <1>1, <1>2, <1>3, PassedTurn DEF WindowInv
<1>5. ~crowded' => LimiterInv'
  BY <1>1, LimiterLook, LimiterCreate, LimiterFind, LimiterPop DEF WindowInv
<1> QED BY <1>4, <1>5 DEF WindowInv

LEMMA WindowArrive ==
    ASSUME ControlTypeOK, WindowInv, NEW h \in Requests, Arrive(h)
    PROVE  WindowInv'
<1>1. /\ passed' = passed /\ (crowded => crowded') /\ handler[h].pc \notin Over
      /\ \A g \in Requests \ {h} : handler'[g] = handler[g]
  BY DEF Arrive, HandlerIs, Over, ControlTypeOK
<1>2. PassedOver'
  BY <1>1, PassedTurn DEF WindowInv
<1>3. ~crowded' => LimiterInv'
  BY <1>1, LimiterArrive DEF WindowInv
<1> QED BY <1>2, <1>3 DEF WindowInv

LEMMA WindowRecord ==
    ASSUME ControlTypeOK, WindowInv, NEW h \in Requests, NEW body \in Bodies,
           Record(h, body)
    PROVE  WindowInv'
<1>1. PICK call : call = [call |-> h, at |-> handler[h].at]
  OBVIOUS
<1>2. call.call \in Requests /\ call.at \in 0..MaxTime /\ call.call = h
  BY <1>1 DEF ControlTypeOK
<1>3. /\ handler'[h].pc \in Over /\ passed' = passed \cup {call}
      /\ \A g \in Requests \ {h} : handler'[g] = handler[g]
  BY <1>1, RecordFields
<1>4. PassedOver'
  <2>1. IsFiniteSet(passed')
    BY <1>3, FS_AddElement DEF WindowInv, PassedOver
  <2> QED BY <1>2, <1>3, <2>1 DEF WindowInv, PassedOver
<1>5. crowded' = crowded
  BY DEF Record
<1>6. ~crowded' => LimiterInv'
  BY <1>5, LimiterRecord DEF WindowInv
<1> QED BY <1>4, <1>6 DEF WindowInv

(* The steps of jobs, of crawls and of the clock.                          *)
LEMMA WindowAside ==
    ASSUME ControlTypeOK, WindowInv,
           UNCHANGED <<handler, limiter, window, passed, crowded>>,
           clock' \in Int, clock <= clock'
    PROVE  WindowInv'
<1>1. PassedOver'
  BY DEF WindowInv, PassedOver
<1>2. UNCHANGED <<limiter, window, passed>> /\ \A g \in Requests : handler'[g] = handler[g]
  OBVIOUS
<1>3. ~crowded' => LimiterInv'
  BY <1>2, LimiterStay DEF WindowInv
<1> QED BY <1>1, <1>3 DEF WindowInv

LEMMA WindowStep ==
    ASSUME ControlTypeOK, WindowInv, [ControlNext]_controlVars
    PROVE  WindowInv'
<1>1. ASSUME NEW h \in Requests, Unauthorized(h) PROVE WindowInv'
  BY <1>1, WindowAnswered DEF Unauthorized, Answers
<1>2. ASSUME NEW h \in Requests, RefuseCall(h) PROVE WindowInv'
  BY <1>2, WindowAnswered DEF RefuseCall, Answers
<1>3. ASSUME NEW h \in Requests, PopLeft(h) PROVE WindowInv'
  <2>1. CASE CallsOf(h) = <<>>
    BY <1>3, <2>1, WindowAnswered DEF PopLeft, Answers
  <2>2. CASE CallsOf(h) # <<>>
    BY <1>3, <2>2, WindowServe
  <2> QED BY <2>1, <2>2
<1>4. ASSUME NEW h \in Requests, Trigger(h) PROVE WindowInv'
  <2>1. /\ \/ handler' = Answer(h, "202")
           \/ handler' = [handler EXCEPT ![h].pc = "launching",
                                         ![h].runs = RunsOpened]
        /\ UNCHANGED <<limiter, window, passed, clock, crowded>>
    BY <1>4 DEF Trigger
  <2>2. CASE handler' = Answer(h, "202")
    BY <2>1, <2>2, WindowAnswered DEF Answers
  <2>3. CASE handler' = [handler EXCEPT ![h].pc = "launching",
                                        ![h].runs = RunsOpened]
    <3>1. /\ handler'[h].pc \in Over
          /\ \A g \in Requests \ {h} : handler'[g] = handler[g]
      BY <2>3 DEF Over, ControlTypeOK
    <3> QED BY <2>1, <3>1, WindowBehind
  <2> QED BY <2>1, <2>2, <2>3
<1>5. ASSUME NEW h \in Requests, TriggerRaises(h) PROVE WindowInv'
  BY <1>5, WindowAnswered DEF TriggerRaises, Answers
<1>6. ASSUME NEW h \in Requests, LaunchOne(h) PROVE WindowInv'
  <2>1. UNCHANGED <<limiter, window, passed, clock, crowded>>
    BY <1>6 DEF LaunchOne
  <2>2. handler[h].pc = "launching" /\ (handler' = handler \/ handler' = Answer(h, "202"))
    BY <1>6 DEF LaunchOne, Launched, HandlerIs
  <2>3. CASE handler' = handler
    BY <2>1, <2>2, <2>3, WindowBehind DEF Over
  <2> QED BY <2>1, <2>2, <2>3, WindowAnswered DEF Answers
<1>7. ASSUME NEW h \in Requests, LaunchRaises(h) PROVE WindowInv'
  BY <1>7, WindowAnswered DEF LaunchRaises, Answers
<1>8. ASSUME Restart PROVE WindowInv'
  BY <1>8, LimiterRestart DEF WindowInv
<1>9. ASSUME TickOfClock PROVE WindowInv'
  BY <1>9, WindowAside DEF TickOfClock, ControlTypeOK
<1>10. ASSUME UNCHANGED planeVars PROVE WindowInv'
  BY <1>10, WindowAside DEF planeVars, ControlTypeOK
<1>11. ASSUME NEW h \in Requests, Serve(h) PROVE WindowInv'
  BY <1>2, <1>3, <1>4, <1>5, <1>6, <1>11, WindowServe, WindowRecord DEF Serve
<1> QED BY <1>1, <1>7, <1>8, <1>9, <1>10, <1>11, WindowArrive
    DEF ControlNext, ScheduledCrawl, JobLaunches, JobLaunchRaises, CrawlSteps, controlVars

(* Whoever is about to record finds room for one more in every window.     *)
LEMMA RoomForOne ==
    ASSUME ControlTypeOK, PassedOver, LimiterInv, NEW h \in Requests,
           NEW body \in Bodies, Record(h, body), NEW t \in 0..MaxTime,
           Cardinality(PassedIn(t)) <= MaxCalls
    PROVE  Cardinality({p \in passed' : t - PerSeconds < p.at /\ p.at <= t}) <= MaxCalls
<1> DEFINE In == {p \in passed' : t - PerSeconds < p.at /\ p.at <= t}
<1>1. Inside(h) /\ handler[h].pc = "appending"
  BY DEF Record, HandlerIs, Inside
<1>2. limiter # NoOne /\ Len(Calls) < MaxCalls
  BY <1>1 DEF LimiterInv, ThreadFits
<1>3. PICK a \in 0..MaxTime : a = handler[h].at
  BY DEF ControlTypeOK
<1>4. PICK call : call = [call |-> h, at |-> a]
  OBVIOUS
<1>5. passed' = passed \cup {call} /\ call.at = a
  BY <1>3, <1>4, RecordFields
<1>6. CASE t < a
  <2>1. In = PassedIn(t)
    BY <1>5, <1>6 DEF PassedIn
  <2> QED BY <2>1
<1>7. CASE a <= t
  <2>1. PICK f \in [1..Len(Calls) -> passed] : Mirrors(f)
    BY <1>2 DEF LimiterInv, Mirrored
  <2>2. PICK n \in Nat : n = Len(Calls)
    BY <1>2, CallsType
  <2> DEFINE In0 == {p \in passed : t - PerSeconds < p.at /\ p.at <= t}
  <2>3. ASSUME NEW p \in In0 PROVE \E i \in 1..n : f[i] = p
    <3>1. p \in passed /\ p.at \in Int /\ t - PerSeconds < p.at
      BY DEF PassedOver
    <3>2. ~Past(p.at + PerSeconds)
      BY <1>1, <1>3, <1>7, <3>1, ControlAssumption DEF Past
    <3> QED BY <2>1, <2>2, <3>1, <3>2 DEF Mirrors
  <2>4. IsFiniteSet(In0) /\ Cardinality(In0) <= n
    <3> HIDE DEF In0
    <3> QED BY <2>3, ListBound
  <2>5. In \in SUBSET (In0 \cup {call})
    BY <1>5
  <2> HIDE DEF In0, In
  <2>6. /\ IsFiniteSet(In0 \cup {call})
        /\ Cardinality(In0 \cup {call}) <= Cardinality(In0) + 1
    <3>1. Cardinality(In0) \in Nat
      BY <2>4, FS_CardinalityType
    <3>2. /\ IsFiniteSet(In0 \cup {call})
          /\ Cardinality(In0 \cup {call})
                = IF call \in In0 THEN Cardinality(In0) ELSE Cardinality(In0) + 1
      BY ONLY <2>4, FS_AddElement
    <3> QED BY ONLY <3>1, <3>2
  <2>7. IsFiniteSet(In) /\ Cardinality(In) <= Cardinality(In0 \cup {call})
    BY <2>5, <2>6, FS_Subset
  <2>8. /\ Cardinality(In) \in Nat /\ Cardinality(In0) \in Nat
        /\ Cardinality(In0 \cup {call}) \in Nat
    BY <2>4, <2>6, <2>7, FS_CardinalityType
  <2>9. Cardinality(In) <= MaxCalls
    BY <1>2, <2>2, <2>4, <2>6, <2>7, <2>8, ControlAssumption
  <2> QED BY <2>9 DEF In
<1> QED BY <1>3, <1>6, <1>7

(* What a step does to the history of calls.                               *)
LEMMA PassedSteps ==
    ASSUME [ControlNext]_controlVars
    PROVE  \/ passed' = passed /\ (crowded => crowded')
           \/ passed' = {}
           \/ \E h \in Requests, body \in Bodies : Record(h, body) /\ crowded' = crowded
<1> DEFINE Same == passed' = passed /\ (crowded => crowded')
<1>1. ASSUME NEW h \in Requests, Serve(h),
             ~ \E body \in Bodies : Record(h, body)
      PROVE  Same
  <2>1. \/ Look(h) \/ Create(h) \/ FindExpired(h) \/ PopLeft(h)
        \/ RefuseCall(h) \/ FindRoom(h) \/ Trigger(h) \/ TriggerRaises(h)
        \/ LaunchOne(h)
    BY <1>1 DEF Serve
  <2> QED BY <2>1 DEF Look, Create, FindExpired, PopLeft, RefuseCall, FindRoom, Trigger,
                      TriggerRaises, LaunchOne
<1>2. ASSUME NEW h \in Requests, NEW body \in Bodies, Record(h, body)
      PROVE  crowded' = crowded
  BY <1>2 DEF Record
<1>3. ASSUME NEW h \in Requests, Unauthorized(h) \/ Arrive(h) \/ LaunchRaises(h)
      PROVE  Same
  <2>1. CASE Arrive(h)
    BY <2>1 DEF Arrive
  <2>2. CASE Unauthorized(h) \/ LaunchRaises(h)
    BY <2>2 DEF Unauthorized, LaunchRaises
  <2> QED BY <1>3, <2>1, <2>2
<1>4. ASSUME \/ \E s \in Sources : ScheduledCrawl(s)
             \/ JobLaunches \/ JobLaunchRaises \/ CrawlSteps \/ TickOfClock
             \/ UNCHANGED controlVars
      PROVE  Same
  <2>1. UNCHANGED planeVars \/ TickOfClock
    BY <1>4 DEF ScheduledCrawl, JobLaunches, JobLaunchRaises, CrawlSteps, controlVars
  <2> QED BY <2>1 DEF TickOfClock, planeVars
<1>5. ASSUME Restart PROVE passed' = {}
  BY <1>5 DEF Restart
<1> HIDE DEF Same
<1>6. \/ Same \/ passed' = {}
      \/ \E h \in Requests, body \in Bodies : Record(h, body) /\ crowded' = crowded
  BY <1>1, <1>2, <1>3, <1>4, <1>5 DEF ControlNext
<1> QED BY <1>6 DEF Same

LEMMA WithinStep ==
    ASSUME ControlTypeOK, WindowInv, WithinLimitAlone, [ControlNext]_controlVars
    PROVE  WithinLimitAlone'
<1>1. CASE passed' = passed /\ (crowded => crowded')
  BY <1>1 DEF WithinLimitAlone, PassedIn
<1>2. CASE passed' = {}
  <2>1. \A t \in 0..MaxTime : {p \in passed' : t - PerSeconds < p.at /\ p.at <= t} = {}
    BY <1>2
  <2>2. Cardinality({}) = 0
    BY FS_EmptySet
  <2> QED BY <2>1, <2>2, ControlAssumption DEF WithinLimitAlone, PassedIn
<1>3. ASSUME NEW h \in Requests, NEW body \in Bodies, Record(h, body),
             crowded' = crowded
      PROVE  WithinLimitAlone'
  <2>1. ASSUME ~crowded', NEW t \in 0..MaxTime
        PROVE  Cardinality({p \in passed' : t - PerSeconds < p.at /\ p.at <= t})
                    <= MaxCalls
    <3>1. PassedOver /\ LimiterInv /\ Cardinality(PassedIn(t)) <= MaxCalls
      BY <1>3, <2>1 DEF WindowInv, WithinLimitAlone
    <3> QED BY <1>3, <3>1, RoomForOne
  <2> QED BY <2>1 DEF WithinLimitAlone, PassedIn
<1> QED BY <1>1, <1>2, <1>3, PassedSteps

LEMMA WindowInvariant == ControlSpec => [](ControlTypeOK /\ WindowInv)
<1>1. ControlInit => WindowInv
  <2> SUFFICES ASSUME ControlInit PROVE WindowInv
    OBVIOUS
  <2>1. /\ passed = {} /\ limiter = NoOne
        /\ \A h \in Requests : handler[h].pc = "idle" /\ window[h] = <<>>
    BY DEF ControlInit, NewHandler
  <2>2. PassedOver
    BY <2>1, FS_EmptySet DEF PassedOver
  <2>3. OneInside /\ \A h \in Requests : ThreadFits(h)
    BY <2>1 DEF OneInside, InLimiter, ThreadFits, Inside
  <2> QED BY <2>1, <2>2, <2>3 DEF WindowInv, LimiterInv
<1>2. ControlTypeOK /\ WindowInv /\ [ControlNext]_controlVars => WindowInv'
  BY WindowStep
<1> QED BY <1>1, <1>2, PlaneInvariant, PTL DEF ControlSpec

(* "at most max_calls per per_seconds" (RateLimiter.allow), for any limit, *)
(* any window and any number of calls, in one life of the API process, as  *)
(* long as no two threads are inside the limiter at once.                  *)
THEOREM WithinLimitCorrect == ControlSpec => []WithinLimitAlone
<1>1. ControlInit => WithinLimitAlone
  <2> SUFFICES ASSUME ControlInit PROVE WithinLimitAlone
    OBVIOUS
  <2>1. \A t \in 0..MaxTime : PassedIn(t) = {}
    BY DEF ControlInit, PassedIn
  <2> QED BY <2>1, FS_EmptySet, ControlAssumption DEF WithinLimitAlone
<1>2. ControlTypeOK /\ WindowInv /\ WithinLimitAlone /\ [ControlNext]_controlVars
        => WithinLimitAlone'
  BY WithinStep
<1> QED BY <1>1, <1>2, WindowInvariant, PTL DEF ControlSpec

(* Only the limiter answers 429.                                           *)
LEMMA OnlyRefuses ==
    ASSUME ControlTypeOK, [ControlNext]_controlVars, NEW h \in Requests,
           handler'[h].answer = "429", handler'[h].answer # handler[h].answer
    PROVE  RefuseCall(h)
<1>1. ASSUME NEW g \in Requests, NEW status \in Answers \ {"429"},
             handler' = Answer(g, status)
      PROVE  FALSE
  <2>1. Turns(g, Answered(g, status))
    BY <1>1, AnswersTurn DEF Turns
  <2>2. handler'[g].answer = status /\ \A f \in Requests \ {g} : handler'[f] = handler[f]
    BY <2>1, Turned, AnsweredType
  <2> QED BY <2>2
<1>2. \A f \in Requests : handler'[f].answer = handler[f].answer => f # h
  OBVIOUS
<1>3. ASSUME NEW g \in Requests,
             \/ Arrive(g) \/ Look(g) \/ Create(g) \/ FindExpired(g) \/ FindRoom(g)
             \/ Trigger(g)
      PROVE  FALSE
  <2>1. ASSUME \A f \in Requests : handler'[f].answer = handler[f].answer PROVE FALSE
    BY <1>2, <2>1
  <2>2. CASE Arrive(g)
    BY <2>1, <2>2 DEF Arrive, ControlTypeOK
  <2>3. CASE Look(g)
    <3>1. CASE limiter = NoOne
      BY <2>1, <2>3, <3>1 DEF Look, ControlTypeOK
    <3>2. CASE limiter # NoOne
      BY <2>1, <2>3, <3>2 DEF Look, ControlTypeOK
    <3> QED BY <3>1, <3>2
  <2>4. CASE Create(g)
    BY <2>1, <2>4 DEF Create, ControlTypeOK
  <2>5. CASE FindExpired(g)
    BY <2>1, <2>5 DEF FindExpired, ControlTypeOK
  <2>6. CASE FindRoom(g)
    BY <2>1, <2>6 DEF FindRoom, ControlTypeOK
  <2>7. CASE Trigger(g)
    <3>1. CASE handler' = Answer(g, "202")
      BY <1>1, <3>1 DEF Answers
    <3>2. CASE handler' = [handler EXCEPT ![g].pc = "launching",
                                          ![g].runs = RunsOpened]
      BY <2>1, <3>2 DEF ControlTypeOK
    <3> QED BY <2>7, <3>1, <3>2 DEF Trigger
  <2> QED BY <1>3, <2>2, <2>3, <2>4, <2>5, <2>6, <2>7
<1>4. ASSUME NEW g \in Requests, Unauthorized(g) PROVE FALSE
  BY <1>1, <1>4 DEF Unauthorized, Answers
<1>5. ASSUME NEW g \in Requests, PopLeft(g) PROVE FALSE
  BY <1>1, <1>2, <1>5 DEF PopLeft, Answers, ControlTypeOK
<1>6. ASSUME NEW g \in Requests, NEW body \in Bodies, Record(g, body) PROVE FALSE
  BY <1>1, <1>2, <1>6 DEF Record, Answers, ControlTypeOK
<1>7. ASSUME NEW g \in Requests, TriggerRaises(g) PROVE FALSE
  BY <1>1, <1>7 DEF TriggerRaises, Answers
<1>8. ASSUME NEW g \in Requests, LaunchOne(g) PROVE FALSE
  <2>1. handler' = handler \/ handler' = Answer(g, "202")
    BY <1>8 DEF LaunchOne, Launched
  <2> QED BY <1>1, <1>2, <2>1 DEF Answers
<1>9. ASSUME NEW g \in Requests, LaunchRaises(g) PROVE FALSE
  BY <1>1, <1>9 DEF LaunchRaises, Answers
<1>10. ASSUME Restart PROVE FALSE
  BY <1>10, RestartTurns
<1>11. ASSUME handler' = handler PROVE FALSE
  BY <1>11
<1>12. ASSUME NEW g \in Requests, RefuseCall(g) PROVE g = h
  <2>1. Turns(g, Answered(g, "429"))
    BY <1>12, AnswersTurn DEF Turns, RefuseCall
  <2> QED BY <2>1, Turned
<1> QED BY <1>3, <1>4, <1>5, <1>6, <1>7, <1>8, <1>9, <1>10, <1>11, <1>12
    DEF ControlNext, Serve, ScheduledCrawl, JobLaunches, JobLaunchRaises, CrawlSteps,
        TickOfClock, controlVars, planeVars

LEMMA RefusedFull ==
    ASSUME ControlTypeOK, PassedOver, LimiterInv, NEW h \in Requests, RefuseCall(h)
    PROVE  Cardinality(PassedIn(handler[h].at)) >= MaxCalls
<1>1. /\ Inside(h) /\ ~Expired(h) /\ Len(CallsOf(h)) >= MaxCalls
  BY DEF RefuseCall, HandlerIs, Inside
<1>2. limiter # NoOne /\ handler[h].mine = limiter
  BY <1>1 DEF LimiterInv, ThreadFits
<1>3. PICK a \in Int : a = handler[h].at
  BY DEF ControlTypeOK
<1>4. PICK n \in Nat : n = Len(Calls)
  BY <1>2, CallsType
<1>5. n >= MaxCalls /\ (n >= 1 => a - Calls[1] < PerSeconds)
  <2>1. CallsOf(h) = Calls /\ n >= MaxCalls
    BY <1>1, <1>2, <1>4 DEF CallsOf, Calls
  <2>2. ASSUME n >= 1 PROVE a - Calls[1] < PerSeconds
    <3>1. Calls # <<>> /\ Head(Calls) = Calls[1] /\ Calls[1] \in Int
      BY <1>2, <1>4, <2>2, CallsType, EmptySeq
    <3> QED BY <1>1, <1>3, <2>1, <3>1, ControlAssumption DEF Expired
  <2> QED BY <2>1, <2>2
<1>6. PICK f \in [1..n -> passed] : Mirrors(f)
  BY <1>2, <1>4 DEF LimiterInv, Mirrored
<1>7. ASSUME NEW i \in 1..n PROVE f[i] \in PassedIn(a)
  <2>1. f[i] \in passed /\ f[i].at = Calls[i] /\ Past(Calls[i]) /\ Calls[i] \in Int
    BY <1>2, <1>4, <1>6, CallsType DEF Mirrors
  <2>2. n >= 1 /\ Calls[1] <= Calls[i] /\ Calls[1] \in Int
    BY <1>2, <1>4, <1>6, <2>1, CallsType DEF Mirrors
  <2>3. Calls[i] <= a
    BY <1>1, <1>3, <2>1 DEF Past
  <2> QED BY <1>5, <2>1, <2>2, <2>3, ControlAssumption DEF PassedIn
<1>8. \A i, j \in 1..n : i < j => f[i] # f[j]
  BY <1>4, <1>6 DEF Mirrors
<1>9. IsFiniteSet(PassedIn(a))
  BY FS_Subset DEF PassedIn, PassedOver
<1>10. n <= Cardinality(PassedIn(a)) /\ Cardinality(PassedIn(a)) \in Nat
  BY <1>7, <1>8, <1>9, ListInjective, FS_CardinalityType
<1> QED BY <1>3, <1>5, <1>10, ControlAssumption

(* While no two threads have been inside the limiter, and within one life  *)
(* of the API process, a call is refused only if the window that ends at   *)
(* its time is full: allow() records what it lets pass, never what it      *)
(* refuses.                                                                *)
THEOREM RefusedJustlyCorrect == ControlSpec => RefusedJustly
<1>1. ASSUME ControlTypeOK, WindowInv, [ControlNext]_controlVars, NEW h \in Requests,
             handler'[h].answer # handler[h].answer,
             handler'[h].answer = "429", ~crowded
      PROVE  Cardinality(PassedIn(handler[h].at)) >= MaxCalls
  <2>1. RefuseCall(h)
    BY <1>1, OnlyRefuses
  <2> QED BY <1>1, <2>1, RefusedFull DEF WindowInv
<1>2. ControlTypeOK /\ WindowInv /\ [ControlNext]_controlVars =>
        [\A h \in Requests : handler'[h].answer # handler[h].answer
            /\ handler'[h].answer = "429" /\ ~crowded
            => Cardinality(PassedIn(handler[h].at)) >= MaxCalls]_controlVars
  BY <1>1
<1> QED BY <1>2, WindowInvariant, PTL DEF ControlSpec, RefusedJustly

=============================================================================
