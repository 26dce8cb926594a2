------------------------- MODULE SourceHealthProofs -------------------------
(***************************************************************************)
(* The health of a source, for windows and budgets of any length, any      *)
(* limits of the ban rate, and any number of runs that close in any order. *)
(***************************************************************************)
EXTENDS SourceHealth, SetLemmas, SequenceTheorems

(* The rows a step leaves alone, and those it writes.                      *)
LEMMA RowsOf ==
    ASSUME TypeOK
    PROVE  /\ runs \in Seq(Row) /\ Len(runs) \in Nat /\ DOMAIN runs = 1..Len(runs)
           /\ \A i \in 1..Len(runs) : runs[i] \in Row
BY LenProperties, ElementOfSeq DEF TypeOK

LEMMA StepOfOpen ==
    ASSUME TypeOK, Open
    PROVE  /\ runs' \in Seq(Row) /\ Len(runs') = Len(runs) + 1 /\ now' = now
           /\ \A i \in 1..Len(runs) : runs'[i] = runs[i]
           /\ runs'[Len(runs) + 1].status = "running"
           /\ runs'[Len(runs) + 1].finished = Never
<1> DEFINE row == [status |-> "running", finished |-> Never, bans |-> 0, requests |-> 0]
<1>1. row \in Row /\ row.status = "running" /\ row.finished = Never
  BY DEF Row, Never
<1>2. runs' = Append(runs, row) /\ now' = now
  BY DEF Open
<1> HIDE DEF row
<1> QED BY <1>1, <1>2, RowsOf, AppendProperties

LEMMA StepOfClose ==
    ASSUME TypeOK, NEW i \in 1..Len(runs), NEW status \in Terminal, NEW bans \in Nat,
           NEW requests \in Nat, Close(i, status, [bans |-> bans, requests |-> requests])
    PROVE  /\ runs' \in Seq(Row) /\ Len(runs') = Len(runs) /\ now' = now
           /\ runs[i].status = "running"
           /\ \A j \in 1..Len(runs) : j # i => runs'[j] = runs[j]
           /\ runs'[i].status = status /\ runs'[i].finished = now
<1> DEFINE row == [status |-> status, finished |-> now, bans |-> bans,
                   requests |-> requests]
<1>1. row \in Row /\ row.status = status /\ row.finished = now
  BY DEF Row, TypeOK
<1>2. runs' = [runs EXCEPT ![i] = row] /\ now' = now /\ runs[i].status = "running"
  BY DEF Close
<1> HIDE DEF row
<1>3. runs' \in Seq(Row) /\ Len(runs') = Len(runs)
  BY <1>1, <1>2, RowsOf, ExceptSeq
<1> QED BY <1>1, <1>2, <1>3, RowsOf

(* What a step can be.                                                     *)
LEMMA StepIs ==
    ASSUME TypeOK, [Next]_vars
    PROVE  \/ Open
           \/ \E i \in 1..Len(runs), status \in Terminal, bans \in Nat, requests \in Nat :
                Close(i, status, [bans |-> bans, requests |-> requests])
           \/ runs' = runs /\ now' \in Nat /\ now <= now'
<1>1. ASSUME NEW i \in 1..Len(runs), NEW traffic \in Traffic, NEW status \in Terminal,
             Close(i, status, traffic)
      PROVE  Close(i, status, [bans |-> traffic.bans, requests |-> traffic.requests])
  BY <1>1 DEF Close
<1>2. \A traffic \in Traffic : traffic.bans \in Nat /\ traffic.requests \in Nat
  BY HealthAssumption
<1>3. \A i, traffic : CloseCrashed(i, traffic)
                        => Close(i, "failed", [bans |-> traffic.bans, requests |-> 0])
  BY DEF CloseCrashed
<1>4. "failed" \in Terminal /\ 0 \in Nat
  BY DEF Terminal
<1>5. Tick \/ UNCHANGED vars => runs' = runs /\ now' \in Nat /\ now <= now'
  BY DEF Tick, vars, TypeOK
<1>6. ASSUME NEW i \in 1..Len(runs), NEW traffic \in Traffic,
             \/ \E status \in Terminal : Close(i, status, traffic)
             \/ CloseCrashed(i, traffic)
      PROVE  \E status \in Terminal, bans \in Nat, requests \in Nat :
                Close(i, status, [bans |-> bans, requests |-> requests])
  BY <1>1, <1>2, <1>3, <1>4, <1>6
<1> QED BY <1>5, <1>6 DEF Next

(* Every variable keeps its type, and a row has a finish, not in the       *)
(* future, exactly when it has left running.                               *)
THEOREM TypeCorrect == Spec => []TypeOK
<1>1. Init => TypeOK
  BY EmptySeq DEF Init, TypeOK
<1>2. TypeOK /\ [Next]_vars => TypeOK'
  <2> SUFFICES ASSUME TypeOK, [Next]_vars PROVE TypeOK'
    OBVIOUS
  <2>1. now \in Nat \ {0} /\ \A i \in 1..Len(runs) : runs[i].finished \in Nat
    BY RowsOf DEF TypeOK, Row
  <2>2. CASE Open
    <3>1. \A i \in 1..(Len(runs) + 1) : i \in 1..Len(runs) \/ i = Len(runs) + 1
      BY RowsOf
    <3> QED BY <2>1, <2>2, <3>1, StepOfOpen DEF TypeOK, Never
  <2>3. ASSUME NEW i \in 1..Len(runs), NEW status \in Terminal, NEW bans \in Nat,
               NEW requests \in Nat,
               Close(i, status, [bans |-> bans, requests |-> requests])
        PROVE  TypeOK'
    <3>1. status # "running" /\ now # Never
      BY <2>1 DEF Terminal, Never
    <3>2. /\ runs' \in Seq(Row) /\ Len(runs') = Len(runs) /\ now' = now
          /\ \A j \in 1..Len(runs) : j # i => runs'[j] = runs[j]
          /\ runs'[i].status = status /\ runs'[i].finished = now
      BY <2>3, StepOfClose
    <3> QED BY <2>1, <3>1, <3>2 DEF TypeOK
  <2>4. CASE runs' = runs /\ now' \in Nat /\ now <= now'
    BY <2>1, <2>4 DEF TypeOK
  <2> QED BY <2>2, <2>3, <2>4, StepIs
<1> QED BY <1>1, <1>2, PTL DEF Spec

-----------------------------------------------------------------------------
(***************************************************************************)
(* What the window shows is the last commit of the history, if that began  *)
(* within the window.                                                      *)
(***************************************************************************)

LEMMA MinIs ==
    ASSUME NEW I \in SUBSET Nat, I # {}
    PROVE  Min(I) \in I /\ \A x \in I : Min(I) <= x
BY LeastElement DEF Min

LEMMA RecentIs ==
    ASSUME TypeOK, NEW n \in Nat \ {0}
    PROVE  \E k \in Nat :
             /\ k = IF Len(runs) < n THEN Len(runs) ELSE n
             /\ DOMAIN Recent(n) = 1..k
             /\ \A i \in 1..k : Recent(n)[i] = runs[Len(runs) - i + 1]
             /\ Recent(n) = <<>> <=> runs = <<>>
<1>1. PICK N \in Nat : N = Len(runs)
  BY RowsOf
<1>2. PICK k \in Nat : k = IF N < n THEN N ELSE n
  OBVIOUS
<1> DEFINE rev == [i \in 1..N |-> runs[(N - i) + 1]]
<1>3. Reverse(runs) = rev /\ Recent(n) = SubSeq(rev, 1, k)
  BY <1>1, <1>2 DEF Reverse, Recent
<1>4. \A i \in 1..k : rev[i] \in Row /\ rev[i] = runs[(N - i) + 1]
  <2> TAKE i \in 1..k
  <2>1. i \in 1..N /\ (N - i) + 1 \in 1..N
    BY <1>2
  <2> QED BY <1>1, <2>1, RowsOf
<1> HIDE DEF rev
<1>5. /\ SubSeq(rev, 1, k) \in Seq(Row)
      /\ Len(SubSeq(rev, 1, k)) = IF 1 <= k THEN k - 1 + 1 ELSE 0
      /\ \A i \in 1..(k - 1 + 1) : SubSeq(rev, 1, k)[i] = rev[1 + i - 1]
  BY <1>4, SubSeqProperties
<1>6. Len(Recent(n)) = k /\ Recent(n) \in Seq(Row)
  BY <1>3, <1>5
<1>7. DOMAIN Recent(n) = 1..k
  BY <1>6, LenProperties
<1>8. ASSUME NEW i \in 1..k PROVE Recent(n)[i] = runs[Len(runs) - i + 1]
  BY <1>1, <1>3, <1>4, <1>5
<1>9. Recent(n) = <<>> <=> runs = <<>>
  BY <1>1, <1>2, <1>6, RowsOf, EmptySeq
<1> QED BY <1>1, <1>2, <1>7, <1>8, <1>9

(* m is the last commit of the history, and began within the last n runs.  *)
LastCommit(m, n) ==
    /\ m \in Commits /\ m > Len(runs) - n
    /\ \A i \in Commits : i <= m

LEMMA LastSuccessIs ==
    ASSUME TypeOK, NEW n \in Nat \ {0}
    PROVE  \/ /\ LastSuccess(Recent(n)) = Never
              /\ \A i \in Commits : i <= Len(runs) - n
           \/ \E m \in Commits : /\ LastCommit(m, n)
                                 /\ LastSuccess(Recent(n)) = runs[m].finished
                                 /\ LastSuccess(Recent(n)) # Never
<1>1. PICK N \in Nat : N = Len(runs)
  BY RowsOf
<1>2. PICK k \in Nat :
        /\ k = IF N < n THEN N ELSE n
        /\ DOMAIN Recent(n) = 1..k
        /\ \A i \in 1..k : Recent(n)[i] = runs[N - i + 1]
  BY <1>1, RecentIs
<1> DEFINE I == {i \in DOMAIN Recent(n) : /\ Recent(n)[i].status \in Committed
                                          /\ Recent(n)[i].finished # Never}
<1>3. LastSuccess(Recent(n)) = IF I = {} THEN Never ELSE Recent(n)[Min(I)].finished
  BY DEF LastSuccess, FinishFirst
<1>4. \A i \in I : i \in 1..k /\ N - i + 1 \in Commits /\ N - i + 1 > N - n
  BY <1>1, <1>2 DEF Commits
<1>5. \A j \in Commits : j \in 1..N /\ runs[j].finished # Never
  BY <1>1 DEF Commits, Committed, TypeOK
<1>6. \A j \in Commits : j > N - n => N - j + 1 \in I
  <2> TAKE j \in Commits
  <2> HAVE j > N - n
  <2>1. N - j + 1 \in 1..k /\ N - (N - j + 1) + 1 = j
    BY <1>2, <1>5
  <2>2. Recent(n)[N - j + 1] = runs[j]
    BY <1>2, <2>1
  <2> QED BY <1>2, <1>5, <2>1, <2>2 DEF Commits
<1>7. \A i \in I : Recent(n)[i].finished # Never /\ Recent(n)[i] = runs[N - i + 1]
  BY <1>2
<1>8. I \in SUBSET Nat
  BY <1>2
<1> HIDE DEF I
<1>9. CASE I = {}
  <2>1. \A j \in Commits : j <= N - n
    BY <1>5, <1>6, <1>9
  <2> QED BY <1>1, <1>3, <1>9, <2>1
<1>10. CASE I # {}
  <2>1. PICK i \in I : i = Min(I) /\ \A x \in I : i <= x
    BY <1>8, <1>10, MinIs
  <2>2. PICK m \in Commits : m = N - i + 1 /\ m > N - n
    BY <1>4
  <2>3. ASSUME NEW j \in Commits PROVE j <= m
    <3>1. CASE j > N - n
      <4>1. i <= N - j + 1 /\ j \in Nat /\ i \in Nat
        BY <1>5, <1>6, <1>8, <2>1, <3>1
      <4> QED BY <2>2, <4>1
    <3>2. CASE ~(j > N - n)
      BY <1>5, <2>2, <3>2
    <3> QED BY <3>1, <3>2
  <2>4. LastCommit(m, n)
    BY <1>1, <2>2, <2>3 DEF LastCommit
  <2>5. LastSuccess(Recent(n)) = runs[m].finished /\ runs[m].finished # Never
    BY <1>3, <1>7, <1>10, <2>1, <2>2
  <2> QED BY <2>4, <2>5
<1> QED BY <1>9, <1>10

-----------------------------------------------------------------------------
(***************************************************************************)
(* What the four words mean for the history.                               *)
(***************************************************************************)

(* Healthy: the last commit is within the window and not old.              *)
HealthyMeans ==
    Health = "healthy" =>
        \E m \in Commits : LastCommit(m, Window) /\ ~Old(runs[m].finished)

(* Stale: there are no runs, or the last commit is in the window and old.  *)
StaleMeans ==
    Health = "stale" /\ runs # <<>> =>
        \E m \in Commits : LastCommit(m, Window) /\ Old(runs[m].finished)

(* The panel's flag, likewise, or no commit in the panel's window.         *)
PanelMeans ==
    PanelStale(Recent(PanelWindow)) <=>
        /\ runs # <<>>
        /\ \/ \A i \in Commits : i <= Len(runs) - PanelWindow
           \/ \E m \in Commits : LastCommit(m, PanelWindow) /\ Old(runs[m].finished)

LEMMA CommitNumbers ==
    ASSUME TypeOK
    PROVE  \A i \in Commits : i \in Nat /\ i >= 1 /\ i <= Len(runs)
BY RowsOf DEF Commits

LEMMA LastIsOne ==
    ASSUME TypeOK, NEW n, NEW k, NEW m \in Commits, NEW l \in Commits,
           LastCommit(m, n), LastCommit(l, k)
    PROVE  l = m
BY CommitNumbers DEF LastCommit

LEMMA HealthMeans == TypeOK => HealthyMeans /\ StaleMeans
<1> SUFFICES ASSUME TypeOK PROVE HealthyMeans /\ StaleMeans
  OBVIOUS
<1>1. Window \in Nat \ {0}
  BY HealthAssumption
<1>2. Recent(Window) = <<>> <=> runs = <<>>
  BY <1>1, RecentIs
<1>3. Health = "healthy" => /\ LastSuccess(Recent(Window)) # Never
                            /\ ~Old(LastSuccess(Recent(Window)))
  BY DEF Health, ClassifySource, Stale, Degraded
<1>4. Health = "stale" /\ runs # <<>> => /\ LastSuccess(Recent(Window)) # Never
                                         /\ Old(LastSuccess(Recent(Window)))
  BY <1>2 DEF Health, ClassifySource, Stale
<1>5. LastSuccess(Recent(Window)) # Never =>
        \E m \in Commits : LastCommit(m, Window)
                           /\ LastSuccess(Recent(Window)) = runs[m].finished
  BY <1>1, LastSuccessIs
<1> QED BY <1>3, <1>4, <1>5 DEF HealthyMeans, StaleMeans

LEMMA PanelMeansIt == TypeOK => PanelMeans
<1> SUFFICES ASSUME TypeOK PROVE PanelMeans
  OBVIOUS
<1>1. PanelWindow \in Nat \ {0}
  BY HealthAssumption
<1>2. Recent(PanelWindow) = <<>> <=> runs = <<>>
  BY <1>1, RecentIs
<1>3. \A m, l \in Commits :
        LastCommit(m, PanelWindow) /\ LastCommit(l, PanelWindow) => l = m
  BY LastIsOne
<1>4. \A m \in Commits : LastCommit(m, PanelWindow) => ~(m <= Len(runs) - PanelWindow)
  BY <1>1, CommitNumbers, RowsOf DEF LastCommit
<1>5. CASE /\ LastSuccess(Recent(PanelWindow)) = Never
           /\ \A i \in Commits : i <= Len(runs) - PanelWindow
  BY <1>2, <1>5 DEF PanelMeans, PanelStale
<1>6. ASSUME NEW m \in Commits, LastCommit(m, PanelWindow),
             LastSuccess(Recent(PanelWindow)) = runs[m].finished,
             LastSuccess(Recent(PanelWindow)) # Never
      PROVE  PanelMeans
  <2>1. PanelStale(Recent(PanelWindow)) <=> runs # <<>> /\ Old(runs[m].finished)
    BY <1>2, <1>6 DEF PanelStale
  <2> QED BY <1>3, <1>4, <1>6, <2>1 DEF PanelMeans
<1> QED BY <1>1, <1>5, <1>6, LastSuccessIs

(* "Is our data fresh": a source that is called healthy has a commit that  *)
(* is not older than its budget, whatever runs overlap, fail or hang.      *)
THEOREM HealthyCorrect == Spec => []HealthyIsFresh
<1>1. HealthyMeans => HealthyIsFresh
  BY DEF HealthyMeans, HealthyIsFresh, FreshData
<1> QED BY <1>1, HealthMeans, TypeCorrect, PTL

(* No false alarm where runs commit in the order they began: if the last   *)
(* commit is old, every commit is.                                         *)
THEOREM StaleCorrect == Spec => []StaleIsOld
<1>1. TypeOK /\ StaleMeans => StaleIsOld
  <2> SUFFICES ASSUME TypeOK, StaleMeans, Health = "stale", runs # <<>>, CommitsInOrder,
                      NEW i \in Commits
               PROVE  Old(runs[i].finished)
    BY DEF StaleIsOld, FreshData
  <2>1. PICK m \in Commits : LastCommit(m, Window) /\ Old(runs[m].finished)
    BY DEF StaleMeans
  <2>2. i <= m /\ i \in Nat /\ m \in Nat
    BY <2>1, CommitNumbers DEF LastCommit
  <2>3. runs[i].finished \in Nat /\ runs[m].finished \in Nat /\ now \in Nat
    BY RowsOf DEF Commits, Row, TypeOK
  <2>4. runs[i].finished <= runs[m].finished
    BY <2>2, <2>3 DEF CommitsInOrder
  <2> QED BY <2>1, <2>3, <2>4, HealthAssumption DEF Old
<1> QED BY <1>1, HealthMeans, TypeCorrect, PTL

(* For windows of any two lengths: the panel flags what the endpoint calls *)
(* stale, except a source without runs; and the endpoint does not call     *)
(* healthy what the panel flags, as long as the panel looks at least as    *)
(* far back (it does in the default configuration).                        *)
THEOREM PanelCorrect == Spec => []PanelAgrees
<1>1. TypeOK /\ HealthyMeans /\ StaleMeans /\ PanelMeans => PanelAgrees
  <2> SUFFICES ASSUME TypeOK, HealthyMeans, StaleMeans, PanelMeans
               PROVE  PanelAgrees
    OBVIOUS
  <2>1. Window \in Nat /\ PanelWindow \in Nat /\ Len(runs) \in Nat
    BY HealthAssumption, RowsOf
  <2>2. ASSUME Health = "stale", runs # <<>> PROVE PanelStale(Recent(PanelWindow))
    <3>1. PICK m \in Commits : LastCommit(m, Window) /\ Old(runs[m].finished)
      BY <2>2 DEF StaleMeans
    <3>2. CASE m > Len(runs) - PanelWindow
      <4>1. LastCommit(m, PanelWindow)
        BY <3>1, <3>2 DEF LastCommit
      <4> QED BY <2>2, <3>1, <4>1 DEF PanelMeans
    <3>3. CASE ~(m > Len(runs) - PanelWindow)
      <4>1. \A i \in Commits : i <= Len(runs) - PanelWindow
        BY <2>1, <3>1, <3>3, CommitNumbers DEF LastCommit
      <4> QED BY <2>2, <4>1 DEF PanelMeans
    <3> QED BY <3>2, <3>3
  <2>3. ASSUME PanelStale(Recent(PanelWindow)), Window <= PanelWindow, Health = "healthy"
        PROVE  FALSE
    <3>1. PICK m \in Commits : LastCommit(m, Window) /\ ~Old(runs[m].finished)
      BY <2>3 DEF HealthyMeans
    <3>2. m > Len(runs) - PanelWindow
      BY <2>1, <2>3, <3>1, CommitNumbers DEF LastCommit
    <3>3. PICK l \in Commits : LastCommit(l, PanelWindow) /\ Old(runs[l].finished)
      BY <2>1, <2>3, <3>2, CommitNumbers DEF PanelMeans
    <3>4. l = m
      BY <3>1, <3>3, LastIsOne
    <3> QED BY <3>1, <3>3, <3>4
  <2>4. PanelStale(Recent(PanelWindow)) => runs # <<>>
    BY DEF PanelMeans
  <2> QED BY <2>2, <2>3, <2>4 DEF PanelAgrees
<1> QED BY <1>1, HealthMeans, PanelMeansIt, TypeCorrect, PTL

-----------------------------------------------------------------------------
(* The rows of the commits do not change.                                  *)
LEMMA CommitsStay ==
    ASSUME TypeOK, [Next]_vars, NEW m \in Commits
    PROVE  runs'[m].finished = runs[m].finished
<1>1. m \in 1..Len(runs) /\ runs[m].status # "running"
  BY DEF Commits, Committed
<1>2. CASE Open
  BY <1>1, <1>2, StepOfOpen
<1>3. ASSUME NEW i \in 1..Len(runs), NEW status \in Terminal, NEW bans \in Nat,
             NEW requests \in Nat,
             Close(i, status, [bans |-> bans, requests |-> requests])
      PROVE  runs'[m].finished = runs[m].finished
  BY <1>1, <1>3, StepOfClose
<1> QED BY <1>2, <1>3, StepIs

(* From stale to healthy only a commit leads: not waiting, not opening     *)
(* runs, not pushing the last commit out of the window.                    *)
THEOREM OnlyCommitsHealCorrect == Spec => OnlyCommitsHeal
<1>1. ASSUME TypeOK, StaleMeans, HealthyMeans', [Next]_vars,
             Health = "stale", Health' = "healthy", Commits' = Commits
      PROVE  FALSE
  <2>1. PICK l \in Commits : LastCommit(l, Window)' /\ ~Old(runs[l].finished)'
    BY <1>1 DEF HealthyMeans
  <2>2. runs # <<>>
    BY <1>1, CommitNumbers, EmptySeq
  <2>3. PICK m \in Commits : LastCommit(m, Window) /\ Old(runs[m].finished)
    BY <1>1, <2>2 DEF StaleMeans
  <2>4. l = m
    BY <1>1, <2>1, <2>3, CommitNumbers DEF LastCommit
  <2>5. runs'[m].finished = runs[m].finished /\ runs[m].finished \in Nat
    BY <1>1, CommitsStay, RowsOf DEF Commits, Row
  <2>6. now \in Nat /\ now' \in Nat /\ now <= now'
    BY <1>1 DEF Next, Open, Close, CloseCrashed, Tick, vars, TypeOK
  <2> QED BY <2>1, <2>3, <2>4, <2>5, <2>6, HealthAssumption DEF Old
<1>2. TypeOK /\ StaleMeans /\ HealthyMeans' /\ [Next]_vars =>
        [Health = "stale" /\ Health' = "healthy" => Commits' # Commits]_vars
  BY <1>1
<1> QED BY <1>2, HealthMeans, TypeCorrect, PTL DEF Spec, OnlyCommitsHeal

=============================================================================
