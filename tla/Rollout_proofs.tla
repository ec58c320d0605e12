--------------------------- MODULE Rollout_proofs ---------------------------
(***************************************************************************)
(* For any set of apps and any bounds, the release store keeps its         *)
(* invariants: one live release of an app at most, and nothing live that   *)
(* was not built.  For any apps, callers, scales and faults, whatever the  *)
(* handlers do to the store is what the store allows; with the             *)
(* reconciler's mutex the routes of an older plan never replace those of a *)
(* newer one; a release whose image never answers its probe never serves;  *)
(* and Repair takes no live app off the proxy.                             *)
(*                                                                         *)
(* The last part is about calls that do not overlap for one app            *)
(* (Exclusive): with any number of callers, the daemon's own loops, faults *)
(* and restarts, no container outlives its app, a prune keeps the rollback *)
(* target, and a drain stops nothing that has traffic; and as long as      *)
(* nothing fails no reachable app goes off the air, and a success has      *)
(* moved the routes.                                                       *)
(***************************************************************************)
EXTENDS Rollout, TLAPS

(* The release store. *)

LEMMA NumbersAreNatural == Release \subseteq Nat /\ NoRelease \notin Release
  BY BoundsAssumption DEF Release, NoRelease

\* Closing the open row changes nothing but the column deactivated_at.
LEMMA CloseRowsFacts ==
  ASSUME NEW h \in Seq(Row)
  PROVE  /\ CloseRows(h) \in Seq(Row)
         /\ Len(CloseRows(h)) = Len(h)
         /\ DOMAIN CloseRows(h) = DOMAIN h
         /\ \A k \in DOMAIN h : /\ CloseRows(h)[k].rel = h[k].rel
                                /\ CloseRows(h)[k].open = FALSE
<1>1. DOMAIN h = 1..Len(h) /\ Len(h) \in Nat
  OBVIOUS
<1>2. ASSUME NEW k \in 1..Len(h)
      PROVE  [rel |-> h[k].rel, open |-> FALSE] \in Row
  <2>1. h[k] \in Row
    OBVIOUS
  <2> QED
    BY <2>1 DEF Row
<1>3. CloseRows(h) \in [1..Len(h) -> Row]
  BY <1>1, <1>2 DEF CloseRows
<1>4. CloseRows(h) \in Seq(Row) /\ Len(CloseRows(h)) = Len(h)
  BY <1>1, <1>3
<1> QED
  BY <1>1, <1>4 DEF CloseRows

\* A row more: what a switch leaves behind.
LEMMA AppendRowFacts ==
  ASSUME NEW h \in Seq(Row), NEW n \in Release
  PROVE  LET g == Append(CloseRows(h), [rel |-> n, open |-> TRUE])
         IN /\ g \in Seq(Row)
            /\ Len(g) = Len(h) + 1
            /\ g[Len(h) + 1] = [rel |-> n, open |-> TRUE]
            /\ \A k \in 1..Len(h) : g[k].rel = h[k].rel /\ g[k].open = FALSE
<1> DEFINE c == CloseRows(h)
           row == [rel |-> n, open |-> TRUE]
<1>1. /\ c \in Seq(Row)
      /\ Len(c) = Len(h)
      /\ \A k \in 1..Len(h) : c[k].rel = h[k].rel /\ c[k].open = FALSE
  <2>1. DOMAIN h = 1..Len(h)
    OBVIOUS
  <2> QED
    BY <2>1, CloseRowsFacts
<1>2. row \in Row
  BY DEF Row
<1> HIDE DEF c, row
<1>3. /\ Append(c, row) \in Seq(Row)
      /\ Len(Append(c, row)) = Len(c) + 1
      /\ Append(c, row)[Len(c) + 1] = row
      /\ \A k \in 1..Len(c) : Append(c, row)[k] = c[k]
  BY <1>1, <1>2
<1> QED
  BY <1>1, <1>3 DEF c, row

-----------------------------------------------------------------------------
(***************************************************************************)
(* The inductive invariant.                                                *)
(***************************************************************************)

LEMMA StoreInvInit == StoreInit => StoreInv
<1> SUFFICES ASSUME StoreInit PROVE StoreInv
  OBVIOUS
<1> USE DEF StoreInit
<1>1. StoreTypeOK
  BY BoundsAssumption DEF StoreTypeOK, Release
<1>2. NumbersHandedOut
  BY NumbersAreNatural DEF NumbersHandedOut, Release
<1>3. OneActive /\ LiveWasBuilt
  BY DEF OneActive, LiveWasBuilt, OpenRows
<1> QED
  BY <1>1, <1>2, <1>3 DEF StoreInv

\* Adding an app touches no release.
LEMMA CreateAppKeepsInv ==
  ASSUME StoreInv, NEW a \in App, CreateApp(a)
  PROVE  StoreInv'
<1> USE DEF StoreInv, CreateApp
<1>1. StoreTypeOK'
  BY DEF StoreTypeOK
<1>2. NumbersHandedOut'
  BY DEF NumbersHandedOut
<1>3. OneActive' /\ LiveWasBuilt'
  BY DEF OneActive, LiveWasBuilt, OpenRows
<1> QED
  BY <1>1, <1>2, <1>3

\* The number taken is the next one, and its row was not there: it cannot be
\* a release that is or was live.
LEMMA StartReleaseKeepsInv ==
  ASSUME StoreInv, NEW a \in App, StartRelease(a)
  PROVE  StoreInv'
<1> USE DEF StoreInv, StartRelease
<1>1. seq[a] + 1 \in Release /\ seq[a] \in Nat
  BY BoundsAssumption DEF StoreTypeOK, Release
<1>2. status[a][seq[a] + 1] = "none"
  BY <1>1 DEF NumbersHandedOut, Release
<1>3. StoreTypeOK'
  BY <1>1, BoundsAssumption DEF StoreTypeOK, Sealed, Release
<1>4. NumbersHandedOut'
  <2> SUFFICES ASSUME NEW b \in App, NEW n \in Release
               PROVE  status'[b][n] # "none" <=> n <= seq'[b]
    BY DEF NumbersHandedOut
  <2>1. status[b][n] # "none" <=> n <= seq[b]
    BY DEF NumbersHandedOut
  <2>2. CASE b = a /\ n = seq[a] + 1
    BY <1>1, <2>2 DEF StoreTypeOK
  <2>3. CASE b = a /\ n # seq[a] + 1
    <3>1. n \in Nat /\ seq'[b] = seq[a] + 1 /\ status'[b][n] = status[b][n]
      BY <1>1, <2>3, NumbersAreNatural DEF StoreTypeOK
    <3> QED
      BY <1>1, <2>1, <2>3, <3>1
  <2>4. CASE b # a
    BY <2>1, <2>4 DEF StoreTypeOK
  <2> QED
    BY <2>2, <2>3, <2>4
<1>5. OneActive'
  BY DEF OneActive, OpenRows
<1>6. LiveWasBuilt'
  <2> SUFFICES ASSUME NEW b \in App, NEW k \in DOMAIN history[b]
               PROVE  status'[b][history[b][k].rel] = "built"
    BY DEF LiveWasBuilt
  <2>1. history[b][k] \in Row
    BY DEF StoreTypeOK
  <2>2. history[b][k].rel \in Release
    BY <2>1 DEF Row
  <2>3. status[b][history[b][k].rel] = "built"
    BY DEF LiveWasBuilt
  <2> QED
    BY <1>2, <2>2, <2>3 DEF StoreTypeOK
<1> QED
  BY <1>3, <1>4, <1>5, <1>6

\* Only a row that is still BUILDING is sealed, and no such row is live.
LEMMA SealReleaseKeepsInv ==
  ASSUME StoreInv, NEW a \in App, NEW n \in Release, NEW s \in Sealed,
         SealRelease(a, n, s)
  PROVE  StoreInv'
<1> USE DEF StoreInv, SealRelease
<1>1. StoreTypeOK'
  BY DEF StoreTypeOK, Sealed
<1>2. NumbersHandedOut'
  BY DEF NumbersHandedOut, StoreTypeOK, Sealed
<1>3. OneActive'
  BY DEF OneActive, OpenRows
<1>4. LiveWasBuilt'
  <2> SUFFICES ASSUME NEW b \in App, NEW k \in DOMAIN history[b]
               PROVE  status'[b][history[b][k].rel] = "built"
    BY DEF LiveWasBuilt
  <2>1. history[b][k] \in Row
    BY DEF StoreTypeOK
  <2>2. history[b][k].rel \in Release
    BY <2>1 DEF Row
  <2>3. status[b][history[b][k].rel] = "built"
    BY DEF LiveWasBuilt
  <2> QED
    BY <2>2, <2>3 DEF StoreTypeOK
<1> QED
  BY <1>1, <1>2, <1>3, <1>4

\* Among the rows of an app, OneActive says: only the last one may be open.
LEMMA OneActiveRows ==
  ASSUME StoreInv, NEW a \in App
  PROVE  /\ history[a] \in Seq(Row)
         /\ Len(history[a]) \in Nat
         /\ DOMAIN history[a] = 1..Len(history[a])
         /\ \A k \in 1..Len(history[a]) :
               history[a][k].open => k = Len(history[a])
<1>1. history[a] \in Seq(Row)
  BY DEF StoreInv, StoreTypeOK
<1>2. DOMAIN history[a] = 1..Len(history[a]) /\ Len(history[a]) \in Nat
  BY <1>1
<1> QED
  BY <1>1, <1>2 DEF StoreInv, OneActive, OpenRows

\* A release that is live already is on record as BUILT, so that the switch
\* is to a BUILT release in both cases of CanActivate.
LEMMA ActiveIsBuilt ==
  ASSUME StoreInv, NEW a \in App, ActiveOf(a) # NoRelease
  PROVE  /\ ActiveOf(a) \in Release
         /\ status[a][ActiveOf(a)] = "built"
         /\ history[a] # << >>
<1>1. /\ history[a] \in Seq(Row)
      /\ DOMAIN history[a] = 1..Len(history[a])
  BY OneActiveRows
<1>2. OpenRows(a) # {}
  BY DEF ActiveOf
<1>3. PICK k \in OpenRows(a) : ActiveOf(a) = history[a][k].rel
  BY <1>2 DEF ActiveOf
<1>4. k \in DOMAIN history[a] /\ history[a][k] \in Row
  BY <1>1, <1>3 DEF OpenRows
<1>5. history[a] # << >>
  BY <1>1, <1>4
<1> QED
  BY <1>3, <1>4, <1>5 DEF StoreInv, LiveWasBuilt, Row

LEMMA SetActiveReleaseKeepsInv ==
  ASSUME StoreInv, NEW a \in App, NEW n \in Release, SetActiveRelease(a, n)
  PROVE  StoreInv'
<1>1. CASE ActiveOf(a) = n
  <2>1. UNCHANGED storeVars
    BY <1>1 DEF SetActiveRelease, storeVars
  <2> QED
    BY <2>1 DEF StoreInv, StoreTypeOK, NumbersHandedOut, OneActive, LiveWasBuilt,
                OpenRows, storeVars
<1>2. CASE ActiveOf(a) # n
  <2> DEFINE h == history[a]
             g == Append(CloseRows(h), [rel |-> n, open |-> TRUE])
  <2>1. /\ status[a][n] = "built"
        /\ history' = [history EXCEPT ![a] = g]
        /\ UNCHANGED <<apps, seq, status>>
    BY <1>2 DEF SetActiveRelease, CanActivate
  <2>2. h \in Seq(Row) /\ DOMAIN h = 1..Len(h) /\ Len(h) \in Nat
    BY OneActiveRows
  <2>3. /\ g \in Seq(Row)
        /\ Len(g) = Len(h) + 1
        /\ g[Len(h) + 1] = [rel |-> n, open |-> TRUE]
        /\ \A k \in 1..Len(h) : g[k].rel = h[k].rel /\ g[k].open = FALSE
    BY <2>2, AppendRowFacts
  <2> HIDE DEF g
  <2>4. DOMAIN g = 1..Len(h) + 1
    BY <2>2, <2>3
  <2>5. history'[a] = g /\ \A b \in App \ {a} : history'[b] = history[b]
    BY <2>1 DEF StoreInv, StoreTypeOK
  <2>6. a \in apps
    \* a release of an app without a row has no number
    BY <2>1, NumbersAreNatural
       DEF StoreInv, StoreTypeOK, NumbersHandedOut, Release
  <2>7. StoreTypeOK'
    BY <2>1, <2>3, <2>5, <2>6 DEF StoreInv, StoreTypeOK
  <2>8. NumbersHandedOut'
    BY <2>1 DEF StoreInv, NumbersHandedOut
  <2>9. OneActive'
    BY <2>2, <2>3, <2>4, <2>5 DEF StoreInv, OneActive, OpenRows
  <2>10. LiveWasBuilt'
    <3> SUFFICES ASSUME NEW b \in App, NEW k \in DOMAIN history'[b]
                 PROVE  status[b][history'[b][k].rel] = "built"
      BY <2>1 DEF LiveWasBuilt
    <3>1. CASE b # a
      BY <2>5, <3>1 DEF StoreInv, LiveWasBuilt
    <3>2. CASE b = a /\ k \in 1..Len(h)
      BY <2>2, <2>3, <2>5, <3>2 DEF StoreInv, LiveWasBuilt
    <3>3. CASE b = a /\ k = Len(h) + 1
      BY <2>1, <2>3, <2>5, <3>3
    <3> QED
      BY <2>2, <2>4, <2>5, <3>1, <3>2, <3>3
  <2> QED
    BY <2>7, <2>8, <2>9, <2>10 DEF StoreInv
<1> QED
  BY <1>1, <1>2

LEMMA ClearActiveReleaseKeepsInv ==
  ASSUME StoreInv, NEW a \in App, ClearActiveRelease(a)
  PROVE  StoreInv'
<1> DEFINE h == history[a]
           c == CloseRows(h)
<1>1. /\ OpenRows(a) # {}
      /\ history' = [history EXCEPT ![a] = c]
      /\ UNCHANGED <<apps, seq, status>>
  BY DEF ClearActiveRelease
<1>2. h \in Seq(Row)
  BY OneActiveRows
<1>3. /\ c \in Seq(Row)
      /\ DOMAIN c = DOMAIN h
      /\ Len(c) = Len(h)
      /\ \A k \in DOMAIN h : c[k].rel = h[k].rel /\ c[k].open = FALSE
  BY <1>2, CloseRowsFacts
<1> HIDE DEF c
<1>4. history'[a] = c /\ \A b \in App \ {a} : history'[b] = history[b]
  BY <1>1 DEF StoreInv, StoreTypeOK
<1>5. a \in apps
  BY <1>1 DEF StoreInv, StoreTypeOK, OpenRows
<1>6. StoreTypeOK'
  BY <1>1, <1>3, <1>4, <1>5 DEF StoreInv, StoreTypeOK
<1>7. NumbersHandedOut'
  BY <1>1 DEF StoreInv, NumbersHandedOut
<1>8. OneActive'
  BY <1>3, <1>4 DEF StoreInv, OneActive, OpenRows
<1>9. LiveWasBuilt'
  <2> SUFFICES ASSUME NEW b \in App, NEW k \in DOMAIN history'[b]
               PROVE  status[b][history'[b][k].rel] = "built"
    BY <1>1 DEF LiveWasBuilt
  <2> QED
    BY <1>3, <1>4 DEF StoreInv, LiveWasBuilt
<1> QED
  BY <1>6, <1>7, <1>8, <1>9 DEF StoreInv

LEMMA DeleteAppKeepsInv ==
  ASSUME StoreInv, NEW a \in App, DeleteApp(a)
  PROVE  StoreInv'
<1> USE DEF StoreInv, DeleteApp
<1>1. << >> \in Seq(Row)
  OBVIOUS
<1>2. StoreTypeOK'
  BY <1>1, BoundsAssumption DEF StoreTypeOK
<1>3. NumbersHandedOut'
  BY BoundsAssumption DEF StoreTypeOK, NumbersHandedOut, Release
<1>4. OneActive'
  BY DEF StoreTypeOK, OneActive, OpenRows
<1>5. LiveWasBuilt'
  BY DEF StoreTypeOK, LiveWasBuilt
<1> QED
  BY <1>2, <1>3, <1>4, <1>5

LEMMA StoreInvStep == StoreInv /\ [StoreNext]_storeVars => StoreInv'
<1> SUFFICES ASSUME StoreInv, [StoreNext]_storeVars PROVE StoreInv'
  OBVIOUS
<1>1. CASE StoreNext
  <2> PICK a \in App :
        \/ CreateApp(a)
        \/ StartRelease(a)
        \/ \E n \in Release, s \in Sealed : SealRelease(a, n, s)
        \/ \E n \in Release : SetActiveRelease(a, n)
        \/ ClearActiveRelease(a)
        \/ DeleteApp(a)
    BY <1>1 DEF StoreNext
  <2>1. CASE CreateApp(a)
    BY <2>1, CreateAppKeepsInv
  <2>2. CASE StartRelease(a)
    BY <2>2, StartReleaseKeepsInv
  <2>3. CASE \E n \in Release, s \in Sealed : SealRelease(a, n, s)
    BY <2>3, SealReleaseKeepsInv
  <2>4. CASE \E n \in Release : SetActiveRelease(a, n)
    BY <2>4, SetActiveReleaseKeepsInv
  <2>5. CASE ClearActiveRelease(a)
    BY <2>5, ClearActiveReleaseKeepsInv
  <2>6. CASE DeleteApp(a)
    BY <2>6, DeleteAppKeepsInv
  <2> QED
    BY <2>1, <2>2, <2>3, <2>4, <2>5, <2>6
<1>2. CASE UNCHANGED storeVars
  BY <1>2 DEF storeVars, StoreInv, StoreTypeOK, NumbersHandedOut, OneActive,
              LiveWasBuilt, OpenRows
<1> QED
  BY <1>1, <1>2

\* For any apps and bounds: the tables are well typed, an app has at most one
\* live release, and everything that is or was live had been built.
THEOREM StoreCorrect == StoreSpec => []StoreInv
  BY StoreInvInit, StoreInvStep, PTL DEF StoreSpec

\* The type invariant of the release store.
THEOREM StoreTypes == StoreSpec => []StoreTypeOK
  BY StoreCorrect, PTL DEF StoreInv

\* At most one live release of an app, the newest of its history.
THEOREM StoreOneActive == StoreSpec => []OneActive
  BY StoreCorrect, PTL DEF StoreInv

\* No release goes live that was not built.
THEOREM StoreLiveWasBuilt == StoreSpec => []LiveWasBuilt
  BY StoreCorrect, PTL DEF StoreInv

-----------------------------------------------------------------------------
(***************************************************************************)
(* What a step may never do.                                               *)
(***************************************************************************)

\* The live release of an app is that of its last row, if that row is open.
LEMMA ActiveIsLast ==
  ASSUME StoreInv, NEW a \in App, ActiveOf(a) # NoRelease
  PROVE  /\ Len(history[a]) > 0
         /\ history[a][Len(history[a])].open
         /\ ActiveOf(a) = history[a][Len(history[a])].rel
<1>1. /\ Len(history[a]) \in Nat
      /\ DOMAIN history[a] = 1..Len(history[a])
      /\ \A k \in 1..Len(history[a]) :
            history[a][k].open => k = Len(history[a])
  BY OneActiveRows
<1>2. PICK k \in OpenRows(a) : ActiveOf(a) = history[a][k].rel
  BY DEF ActiveOf
<1>3. k \in 1..Len(history[a]) /\ history[a][k].open
  BY <1>1, <1>2 DEF OpenRows
<1> QED
  BY <1>1, <1>2, <1>3

\* What a switch to a release that is not live does to the rows of its app.
LEMMA SwitchRows ==
  ASSUME StoreInv, NEW a \in App, NEW n \in Release, SetActiveRelease(a, n),
         ActiveOf(a) # n
  PROVE  /\ DOMAIN history'[a] = 1..Len(history[a]) + 1
         /\ history'[a][Len(history[a]) + 1] = [rel |-> n, open |-> TRUE]
         /\ \A k \in 1..Len(history[a]) :
               /\ history'[a][k].rel = history[a][k].rel
               /\ history'[a][k].open = FALSE
         /\ \A b \in App \ {a} : history'[b] = history[b]
<1> DEFINE h == history[a]
           g == Append(CloseRows(h), [rel |-> n, open |-> TRUE])
<1>1. history' = [history EXCEPT ![a] = g]
  BY DEF SetActiveRelease
<1>2. h \in Seq(Row) /\ Len(h) \in Nat
  BY OneActiveRows
<1>3. /\ g \in Seq(Row)
      /\ Len(g) = Len(h) + 1
      /\ g[Len(h) + 1] = [rel |-> n, open |-> TRUE]
      /\ \A k \in 1..Len(h) : g[k].rel = h[k].rel /\ g[k].open = FALSE
  BY <1>2, AppendRowFacts
<1> HIDE DEF g
<1>4. history'[a] = g /\ \A b \in App \ {a} : history'[b] = history[b]
  BY <1>1 DEF StoreInv, StoreTypeOK
<1>5. DOMAIN g = 1..Len(h) + 1
  BY <1>2, <1>3
<1> QED
  BY <1>3, <1>4, <1>5

\* An action that leaves the rows of an app alone leaves its live release and
\* its rollback target alone.
LEMMA SameRowsSameActive ==
  ASSUME NEW a \in App, history'[a] = history[a]
  PROVE  ActiveOf(a)' = ActiveOf(a) /\ PreviousOf(a)' = PreviousOf(a)
  BY DEF ActiveOf, PreviousOf, OpenRows, ClosedRows

\* Every step but a switch to another release leaves an app with the rows it
\* had, closes the open one, or drops them all with the app.
LEMMA StepRows ==
  ASSUME StoreInv, StoreNext, NEW a \in App
  PROVE  \/ history'[a] = history[a]
         \/ \E n \in Release : SetActiveRelease(a, n) /\ ActiveOf(a) # n
         \/ ClearActiveRelease(a)
         \/ DeleteApp(a)
<1> PICK b \in App :
      \/ CreateApp(b)
      \/ StartRelease(b)
      \/ \E n \in Release, s \in Sealed : SealRelease(b, n, s)
      \/ \E n \in Release : SetActiveRelease(b, n)
      \/ ClearActiveRelease(b)
      \/ DeleteApp(b)
  BY DEF StoreNext
<1>1. CASE CreateApp(b) \/ StartRelease(b)
  BY <1>1 DEF CreateApp, StartRelease
<1>2. CASE \E n \in Release, s \in Sealed : SealRelease(b, n, s)
  BY <1>2 DEF SealRelease
<1>3. CASE \E n \in Release : SetActiveRelease(b, n)
  <2> PICK n \in Release : SetActiveRelease(b, n)
    BY <1>3
  <2>1. CASE ActiveOf(b) = n
    BY <2>1 DEF SetActiveRelease
  <2>2. CASE ActiveOf(b) # n
    BY <2>2, SwitchRows
  <2> QED
    BY <2>1, <2>2
<1>4. CASE ClearActiveRelease(b) /\ b # a
  BY <1>4 DEF ClearActiveRelease, StoreInv, StoreTypeOK
<1>5. CASE DeleteApp(b) /\ b # a
  BY <1>5 DEF DeleteApp, StoreInv, StoreTypeOK
<1> QED
  BY <1>1, <1>2, <1>3, <1>4, <1>5

\* Only a switch changes which release is live to another release, and the
\* row it closes is the last closed one.
LEMMA RollbackReturnsStep ==
  ASSUME StoreInv, StoreNext, NEW a \in App,
         ActiveOf(a) # NoRelease, ActiveOf(a)' # NoRelease,
         ActiveOf(a)' # ActiveOf(a)
  PROVE  PreviousOf(a)' = ActiveOf(a)
<1>1. history'[a] # history[a]
  BY SameRowsSameActive
<1>2. ~ClearActiveRelease(a)
  <2> SUFFICES ASSUME ClearActiveRelease(a) PROVE FALSE
    OBVIOUS
  <2>1. history[a] \in Seq(Row)
    BY OneActiveRows
  <2>2. history'[a] = CloseRows(history[a])
    BY DEF ClearActiveRelease, StoreInv, StoreTypeOK
  <2>3. OpenRows(a)' = {}
    BY <2>1, <2>2, CloseRowsFacts DEF OpenRows
  <2> QED
    BY <2>3 DEF ActiveOf
<1>3. ~DeleteApp(a)
  BY DEF DeleteApp, ActiveOf
<1>4. PICK n \in Release : SetActiveRelease(a, n) /\ ActiveOf(a) # n
  BY <1>1, <1>2, <1>3, StepRows
<1> DEFINE top == Len(history[a])
<1>5. top \in Nat /\ top > 0 /\ ActiveOf(a) = history[a][top].rel
  BY OneActiveRows, ActiveIsLast
<1>6. /\ DOMAIN history'[a] = 1..top + 1
      /\ history'[a][top + 1] = [rel |-> n, open |-> TRUE]
      /\ \A k \in 1..top : /\ history'[a][k].rel = history[a][k].rel
                           /\ history'[a][k].open = FALSE
  BY <1>4, SwitchRows
<1>7. ClosedRows(a)' = 1..top
  <2>1. history'[a][top + 1].open = TRUE
    BY <1>6
  <2> QED
    BY <1>5, <1>6, <2>1 DEF ClosedRows
<1>8. PreviousOf(a)' =
        history'[a][CHOOSE k \in 1..top : \A j \in 1..top : j <= k].rel
  BY <1>5, <1>7 DEF PreviousOf
<1>9. (CHOOSE k \in 1..top : \A j \in 1..top : j <= k) = top
  BY <1>5
<1>10. PreviousOf(a)' = history'[a][top].rel
  BY <1>8, <1>9
<1>11. top \in 1..top
  BY <1>5
<1>12. history'[a][top].rel = history[a][top].rel
  BY <1>6, <1>11
<1> HIDE DEF top
<1> QED
  BY <1>5, <1>10, <1>12

\* For any apps and bounds: the release that just lost traffic is the next
\* rollback target.
THEOREM StoreRollbackReturns == StoreSpec => RollbackReturns
<1>1. StoreInv /\ [StoreNext]_storeVars =>
        [\A a \in App :
           (/\ ActiveOf(a) # NoRelease
            /\ ActiveOf(a)' # NoRelease
            /\ ActiveOf(a)' # ActiveOf(a)) => PreviousOf(a)' = ActiveOf(a)]_storeVars
  BY RollbackReturnsStep
<1> QED
  BY <1>1, StoreCorrect, PTL DEF StoreSpec, RollbackReturns

\* Closing or adding rows keeps those that are there; only deleting the app
\* drops them.
LEMMA RowsKept ==
  ASSUME StoreInv, StoreNext, NEW a \in App, ~DeleteApp(a),
         NEW k \in DOMAIN history[a]
  PROVE  /\ k \in DOMAIN history'[a]
         /\ history'[a][k].rel = history[a][k].rel
         /\ history'[a][k].open => history[a][k].open
<1>1. CASE history'[a] = history[a]
  BY <1>1
<1>2. CASE \E n \in Release : SetActiveRelease(a, n) /\ ActiveOf(a) # n
  <2> PICK n \in Release : SetActiveRelease(a, n) /\ ActiveOf(a) # n
    BY <1>2
  <2>1. /\ DOMAIN history'[a] = 1..Len(history[a]) + 1
        /\ \A j \in 1..Len(history[a]) :
              /\ history'[a][j].rel = history[a][j].rel
              /\ history'[a][j].open = FALSE
    BY SwitchRows
  <2>2. k \in 1..Len(history[a]) /\ Len(history[a]) \in Nat
    BY OneActiveRows
  <2> QED
    BY <2>1, <2>2
<1>3. CASE ClearActiveRelease(a)
  <2>1. history[a] \in Seq(Row)
    BY OneActiveRows
  <2>2. history'[a] = CloseRows(history[a])
    BY <1>3 DEF ClearActiveRelease, StoreInv, StoreTypeOK
  <2> QED
    BY <2>1, <2>2, CloseRowsFacts
<1> QED
  BY <1>1, <1>2, <1>3, StepRows

\* For any apps and bounds: no row of the history is lost or rewritten, and no
\* closed row is opened again, while the app exists.
THEOREM StoreHistoryAppendOnly == StoreSpec => HistoryAppendOnly
<1>1. ASSUME StoreInv, StoreNext, NEW a \in apps \cap apps'
      PROVE  a \in App /\ ~DeleteApp(a)
  BY <1>1 DEF StoreInv, StoreTypeOK, DeleteApp
<1>2. StoreInv /\ [StoreNext]_storeVars =>
        [\A a \in apps \cap apps' : \A k \in DOMAIN history[a] :
            /\ k \in DOMAIN history'[a]
            /\ history'[a][k].rel = history[a][k].rel
            /\ history'[a][k].open => history[a][k].open]_storeVars
  BY <1>1, RowsKept
<1> QED
  BY <1>2, StoreCorrect, PTL DEF StoreSpec, HistoryAppendOnly

\* For any apps and bounds: a release that is live never vanishes from the
\* record, because DeleteApp looks at liveness in its own transaction.
THEOREM StoreLiveNeverForgotten == StoreSpec => LiveNeverForgotten
<1>1. ASSUME StoreInv, StoreNext, NEW a \in App, ActiveOf(a) # NoRelease
      PROVE  \E k \in DOMAIN history'[a] : history'[a][k].rel = ActiveOf(a)
  <2> DEFINE top == Len(history[a])
  <2>1. /\ top \in DOMAIN history[a]
        /\ ActiveOf(a) = history[a][top].rel
    BY <1>1, OneActiveRows, ActiveIsLast
  <2>2. ~DeleteApp(a)
    BY <1>1 DEF DeleteApp, ActiveOf
  <2>3. top \in DOMAIN history'[a] /\ history'[a][top].rel = history[a][top].rel
    BY <1>1, <2>1, <2>2, RowsKept
  <2> QED
    BY <2>1, <2>3
<1>2. StoreInv /\ [StoreNext]_storeVars =>
        [\A a \in App : ActiveOf(a) # NoRelease =>
            \E k \in DOMAIN history'[a] : history'[a][k].rel = ActiveOf(a)]_storeVars
  BY <1>1
<1> QED
  BY <1>2, StoreCorrect, PTL DEF StoreSpec, LiveNeverForgotten

\* For any apps and bounds: a sealed build keeps its outcome and its number
\* while the app exists.
THEOREM StoreSealedForGood == StoreSpec => SealedForGood
<1>1. ASSUME StoreInv, StoreNext, NEW a \in apps \cap apps', NEW n \in Release,
             status[a][n] \in Sealed
      PROVE  status'[a][n] = status[a][n]
  <2>1. a \in App /\ ~DeleteApp(a)
    BY <1>1 DEF StoreInv, StoreTypeOK, DeleteApp
  <2>2. PICK b \in App :
          \/ CreateApp(b)
          \/ StartRelease(b)
          \/ \E m \in Release, s \in Sealed : SealRelease(b, m, s)
          \/ \E m \in Release : SetActiveRelease(b, m)
          \/ ClearActiveRelease(b)
          \/ DeleteApp(b)
    BY <1>1 DEF StoreNext
  <2>3. CASE StartRelease(b)
    <3>1. seq[b] + 1 \in Release /\ seq[b] \in Nat
      BY <1>1, <2>3, BoundsAssumption
         DEF StartRelease, StoreInv, StoreTypeOK, Release
    <3>2. status[b][seq[b] + 1] = "none"
      BY <1>1, <3>1 DEF StoreInv, NumbersHandedOut, Release
    <3> QED
      BY <1>1, <2>1, <2>3, <3>1, <3>2
         DEF StartRelease, StoreInv, StoreTypeOK, Sealed
  <2>4. CASE \E m \in Release, s \in Sealed : SealRelease(b, m, s)
    BY <1>1, <2>1, <2>4 DEF SealRelease, StoreInv, StoreTypeOK, Sealed
  <2>5. CASE \E m \in Release : SetActiveRelease(b, m)
    BY <2>5 DEF SetActiveRelease
  <2>6. CASE CreateApp(b) \/ ClearActiveRelease(b)
    BY <2>6 DEF CreateApp, ClearActiveRelease
  <2>7. CASE DeleteApp(b)
    BY <1>1, <2>1, <2>7 DEF DeleteApp, StoreInv, StoreTypeOK
  <2> QED
    BY <2>2, <2>3, <2>4, <2>5, <2>6, <2>7
<1>2. StoreInv /\ [StoreNext]_storeVars =>
        [\A a \in apps \cap apps', n \in Release :
            status[a][n] \in Sealed => status'[a][n] = status[a][n]]_storeVars
  BY <1>1
<1> QED
  BY <1>2, StoreCorrect, PTL DEF StoreSpec, SealedForGood

-----------------------------------------------------------------------------
(* The daemon's goroutines over the store. *)

\* The steps on the way to a switch, and those that remove containers.
Ahead == {"build", "guard", "inventory", "create", "start", "shrink", "gate", "activate"}
Removal == {"previous", "leftovers", "stop", "remove", "forget"}

\* A goroutine works on an app, and before a switch on a release.
Sound(j) ==
  /\ DOMAIN j = DOMAIN Idle
  /\ j.at \in Ahead => j.app \in App /\ j.rel \in Release
  /\ j.at \in Removal => j.app \in App

\* What was planned and is not loaded yet still fits, wherever the store has
\* not changed since the routes were settled.
PlanFits(j) ==
  /\ j.cfg \in [App -> SUBSET Slot]
  /\ \A b \in App : ~unsettled[b] => Fits(j.cfg, b)

JobInv ==
  /\ DOMAIN job = Proc
  /\ \A p \in Proc : /\ Sound(job[p])
                     /\ At(p, "load") <=> lock = p
                     /\ At(p, "load") => PlanFits(job[p])

Shape ==
  /\ replicas \in [App -> Nat]
  /\ route \in [App -> SUBSET Slot]
  /\ unsettled \in [App -> BOOLEAN]

RolloutInv == StoreInv /\ Shape /\ JobInv /\ SettledRoutes

\* Goroutine p takes a step that is not a reconciliation.
Moves(p) ==
  /\ DOMAIN job' = Proc
  /\ \A q \in Proc : q # p => job'[q] = job[q]
  /\ Sound(job'[p])
  /\ job[p].at # "load" /\ job'[p].at # "load"

\* What fitted the store still does, wherever the routes stay settled.
StillFits ==
  \A cfg \in [App -> SUBSET Slot], b \in App :
    ~unsettled'[b] /\ (~unsettled[b] => Fits(cfg, b)) =>
       \A s \in cfg[b] : s[1] = ActiveOf(b)' /\ s[2] < replicas'[b]

LEMMA ProcFacts ==
  /\ NoProc \notin Proc
  /\ Op \subseteq Proc /\ "main" \in Proc /\ "supervisor" \in Proc /\ "watcher" \in Proc
  BY RolloutAssumption DEF Proc

LEMMA IdleIsSound == Sound(Idle) /\ Idle.at = "idle"
  BY DEF Sound, Idle, Ahead, Removal

\* The live release and the rollback target are releases.
LEMMA QueriesFindReleases ==
  ASSUME StoreInv, NEW a \in App
  PROVE  /\ ActiveOf(a) # NoRelease => ActiveOf(a) \in Release
         /\ PreviousOf(a) # NoRelease => PreviousOf(a) \in Release
<1>1. /\ history[a] \in Seq(Row) /\ DOMAIN history[a] = 1..Len(history[a])
      /\ Len(history[a]) \in Nat
  BY OneActiveRows
<1>2. ASSUME NEW k \in DOMAIN history[a]
      PROVE  history[a][k].rel \in Release
  <2>1. history[a][k] \in Row
    BY <1>1, <1>2
  <2> QED
    BY <2>1 DEF Row
<1>3. ASSUME ClosedRows(a) # {}
      PROVE  PreviousOf(a) \in Release
  <2> DEFINE top == Len(history[a])
             last == IF history[a][top].open THEN top - 1 ELSE top
  <2>1. \A k \in 1..top : history[a][k].open => k = top
    BY OneActiveRows
  <2>2. \A k \in ClosedRows(a) : k \in 1..top /\ k <= last
    BY <1>1 DEF ClosedRows
  <2>3. last \in ClosedRows(a)
    <3>1. PICK k : k \in ClosedRows(a)
      BY <1>3
    <3>2. last \in 1..top
      BY <1>1, <2>2, <3>1
    <3>3. history[a][last].open => last = top
      BY <2>1, <3>2
    <3> QED
      BY <1>1, <3>2, <3>3 DEF ClosedRows
  <2>4. PICK k \in ClosedRows(a) : PreviousOf(a) = history[a][k].rel
    BY <1>3, <2>2, <2>3 DEF PreviousOf
  <2> QED
    BY <1>2, <2>4 DEF ClosedRows
<1> QED
  BY <1>3, ActiveIsBuilt DEF PreviousOf

-----------------------------------------------------------------------------
(* What a goroutine goes on as. *)

LEMMA GotoFacts ==
  ASSUME JobInv, NEW p \in Proc, NEW j, Goto(p, j)
  PROVE  /\ DOMAIN job' = Proc /\ job'[p] = j
         /\ \A q \in Proc : q # p => job'[q] = job[q]
  BY DEF JobInv, Goto

LEMMA ReturnFacts ==
  ASSUME JobInv, NEW p \in Proc, NEW report, Return(p, report)
  PROVE  /\ DOMAIN job' = Proc /\ \A q \in Proc : q # p => job'[q] = job[q]
         /\ Sound(job'[p]) /\ job'[p].at # "load"
<1> DEFINE reply == [Idle EXCEPT !.kind = job[p].kind, !.at = "reply",
                                 !.moved = job[p].moved, !.report = report]
<1>1. DOMAIN reply = DOMAIN Idle /\ reply.at = "reply"
  BY DEF Idle
<1>2. Goto(p, reply) \/ Goto(p, Idle)
  BY DEF Return
<1> HIDE DEF reply
<1>3. CASE Goto(p, reply)
  BY <1>1, <1>3, GotoFacts DEF Sound, Ahead, Removal
<1>4. CASE Goto(p, Idle)
  BY <1>4, GotoFacts, IdleIsSound
<1> QED
  BY <1>2, <1>3, <1>4

\* Another step of the way to a switch, for the same app and release.
SameWork(j, k) == DOMAIN k = DOMAIN Idle /\ k.app = j.app /\ k.rel = j.rel

LEMMA NextReplicaFacts ==
  ASSUME NEW j, DOMAIN j = DOMAIN Idle
  PROVE  SameWork(j, NextReplica(j)) /\ NextReplica(j).at \in {"start", "create", "gate", "shrink"}
  BY DEF NextReplica, SameWork, Idle

LEMMA GateCountsFacts ==
  ASSUME NEW j, DOMAIN j = DOMAIN Idle
  PROVE  /\ SameWork(j, GateCounts(j))
         /\ GateCounts(j).at = j.at \/ GateCounts(j).at \in {"plan", "activate"}
  BY DEF GateCounts, SameWork, Idle

\* On the way to a switch a goroutine stays sound.
LEMMA HeadMoves ==
  ASSUME JobInv, NEW p \in Proc, NEW k, Goto(p, k), job[p].at \in Ahead,
         SameWork(job[p], k), k.at \in Ahead \cup {"plan"}
  PROVE  Moves(p)
  BY GotoFacts DEF Moves, SameWork, Sound, JobInv, Ahead, Removal

LEMMA SoundMoves ==
  ASSUME JobInv, NEW p \in Proc, NEW k, Goto(p, k), job[p].at # "load",
         Sound(k), k.at # "load"
  PROVE  Moves(p)
  BY GotoFacts DEF Moves

LEMMA ReturnMoves ==
  ASSUME JobInv, NEW p \in Proc, NEW report, Return(p, report), job[p].at # "load"
  PROVE  Moves(p)
  BY ReturnFacts DEF Moves

-----------------------------------------------------------------------------
(* Steps that touch neither the store nor the proxy. *)

Untouched == UNCHANGED <<storeVars, replicas, route, lock, unsettled>>

LEMMA ReplicateMoves ==
  ASSUME RolloutInv, NEW p \in Proc, Replicate(p)
  PROVE  Moves(p) /\ Untouched
<1>0. JobInv /\ DOMAIN job[p] = DOMAIN Idle
  BY DEF RolloutInv, JobInv, Sound
<1> DEFINE j == job[p]
<1>1. Untouched /\ j.at \in Ahead /\ j.at # "load"
  BY DEF Replicate, Inventory, Create, Start, Shrink, At, Untouched, Ahead
<1>2. CASE Inventory(p)
  <2>1. PICK have, extra : Goto(p, NextReplica([j EXCEPT !.have = have, !.extra = extra]))
    BY <1>2 DEF Inventory
  <2>2. SameWork(j, [j EXCEPT !.have = have, !.extra = extra])
    BY <1>0 DEF SameWork, Idle
  <2> QED
    BY <1>0, <1>1, <2>1, <2>2, NextReplicaFacts, HeadMoves DEF SameWork, Ahead
<1>3. CASE Create(p)
  <2>1. \/ Goto(p, [j EXCEPT !.at = "start"])
        \/ Return(p, "failure")
    BY <1>3 DEF Create
  <2>2. SameWork(j, [j EXCEPT !.at = "start"]) /\ [j EXCEPT !.at = "start"].at = "start"
    BY <1>0 DEF SameWork, Idle
  <2> QED
    BY <1>0, <1>1, <2>1, <2>2, HeadMoves, ReturnMoves DEF Ahead
<1>4. CASE Start(p)
  <2>1. \/ Goto(p, NextReplica([j EXCEPT !.index = @ + 1]))
        \/ Return(p, "failure")
    BY <1>4 DEF Start
  <2>2. SameWork(j, [j EXCEPT !.index = @ + 1])
    BY <1>0 DEF SameWork, Idle
  <2> QED
    BY <1>0, <1>1, <2>1, <2>2, NextReplicaFacts, HeadMoves, ReturnMoves DEF SameWork, Ahead
<1>5. CASE Shrink(p)
  <2>1. PICK i \in j.extra :
          Goto(p, NextReplica([j EXCEPT !.extra = @ \ {i}, !.index = j.want]))
    BY <1>5 DEF Shrink
  <2>2. SameWork(j, [j EXCEPT !.extra = @ \ {i}, !.index = j.want])
    BY <1>0 DEF SameWork, Idle
  <2> QED
    BY <1>0, <1>1, <2>1, <2>2, NextReplicaFacts, HeadMoves DEF SameWork, Ahead
<1> QED
  BY <1>2, <1>3, <1>4, <1>5 DEF Replicate

LEMMA GateMoves ==
  ASSUME RolloutInv, NEW p \in Proc, Gate(p)
  PROVE  Moves(p) /\ Untouched
<1>0. JobInv /\ DOMAIN job[p] = DOMAIN Idle
  BY DEF RolloutInv, JobInv, Sound
<1>1. Untouched /\ job[p].at = "gate" /\ job[p].at \in Ahead
  BY DEF Gate, Measure, MeasureBad, GateExpires, At, Untouched, Ahead
<1>2. CASE Measure(p)
  BY <1>0, <1>1, <1>2, GateCountsFacts, HeadMoves DEF Measure, Ahead
<1>3. CASE MeasureBad(p)
  <2>1. /\ SameWork(job[p], [job[p] EXCEPT !.streak = 0])
        /\ [job[p] EXCEPT !.streak = 0].at = job[p].at
    BY <1>0 DEF SameWork, Idle
  <2> QED
    BY <1>0, <1>1, <1>3, <2>1, HeadMoves DEF MeasureBad
<1>4. CASE GateExpires(p)
  BY <1>0, <1>1, <1>4, ReturnMoves DEF GateExpires
<1> QED
  BY <1>2, <1>3, <1>4 DEF Gate

\* After the routes were moved, nothing is asked of the store any more.
LEMMA DrainMoves ==
  ASSUME RolloutInv, NEW p \in Proc, Drain(p)
  PROVE  Moves(p) /\ Untouched
<1>0. JobInv /\ DOMAIN job[p] = DOMAIN Idle
  BY DEF RolloutInv, JobInv, Sound
<1> DEFINE j == job[p]
<1>1. Untouched /\ j.at \in {"list", "drain"}
  BY DEF Drain, DrainList, DrainStop, DrainStopFails, DrainBroken, At, Untouched
<1>2. ASSUME NEW k, Goto(p, k), DOMAIN k = DOMAIN Idle, k.at \in {"list", "drain"}
      PROVE  Moves(p)
  BY <1>0, <1>1, <1>2, GotoFacts DEF Moves, Sound, Ahead, Removal
<1>3. ASSUME NEW k, Drained(p, k), DOMAIN k = DOMAIN Idle, k.at \in {"list", "drain"}
      PROVE  Moves(p)
  BY <1>0, <1>1, <1>2, <1>3, ReturnMoves DEF Drained
<1>4. CASE DrainList(p)
  <2>1. PICK todo : Goto(p, [j EXCEPT !.at = "drain", !.todo = todo]) \/ Return(p, "success")
    BY <1>4 DEF DrainList
  <2>2. /\ DOMAIN [j EXCEPT !.at = "drain", !.todo = todo] = DOMAIN Idle
        /\ [j EXCEPT !.at = "drain", !.todo = todo].at = "drain"
    BY <1>0 DEF Idle
  <2> QED
    BY <1>0, <1>1, <1>2, <2>1, <2>2, ReturnMoves
<1>5. CASE DrainStop(p)
  <2>1. PICK n \in j.todo : Drained(p, [j EXCEPT !.todo = @ \ {n}])
    BY <1>5 DEF DrainStop
  <2>2. /\ DOMAIN [j EXCEPT !.todo = @ \ {n}] = DOMAIN Idle
        /\ [j EXCEPT !.todo = @ \ {n}].at = j.at
    BY <1>0 DEF Idle
  <2> QED
    BY <1>1, <1>3, <2>1, <2>2
<1>6. CASE DrainStopFails(p)
  <2>1. PICK n \in j.todo : Drained(p, [j EXCEPT !.todo = @ \ {n}, !.leak = TRUE])
    BY <1>6 DEF DrainStopFails
  <2>2. /\ DOMAIN [j EXCEPT !.todo = @ \ {n}, !.leak = TRUE] = DOMAIN Idle
        /\ [j EXCEPT !.todo = @ \ {n}, !.leak = TRUE].at = j.at
    BY <1>0 DEF Idle
  <2> QED
    BY <1>1, <1>3, <2>1, <2>2
<1>7. CASE DrainBroken(p)
  BY <1>0, <1>1, <1>7, ReturnMoves DEF DrainBroken
<1> QED
  BY <1>4, <1>5, <1>6, <1>7 DEF Drain

\* A handler begins, or has answered; the supervisor visits and looks again.
LEMMA BeginMoves ==
  ASSUME RolloutInv, NEW p \in Proc,
         \/ \E a \in App : BeginRollback(p, a) \/ BeginPrune(p, a) \/ BeginDelete(p, a)
         \/ Reply(p)
         \/ p = "supervisor" /\ (Guard \/ \E a \in App : Visit(a))
  PROVE  Moves(p) /\ Untouched
<1>0. JobInv /\ DOMAIN job[p] = DOMAIN Idle /\ Sound(job[p])
  BY DEF RolloutInv, JobInv, Sound
<1>1. Untouched /\ job[p].at \in {"idle", "reply", "guard"}
  BY DEF BeginRollback, BeginPrune, BeginDelete, Reply, Guard, Visit, MayCall, At, Untouched
<1>3. ASSUME NEW a \in App, BeginRollback(p, a)
      PROVE  Moves(p)
  <2> DEFINE k == [Idle EXCEPT !.kind = "rollback", !.at = "inventory", !.app = a,
                               !.rel = PreviousOf(a), !.want = replicas[a]]
  <2>1. Goto(p, k) /\ PreviousOf(a) \in Release
    BY <1>3, QueriesFindReleases DEF BeginRollback, RolloutInv
  <2>2. DOMAIN k = DOMAIN Idle /\ k.at = "inventory" /\ k.app = a /\ k.rel = PreviousOf(a)
    BY DEF Idle
  <2> HIDE DEF k
  <2> QED
    BY <1>0, <1>1, <2>1, <2>2, SoundMoves DEF Sound, Removal
<1>4. ASSUME NEW a \in App, BeginPrune(p, a)
      PROVE  Moves(p)
  <2> DEFINE k == [Idle EXCEPT !.kind = "prune", !.at = "previous", !.app = a,
                               !.keep = {ActiveOf(a)}]
  <2>1. Goto(p, k)
    BY <1>4 DEF BeginPrune
  <2>2. DOMAIN k = DOMAIN Idle /\ k.at = "previous" /\ k.app = a
    BY DEF Idle
  <2> HIDE DEF k
  <2> QED
    BY <1>0, <1>1, <2>1, <2>2, SoundMoves DEF Sound, Ahead
<1>5. ASSUME NEW a \in App, BeginDelete(p, a)
      PROVE  Moves(p)
  <2> DEFINE k == [Idle EXCEPT !.kind = "delete", !.at = "leftovers", !.app = a]
  <2>1. Goto(p, k)
    BY <1>5 DEF BeginDelete
  <2>2. DOMAIN k = DOMAIN Idle /\ k.at = "leftovers" /\ k.app = a
    BY DEF Idle
  <2> HIDE DEF k
  <2> QED
    BY <1>0, <1>1, <2>1, <2>2, SoundMoves DEF Sound, Ahead
<1>6. CASE Reply(p)
  <2>1. Goto(p, Idle)
    BY <1>6 DEF Reply
  <2>2. Sound(Idle) /\ Idle.at # "load"
    BY IdleIsSound
  <2> QED
    BY <1>0, <1>1, <2>1, <2>2, SoundMoves
<1>7. ASSUME p = "supervisor", NEW a \in App, Visit(a)
      PROVE  Moves(p)
  <2> DEFINE k == [Idle EXCEPT !.kind = "heal", !.at = "guard", !.app = a,
                               !.rel = ActiveOf(a), !.want = replicas[a]]
  <2>1. Goto(p, k) /\ ActiveOf(a) \in Release
    BY <1>7, QueriesFindReleases DEF Visit, RolloutInv
  <2>2. DOMAIN k = DOMAIN Idle /\ k.at = "guard" /\ k.app = a /\ k.rel = ActiveOf(a)
    BY DEF Idle
  <2> HIDE DEF k
  <2> QED
    BY <1>0, <1>1, <2>1, <2>2, SoundMoves DEF Sound, Removal
<1>8. CASE p = "supervisor" /\ Guard
  <2> DEFINE k == [job[p] EXCEPT !.at = "inventory"]
  <2>1. (Goto(p, k) \/ Goto(p, Idle)) /\ job[p].at = "guard"
    BY <1>8 DEF Guard, At
  <2>2. SameWork(job[p], k) /\ k.at = "inventory"
    BY <1>0 DEF SameWork, Idle
  <2> HIDE DEF k
  <2>3. CASE Goto(p, k)
    <3>1. job[p].at \in Ahead /\ k.at \in Ahead \cup {"plan"}
      BY <2>1, <2>2 DEF Ahead
    <3> QED
      BY <1>0, <1>1, <2>2, <2>3, <3>1, HeadMoves
  <2>4. CASE Goto(p, Idle)
    <3>1. Sound(Idle) /\ Idle.at # "load"
      BY IdleIsSound
    <3> QED
      BY <1>0, <1>1, <2>4, <3>1, SoundMoves
  <2> QED
    BY <2>1, <2>3, <2>4
<1> QED
  BY <1>1, <1>3, <1>4, <1>5, <1>6, <1>7, <1>8

\* So does one that removes containers, on the same app.
LEMMA RemovalStep ==
  ASSUME JobInv, NEW p \in Proc, NEW k, Goto(p, k), job[p].at # "load", job[p].app \in App,
         DOMAIN k = DOMAIN Idle, k.app = job[p].app, k.at \in Removal
  PROVE  Moves(p)
  BY SoundMoves DEF Sound, Ahead, Removal

LEMMA NextLeftoverMoves ==
  ASSUME JobInv, NEW p \in Proc, NEW k, NextLeftover(p, k), job[p].at # "load",
         job[p].app \in App, DOMAIN k = DOMAIN Idle, k.app = job[p].app
  PROVE  Moves(p)
<1> DEFINE stop == [k EXCEPT !.at = "stop"]
           forget == [k EXCEPT !.at = "forget"]
<1>1. /\ DOMAIN stop = DOMAIN Idle /\ stop.app = job[p].app /\ stop.at \in Removal
      /\ DOMAIN forget = DOMAIN Idle /\ forget.app = job[p].app /\ forget.at \in Removal
  BY DEF Idle, Removal
<1>2. Goto(p, stop) \/ Goto(p, forget) \/ Return(p, "success")
  BY DEF NextLeftover
<1> HIDE DEF stop, forget
<1> QED
  BY <1>1, <1>2, RemovalStep, ReturnMoves

LEMMA RemovalMoves ==
  ASSUME RolloutInv, NEW p \in Proc,
         KeepPrevious(p) \/ Leftovers(p) \/ StopLeftover(p) \/ RemoveLeftover(p)
  PROVE  Moves(p) /\ Untouched
<1>0. JobInv /\ DOMAIN job[p] = DOMAIN Idle /\ Sound(job[p])
  BY DEF RolloutInv, JobInv, Sound
<1> DEFINE j == job[p]
<1>1. Untouched /\ j.at \in {"previous", "leftovers", "stop", "remove"} /\ j.app \in App
  BY <1>0 DEF KeepPrevious, Leftovers, StopLeftover, RemoveLeftover, At, Untouched, Sound, Removal
<1>4. CASE KeepPrevious(p)
  <2>1. PICK keep : Goto(p, [j EXCEPT !.at = "leftovers", !.keep = keep])
    BY <1>4 DEF KeepPrevious
  <2> DEFINE k == [j EXCEPT !.at = "leftovers", !.keep = keep]
  <2>2. DOMAIN k = DOMAIN Idle /\ k.app = job[p].app /\ k.at \in Removal /\ Goto(p, k)
    BY <1>0, <2>1 DEF Idle, Removal
  <2> HIDE DEF k
  <2> QED
    BY <1>0, <1>1, <2>2, RemovalStep
<1>5. CASE Leftovers(p)
  <2>1. PICK todo : NextLeftover(p, [j EXCEPT !.todo = todo])
    BY <1>5 DEF Leftovers
  <2> DEFINE k == [j EXCEPT !.todo = todo]
  <2>2. DOMAIN k = DOMAIN Idle /\ k.app = job[p].app /\ NextLeftover(p, k)
    BY <1>0, <2>1 DEF Idle
  <2> HIDE DEF k
  <2> QED
    BY <1>0, <1>1, <2>2, NextLeftoverMoves
<1>6. CASE StopLeftover(p)
  <2>1. PICK n : Goto(p, [j EXCEPT !.at = "remove", !.rel = n])
    BY <1>6 DEF StopLeftover
  <2> DEFINE k == [j EXCEPT !.at = "remove", !.rel = n]
  <2>2. DOMAIN k = DOMAIN Idle /\ k.app = job[p].app /\ k.at \in Removal /\ Goto(p, k)
    BY <1>0, <2>1 DEF Idle, Removal
  <2> HIDE DEF k
  <2> QED
    BY <1>0, <1>1, <2>2, RemovalStep
<1>7. CASE RemoveLeftover(p)
  <2> DEFINE k == [j EXCEPT !.todo = @ \ {j.rel}, !.rel = NoRelease]
  <2>1. NextLeftover(p, k)
    BY <1>7 DEF RemoveLeftover
  <2>2. DOMAIN k = DOMAIN Idle /\ k.app = job[p].app
    BY <1>0 DEF Idle
  <2> HIDE DEF k
  <2> QED
    BY <1>0, <1>1, <2>1, <2>2, NextLeftoverMoves
<1> QED
  BY <1>1, <1>4, <1>5, <1>6, <1>7

\* A call that fails, outside of a reconciliation, ends the handler.
LEMMA FailureMoves ==
  ASSUME RolloutInv, NEW p \in Proc, CallFails(p)
  PROVE  Moves(p) /\ Untouched
<1>1. Untouched /\ job[p].at # "load" /\ Return(p, "failure")
  BY DEF CallFails, Untouched
<1> QED
  BY <1>1, ReturnMoves DEF RolloutInv

-----------------------------------------------------------------------------
(* Steps of the store. *)

\* A step of the store after which what fitted still fits.
StoreStep == [StoreNext]_storeVars /\ Shape' /\ StillFits /\ UNCHANGED <<route, lock>>

\* The live releases and the scales are what they were, or the routes of the
\* app are not settled.
LEMMA SameStoreFits ==
  ASSUME \A b \in App : ~unsettled'[b] => /\ ~unsettled[b] /\ ActiveOf(b)' = ActiveOf(b)
                                         /\ replicas'[b] = replicas[b]
  PROVE  StillFits
  BY DEF StillFits, Fits

LEMMA SameHistorySameActive ==
  ASSUME UNCHANGED history
  PROVE  \A b \in App : ActiveOf(b)' = ActiveOf(b)
  BY DEF ActiveOf, OpenRows

LEMMA UntouchedIsStoreStep ==
  ASSUME RolloutInv, Untouched
  PROVE  StoreStep
<1>1. /\ UNCHANGED storeVars /\ UNCHANGED history
      /\ UNCHANGED replicas /\ UNCHANGED unsettled /\ UNCHANGED route /\ UNCHANGED lock
  BY DEF Untouched, storeVars
<1>2. Shape'
  BY <1>1 DEF RolloutInv, Shape
<1>3. StillFits
  BY <1>1, SameHistorySameActive, SameStoreFits
<1> QED
  BY <1>1, <1>2, <1>3 DEF StoreStep

LEMMA BuildSteps ==
  ASSUME RolloutInv, NEW p \in Proc,
         BuildDone(p) \/ BuildFailed(p) \/ \E a \in App : BeginDeploy(p, a)
  PROVE  Moves(p) /\ StoreStep
<1>0. JobInv /\ DOMAIN job[p] = DOMAIN Idle /\ Sound(job[p])
  BY DEF RolloutInv, JobInv, Sound
<1>1. UNCHANGED <<replicas, route, lock, unsettled>> /\ UNCHANGED history
  BY DEF BuildDone, BuildFailed, BeginDeploy, StartRelease, SealRelease, storeVars
<1>2. Shape' /\ StillFits
  BY <1>1, SameHistorySameActive, SameStoreFits DEF RolloutInv, Shape
<1>3. ASSUME [StoreNext]_storeVars
      PROVE  StoreStep
  BY <1>1, <1>2, <1>3 DEF StoreStep
<1>4. ASSUME NEW a \in App, BeginDeploy(p, a)
      PROVE  Moves(p) /\ StoreStep
  <2> DEFINE k == [Idle EXCEPT !.kind = "deploy", !.at = "build", !.app = a,
                               !.rel = seq[a] + 1, !.want = replicas[a]]
  <2>1. Goto(p, k) /\ StartRelease(a) /\ job[p].at # "load"
    BY <1>4 DEF BeginDeploy, MayCall, At
  <2>2. seq[a] + 1 \in Release
    BY <2>1, BoundsAssumption DEF StartRelease, Release, RolloutInv, StoreInv, StoreTypeOK
  <2>3. DOMAIN k = DOMAIN Idle /\ k.at = "build" /\ k.app = a /\ k.rel = seq[a] + 1
    BY DEF Idle
  <2> HIDE DEF k
  <2>4. Sound(k) /\ k.at # "load"
    BY <2>2, <2>3 DEF Sound, Removal
  <2>5. Moves(p)
    BY <1>0, <2>1, <2>4, SoundMoves
  <2>6. StoreStep
    BY <1>3, <2>1 DEF StoreNext
  <2> QED
    BY <2>5, <2>6
<1>5. CASE BuildDone(p)
  <2>1. job[p].at = "build" /\ job[p].app \in App /\ job[p].rel \in Release
    BY <1>0, <1>5 DEF BuildDone, At, Sound, Ahead
  <2>2. StoreStep
    BY <1>3, <1>5, <2>1 DEF BuildDone, StoreNext, Sealed
  <2>3. Moves(p)
    <3>1. Goto(p, NextReplica(job[p])) /\ job[p].at \in Ahead
      BY <1>5, <2>1 DEF BuildDone, Ahead
    <3>2. SameWork(job[p], NextReplica(job[p])) /\ NextReplica(job[p]).at \in Ahead
      BY <1>0, NextReplicaFacts DEF Ahead
    <3> QED
      BY <1>0, <3>1, <3>2, HeadMoves
  <2> QED
    BY <2>2, <2>3
<1>6. CASE BuildFailed(p)
  <2>1. job[p].at = "build" /\ job[p].app \in App /\ job[p].rel \in Release
    BY <1>0, <1>6 DEF BuildFailed, At, Sound, Ahead
  <2>2. StoreStep
    BY <1>3, <1>6, <2>1 DEF BuildFailed, StoreNext, Sealed
  <2>3. Moves(p)
    BY <1>0, <1>6, <2>1, ReturnMoves DEF BuildFailed
  <2> QED
    BY <2>2, <2>3
<1> QED
  BY <1>4, <1>5, <1>6

\* The switch in the store leaves the routes of its app unsettled.
LEMMA ActivateStep ==
  ASSUME RolloutInv, NEW p \in Proc, Activate(p)
  PROVE  Moves(p) /\ StoreStep
<1> DEFINE j == job[p]
<1>0. /\ JobInv /\ DOMAIN j = DOMAIN Idle /\ Sound(j)
      /\ UNCHANGED <<replicas, route, lock>>
  BY DEF RolloutInv, JobInv, Sound, Activate
<1>1. j.at = "activate" /\ j.at \in Ahead /\ j.app \in App /\ j.rel \in Release
  BY <1>0 DEF Activate, At, Sound, Ahead
<1>2. CASE ~CanActivate(j.app, j.rel)
  <2>1. Untouched /\ Return(p, "failure")
    BY <1>0, <1>2 DEF Activate, Untouched
  <2> QED
    BY <1>0, <1>1, <2>1, ReturnMoves, UntouchedIsStoreStep
<1>3. CASE CanActivate(j.app, j.rel)
  <2>1. /\ SetActiveRelease(j.app, j.rel)
        /\ unsettled' = [unsettled EXCEPT ![j.app] = @ \/ ActiveOf(j.app) # j.rel]
        /\ Goto(p, [j EXCEPT !.at = "plan"])
    BY <1>3 DEF Activate
  <2>2. StoreNext
    BY <1>1, <2>1 DEF StoreNext
  <2>3. Shape'
    BY <1>0, <2>1 DEF RolloutInv, Shape
  <2>4. StillFits
    <3>1. ASSUME NEW b \in App, ~unsettled'[b]
          PROVE  ~unsettled[b] /\ ActiveOf(b)' = ActiveOf(b)
      <4>1. ~unsettled[b] /\ (b = j.app => ActiveOf(b) = j.rel)
        BY <2>1, <3>1 DEF RolloutInv, Shape
      <4>2. history'[b] = history[b]
        BY <1>1, <2>1, <4>1 DEF SetActiveRelease, RolloutInv, StoreInv, StoreTypeOK
      <4> QED
        BY <4>1, <4>2, SameRowsSameActive
    <3> QED
      BY <1>0, <3>1, SameStoreFits
  <2>5. Moves(p)
    <3>1. SameWork(j, [j EXCEPT !.at = "plan"]) /\ [j EXCEPT !.at = "plan"].at = "plan"
      BY <1>0 DEF SameWork, Idle
    <3> QED
      BY <1>0, <1>1, <2>1, <3>1, HeadMoves
  <2> QED
    BY <1>0, <2>2, <2>3, <2>4, <2>5 DEF StoreStep
<1> QED
  BY <1>2, <1>3

\* The rows of an app go when it is not live, and then nothing is live.
LEMMA ForgetStep ==
  ASSUME RolloutInv, NEW p \in Proc, Forget(p)
  PROVE  Moves(p) /\ StoreStep
<1> DEFINE a == job[p].app
<1>0. /\ JobInv /\ Sound(job[p])
      /\ UNCHANGED <<replicas, route, lock, unsettled>>
  BY DEF RolloutInv, JobInv, Forget
<1>1. job[p].at = "forget" /\ a \in App
  BY <1>0 DEF Forget, At, Sound, Removal
<1>2. Moves(p)
  BY <1>0, <1>1, ReturnMoves DEF Forget
<1>3. CASE UNCHANGED storeVars
  <2>1. Untouched
    BY <1>0, <1>3 DEF Untouched
  <2> QED
    BY <1>2, <2>1, UntouchedIsStoreStep
<1>4. CASE DeleteApp(a) /\ OpenRows(a) = {}
  <2>1. StoreNext
    BY <1>1, <1>4 DEF StoreNext
  <2>2. Shape'
    BY <1>0 DEF RolloutInv, Shape
  <2>3. ASSUME NEW b \in App
        PROVE  ActiveOf(b)' = ActiveOf(b)
    <3>1. CASE b = a
      <4>1. history'[b] = << >>
        BY <1>4, <3>1 DEF DeleteApp, RolloutInv, StoreInv, StoreTypeOK
      <4>2. OpenRows(b)' = {}
        BY <4>1 DEF OpenRows
      <4> QED
        BY <1>4, <3>1, <4>2 DEF ActiveOf
    <3>2. CASE b # a
      <4>1. history'[b] = history[b]
        BY <1>4, <3>2 DEF DeleteApp, RolloutInv, StoreInv, StoreTypeOK
      <4> QED
        BY <4>1, SameRowsSameActive
    <3> QED
      BY <3>1, <3>2
  <2>4. StillFits
    BY <1>0, <2>3, SameStoreFits
  <2> QED
    BY <1>0, <1>2, <2>1, <2>2, <2>4 DEF StoreStep
<1> QED
  BY <1>3, <1>4 DEF Forget

\* A smaller scale leaves the routes of the app unsettled, a larger one fits.
LEMMA UpdateStep ==
  ASSUME RolloutInv, NEW p \in Proc, NEW a \in App, NEW want \in 1..MaxReplicas,
         BeginUpdate(p, a, want)
  PROVE  Moves(p) /\ StoreStep
<1>0. /\ JobInv /\ Shape /\ job[p].at # "load" /\ want \in Nat
      /\ UNCHANGED storeVars /\ UNCHANGED history /\ UNCHANGED <<route, lock>>
      /\ replicas' = [replicas EXCEPT ![a] = want]
      /\ unsettled' = [unsettled EXCEPT ![a] = @ \/ want < replicas[a]]
  BY RolloutAssumption DEF RolloutInv, BeginUpdate, MayCall, At, storeVars
<1>1. Shape'
  BY <1>0 DEF Shape
<1>2. StillFits
  <2> SUFFICES ASSUME NEW cfg \in [App -> SUBSET Slot], NEW b \in App, ~unsettled'[b],
                      ~unsettled[b] => Fits(cfg, b), NEW s \in cfg[b]
               PROVE  s[1] = ActiveOf(b)' /\ s[2] < replicas'[b]
    BY DEF StillFits
  <2>1. /\ ~unsettled[b] /\ replicas[b] \in Nat /\ replicas'[b] \in Nat
        /\ replicas[b] <= replicas'[b]
    <3>1. ~unsettled[b] /\ (b = a => ~(want < replicas[b]))
      BY <1>0, Zenon DEF Shape
    <3>2. replicas[b] \in Nat /\ replicas'[b] = IF b = a THEN want ELSE replicas[b]
      BY <1>0 DEF Shape
    <3> QED
      BY <1>0, <3>1, <3>2
  <2>2. s[1] = ActiveOf(b) /\ s[2] < replicas[b] /\ s[2] \in Nat
    BY <2>1, RolloutAssumption DEF Fits, Slot, Index
  <2>3. ActiveOf(b)' = ActiveOf(b)
    BY <1>0, SameHistorySameActive
  <2> QED
    BY <2>1, <2>2, <2>3
<1>3. Moves(p)
  <2> DEFINE k == [Idle EXCEPT !.kind = "update", !.at = "plan", !.app = a]
  <2>1. Goto(p, k)
    BY DEF BeginUpdate
  <2>2. DOMAIN k = DOMAIN Idle /\ k.at = "plan"
    BY DEF Idle
  <2> HIDE DEF k
  <2>3. Sound(k) /\ k.at # "load"
    BY <2>2 DEF Sound, Ahead, Removal
  <2> QED
    BY <1>0, <2>1, <2>3, SoundMoves
<1> QED
  BY <1>0, <1>1, <1>2, <1>3 DEF StoreStep

\* An app that is new on record has no route.
LEMMA RegisterStep ==
  ASSUME RolloutInv, NEW a \in App, NEW want \in 1..MaxReplicas, Register(a, want)
  PROVE  StoreStep /\ UNCHANGED job
<1>0. /\ Shape /\ UNCHANGED <<route, lock, unsettled, job>> /\ UNCHANGED history
      /\ CreateApp(a) /\ a \notin apps /\ replicas' = [replicas EXCEPT ![a] = want]
      /\ want \in Nat
  BY RolloutAssumption DEF RolloutInv, Register, CreateApp
<1>1. StoreNext /\ Shape'
  BY <1>0 DEF StoreNext, Shape
<1>2. ActiveOf(a) = NoRelease
  BY <1>0 DEF RolloutInv, StoreInv, StoreTypeOK, ActiveOf, OpenRows
<1>3. StillFits
  <2> SUFFICES ASSUME NEW cfg \in [App -> SUBSET Slot], NEW b \in App, ~unsettled'[b],
                      ~unsettled[b] => Fits(cfg, b), NEW s \in cfg[b]
               PROVE  s[1] = ActiveOf(b)' /\ s[2] < replicas'[b]
    BY DEF StillFits
  <2>1. s[1] = ActiveOf(b) /\ s[2] < replicas[b] /\ s[1] \in Release
    BY <1>0 DEF Fits, Slot
  <2>2. b # a
    BY <1>2, <2>1, NumbersAreNatural
  <2>3. replicas'[b] = replicas[b]
    BY <1>0, <2>2 DEF Shape
  <2>4. ActiveOf(b)' = ActiveOf(b)
    BY <1>0, SameHistorySameActive
  <2> QED
    BY <2>1, <2>3, <2>4
<1> QED
  BY <1>0, <1>1, <1>3 DEF StoreStep

\* A step of one goroutine, or of none, keeps the invariant.
LEMMA StoreStepKeepsInv ==
  ASSUME RolloutInv, StoreStep, UNCHANGED job \/ \E p \in Proc : Moves(p)
  PROVE  RolloutInv'
<1>1. StoreInv'
  BY StoreInvStep DEF RolloutInv, StoreStep
<1>2. Shape' /\ UNCHANGED <<route, lock>>
  BY DEF StoreStep
<1>3. SettledRoutes'
  <2>1. route' \in [App -> SUBSET Slot] /\ \A b \in App : ~unsettled[b] => Fits(route', b)
    BY <1>2 DEF RolloutInv, SettledRoutes, Shape
  <2>2. \A b \in App : ~unsettled'[b] =>
          \A s \in route'[b] : s[1] = ActiveOf(b)' /\ s[2] < replicas'[b]
    BY <2>1 DEF StoreStep, StillFits
  <2> QED
    BY <2>2 DEF SettledRoutes, Fits
<1>4. DOMAIN job' = Proc
  BY DEF RolloutInv, JobInv, Moves
<1>5. ASSUME NEW q \in Proc
      PROVE  /\ Sound(job'[q])
             /\ job'[q].at = "load" <=> job[q].at = "load"
             /\ job[q].at = "load" => job'[q] = job[q]
  BY <1>5 DEF RolloutInv, JobInv, Moves
<1>6. ASSUME NEW q \in Proc, job[q].at = "load"
      PROVE  PlanFits(job[q])'
  <2>1. job'[q] = job[q] /\ PlanFits(job[q])
    BY <1>5, <1>6 DEF RolloutInv, JobInv, At
  <2>2. job'[q].cfg \in [App -> SUBSET Slot]
        /\ \A b \in App : ~unsettled[b] => Fits(job'[q].cfg, b)
    BY <2>1 DEF PlanFits
  <2>3. \A b \in App : ~unsettled'[b] =>
          \A s \in job'[q].cfg[b] : s[1] = ActiveOf(b)' /\ s[2] < replicas'[b]
    BY <2>2 DEF StoreStep, StillFits
  <2> QED
    BY <2>2, <2>3 DEF PlanFits, Fits
<1>7. JobInv'
  BY <1>2, <1>4, <1>5, <1>6 DEF RolloutInv, JobInv, At
<1> QED
  BY <1>1, <1>2, <1>3, <1>7 DEF RolloutInv

-----------------------------------------------------------------------------
(* Reconciliation. *)

\* What Reconcile plans fits the store, for all apps.
LEMMA PlannedFits ==
  ASSUME NEW lost
  PROVE  /\ Planned(lost) \in [App -> SUBSET Slot]
         /\ \A b \in App : Fits(Planned(lost), b)
  BY DEF Planned, Upstreams, Fits

\* A reconciliation begins: its plan fits until the store changes.
LEMMA LockKeepsInv ==
  ASSUME RolloutInv, NEW p \in Proc, NEW k, Goto(p, k), lock = NoProc, lock' = p,
         UNCHANGED <<storeVars, replicas, route, unsettled>>,
         Sound(k), k.at = "load", k.cfg \in [App -> SUBSET Slot],
         \A b \in App : ~unsettled[b] => Fits(k.cfg, b)
  PROVE  RolloutInv'
<1>1. /\ DOMAIN job' = Proc /\ job'[p] = k /\ \A q \in Proc : q # p => job'[q] = job[q]
  BY GotoFacts DEF RolloutInv
<1>2. UNCHANGED storeVars /\ UNCHANGED history /\ UNCHANGED <<replicas, route, unsettled>>
  BY DEF storeVars
<1>3. StoreInv' /\ Shape'
  BY <1>2, StoreInvStep DEF RolloutInv, Shape
<1>4. \A b \in App : ActiveOf(b)' = ActiveOf(b)
  BY <1>2, SameHistorySameActive
<1>5. SettledRoutes'
  BY <1>2, <1>4 DEF RolloutInv, SettledRoutes, Fits
<1>6. PlanFits(job[p])'
  <2>1. \A b \in App : ~unsettled'[b] =>
          \A s \in job'[p].cfg[b] : s[1] = ActiveOf(b)' /\ s[2] < replicas'[b]
    BY <1>1, <1>2, <1>4 DEF Fits
  <2> QED
    BY <1>1, <2>1 DEF PlanFits, Fits
<1>7. ASSUME NEW q \in Proc
      PROVE  Sound(job'[q]) /\ (job'[q].at = "load" <=> q = p)
  BY <1>1, <1>7, ProcFacts DEF RolloutInv, JobInv, At
<1>8. JobInv'
  BY <1>1, <1>6, <1>7 DEF JobInv, At
<1> QED
  BY <1>3, <1>5, <1>8 DEF RolloutInv

\* A reconciliation ends, with its plan loaded or not.
LEMMA UnlockKeepsInv ==
  ASSUME RolloutInv, NEW p \in Proc, job[p].at = "load", lock' = NoProc,
         UNCHANGED <<storeVars, replicas>>,
         UNCHANGED <<route, unsettled>> \/ Loaded(job[p].cfg),
         DOMAIN job' = Proc, \A q \in Proc : q # p => job'[q] = job[q],
         Sound(job'[p]), job'[p].at # "load"
  PROVE  RolloutInv'
<1>1. UNCHANGED storeVars /\ UNCHANGED history /\ UNCHANGED replicas
  BY DEF storeVars
<1>2. PlanFits(job[p]) /\ lock = p
  BY DEF RolloutInv, JobInv, At
<1>3. StoreInv'
  BY <1>1, StoreInvStep DEF RolloutInv
<1>4. \A b \in App : ActiveOf(b)' = ActiveOf(b)
  BY <1>1, SameHistorySameActive
<1>5. Shape' /\ SettledRoutes'
  <2>1. CASE UNCHANGED <<route, unsettled>>
    BY <1>1, <1>4, <2>1 DEF RolloutInv, Shape, SettledRoutes, Fits
  <2>2. CASE Loaded(job[p].cfg)
    <3>1. Shape'
      BY <1>1, <1>2, <2>2 DEF RolloutInv, Shape, Loaded, PlanFits
    <3>2. ASSUME NEW b \in App, ~unsettled'[b]
          PROVE  Fits(job[p].cfg, b)
      BY <1>2, <2>2, <3>2 DEF Loaded, PlanFits
    <3>3. \A b \in App : ~unsettled'[b] =>
            \A s \in route'[b] : s[1] = ActiveOf(b)' /\ s[2] < replicas'[b]
      BY <1>1, <1>4, <2>2, <3>2 DEF Loaded, Fits
    <3> QED
      BY <3>1, <3>3 DEF SettledRoutes, Fits
  <2> QED
    BY <2>1, <2>2
<1>6. ASSUME NEW q \in Proc
      PROVE  Sound(job'[q]) /\ job'[q].at # "load" /\ lock' # q
  BY <1>2, <1>6, ProcFacts DEF RolloutInv, JobInv, At
<1>7. JobInv'
  BY <1>6 DEF JobInv, At
<1> QED
  BY <1>3, <1>5, <1>7 DEF RolloutInv

LEMMA PlanStep ==
  ASSUME RolloutInv, NEW p \in Proc, Plan(p)
  PROVE  RolloutInv'
<1> DEFINE j == job[p]
<1>1. PICK lost \in SUBSET App :
        Goto(p, [j EXCEPT !.at = "load", !.cfg = Planned(lost),
                          !.skip = Skipped(Planned(lost)) # {}])
  BY DEF Plan
<1> DEFINE k == [j EXCEPT !.at = "load", !.cfg = Planned(lost),
                          !.skip = Skipped(Planned(lost)) # {}]
<1>2. DOMAIN j = DOMAIN Idle
  BY DEF RolloutInv, JobInv, Sound
<1>3. DOMAIN k = DOMAIN Idle /\ k.at = "load" /\ k.cfg = Planned(lost) /\ Goto(p, k)
  BY <1>1, <1>2 DEF Idle
<1> HIDE DEF k
<1>4. Sound(k)
  BY <1>3 DEF Sound, Ahead, Removal
<1> QED
  BY <1>3, <1>4, PlannedFits, LockKeepsInv DEF Plan

\* Apps that Repair cannot plan keep the upstreams they have, which fit.
LEMMA RepairStep ==
  ASSUME RolloutInv, Repair
  PROVE  RolloutInv'
<1>1. PICK lost \in SUBSET App :
        Goto("watcher", [Idle EXCEPT !.kind = "repair", !.at = "load",
                                     !.cfg = CarryOver(Planned(lost))])
  BY DEF Repair
<1> DEFINE k == [Idle EXCEPT !.kind = "repair", !.at = "load",
                             !.cfg = CarryOver(Planned(lost))]
<1>2. /\ DOMAIN k = DOMAIN Idle /\ k.at = "load" /\ k.cfg = CarryOver(Planned(lost))
      /\ Goto("watcher", k)
  BY <1>1 DEF Idle
<1> HIDE DEF k
<1>3. Sound(k)
  BY <1>2 DEF Sound, Ahead, Removal
<1>4. CarryOver(Planned(lost)) \in [App -> SUBSET Slot]
  BY PlannedFits DEF CarryOver, RolloutInv, Shape
<1>5. ASSUME NEW b \in App, ~unsettled[b]
      PROVE  Fits(CarryOver(Planned(lost)), b)
  <2>1. Fits(route, b) /\ Fits(Planned(lost), b)
    BY <1>5, PlannedFits DEF RolloutInv, SettledRoutes
  <2> QED
    BY <2>1 DEF CarryOver, Fits
<1> QED
  BY <1>2, <1>3, <1>4, <1>5, ProcFacts, LockKeepsInv DEF Repair

\* What a failed reconciliation goes on as.
LEMMA ReconcileFailedFacts ==
  ASSUME RolloutInv, NEW p \in Proc, ReconcileFailed(p)
  PROVE  /\ DOMAIN job' = Proc /\ \A q \in Proc : q # p => job'[q] = job[q]
         /\ Sound(job'[p]) /\ job'[p].at # "load"
<1> DEFINE k == [job[p] EXCEPT !.at = "plan", !.cfg = NoRoutes, !.skip = FALSE,
                               !.index = @ + 1]
<1>1. JobInv /\ DOMAIN job[p] = DOMAIN Idle
  BY DEF RolloutInv, JobInv, Sound
<1>2. Goto(p, k) \/ Return(p, "failure")
  BY DEF ReconcileFailed
<1>3. DOMAIN k = DOMAIN Idle /\ k.at = "plan"
  BY <1>1 DEF Idle
<1> HIDE DEF k
<1>4. Sound(k)
  BY <1>3 DEF Sound, Ahead, Removal
<1>5. CASE Goto(p, k)
  BY <1>1, <1>3, <1>4, <1>5, GotoFacts
<1>6. CASE Return(p, "failure")
  BY <1>1, <1>6, ReturnFacts
<1> QED
  BY <1>2, <1>5, <1>6

LEMMA LoadStep ==
  ASSUME RolloutInv, NEW p \in Proc, Load(p) \/ LoadFails(p)
  PROVE  RolloutInv'
<1> DEFINE j == job[p]
<1>1. /\ JobInv /\ DOMAIN j = DOMAIN Idle
      /\ j.at = "load" /\ lock' = NoProc /\ UNCHANGED <<storeVars, replicas>>
      /\ UNCHANGED <<route, unsettled>> \/ Loaded(j.cfg)
  BY DEF RolloutInv, JobInv, Sound, Load, LoadFails, At
<1>2. /\ DOMAIN job' = Proc /\ \A q \in Proc : q # p => job'[q] = job[q]
      /\ Sound(job'[p]) /\ job'[p].at # "load"
  <2>1. CASE LoadFails(p)
    BY <2>1, ReconcileFailedFacts DEF LoadFails
  <2>2. CASE Load(p)
    <3>1. PICK routed : \/ Goto(p, [j EXCEPT !.at = "list", !.cfg = NoRoutes, !.moved = routed])
                        \/ Return(p, "success")
      BY <2>2 DEF Load
    <3> DEFINE k == [j EXCEPT !.at = "list", !.cfg = NoRoutes, !.moved = routed]
    <3>2. DOMAIN k = DOMAIN Idle /\ k.at = "list"
      BY <1>1 DEF Idle
    <3>3. Goto(p, k) \/ Return(p, "success")
      BY <3>1
    <3> HIDE DEF k
    <3>4. Sound(k)
      BY <3>2 DEF Sound, Ahead, Removal
    <3>5. CASE Goto(p, k)
      BY <1>1, <3>2, <3>4, <3>5, GotoFacts
    <3>6. CASE Return(p, "success")
      BY <1>1, <3>6, ReturnFacts
    <3> QED
      BY <3>3, <3>5, <3>6
  <2> QED
    BY <2>1, <2>2
<1> QED
  BY <1>1, <1>2, UnlockKeepsInv

LEMMA PlanFailsMoves ==
  ASSUME RolloutInv, NEW p \in Proc, PlanFails(p)
  PROVE  Moves(p) /\ Untouched
<1>1. Untouched /\ job[p].at = "plan" /\ ReconcileFailed(p)
  BY DEF PlanFails, At, Untouched
<1> QED
  BY <1>1, ReconcileFailedFacts DEF Moves

-----------------------------------------------------------------------------
(* Restarts. *)

\* A proxy without routes has none that is out of date.
LEMMA ProxyRestartsStep ==
  ASSUME RolloutInv, ProxyRestarts
  PROVE  RolloutInv'
<1>1. /\ UNCHANGED storeVars /\ UNCHANGED history /\ route' = NoRoutes
      /\ UNCHANGED replicas /\ UNCHANGED lock /\ UNCHANGED job /\ UNCHANGED unsettled
  BY DEF ProxyRestarts, storeVars
<1>2. StoreInv' /\ Shape'
  BY <1>1, StoreInvStep DEF RolloutInv, Shape, NoRoutes
<1>3. SettledRoutes'
  BY <1>1 DEF SettledRoutes, Fits, NoRoutes
<1>4. \A b \in App : ActiveOf(b)' = ActiveOf(b)
  BY <1>1, SameHistorySameActive
<1>5. ASSUME NEW q \in Proc, PlanFits(job[q])
      PROVE  PlanFits(job[q])'
  <2>1. \A b \in App : ~unsettled'[b] =>
          \A s \in job'[q].cfg[b] : s[1] = ActiveOf(b)' /\ s[2] < replicas'[b]
    BY <1>1, <1>4, <1>5 DEF PlanFits, Fits
  <2> QED
    BY <1>1, <1>5, <2>1 DEF PlanFits, Fits
<1>6. JobInv'
  BY <1>1, <1>5 DEF RolloutInv, JobInv, At, Sound
<1> QED
  BY <1>2, <1>3, <1>6 DEF RolloutInv

\* Whatever the routes were when the daemon died, it knows of none.
LEMMA StartupIsSound ==
  ASSUME NEW p \in Proc
  PROVE  /\ Sound([AllIdle EXCEPT !["main"] = Startup][p])
         /\ [AllIdle EXCEPT !["main"] = Startup][p].at # "load"
<1>1. Sound(Startup) /\ Startup.at = "plan"
  BY DEF Startup, Sound, Idle, Ahead, Removal
<1>2. Sound(Idle) /\ Idle.at # "load"
  BY IdleIsSound
<1> HIDE DEF Startup, Idle
<1> QED
  BY <1>1, <1>2 DEF AllIdle

LEMMA DaemonRestartsStep ==
  ASSUME RolloutInv, DaemonRestarts
  PROVE  RolloutInv'
<1>1. /\ UNCHANGED storeVars /\ UNCHANGED history /\ lock' = NoProc
      /\ UNCHANGED replicas /\ UNCHANGED route /\ UNCHANGED unsettled
      /\ job' = [AllIdle EXCEPT !["main"] = Startup]
  BY DEF DaemonRestarts, storeVars
<1>2. StoreInv' /\ Shape'
  BY <1>1, StoreInvStep DEF RolloutInv, Shape
<1>3. SettledRoutes'
  BY <1>1, SameHistorySameActive DEF RolloutInv, SettledRoutes, Fits
<1>4. DOMAIN job' = Proc
  BY <1>1 DEF AllIdle
<1>5. JobInv'
  BY <1>1, <1>4, StartupIsSound, ProcFacts DEF JobInv, At
<1> QED
  BY <1>2, <1>3, <1>5 DEF RolloutInv

-----------------------------------------------------------------------------
(* Every step. *)

LEMMA RolloutInvInit == Init => RolloutInv
<1> SUFFICES ASSUME Init PROVE RolloutInv
  OBVIOUS
<1>1. StoreInv
  BY StoreInvInit DEF Init
<1>2. Shape /\ SettledRoutes
  BY DEF Init, Shape, SettledRoutes, Fits, NoRoutes
<1>3. DOMAIN job = Proc
  BY DEF Init, AllIdle
<1>4. JobInv
  BY <1>3, StartupIsSound, ProcFacts DEF Init, JobInv, At
<1> QED
  BY <1>1, <1>2, <1>4 DEF RolloutInv

\* A step is one of the store, of one goroutine or of none, or it reconciles
\* or restarts something, and then the store is as it was.
LEMMA StepCases ==
  ASSUME RolloutInv, [Next]_vars
  PROVE  \/ StoreStep /\ (UNCHANGED job \/ \E p \in Proc : Moves(p))
         \/ RolloutInv' /\ UNCHANGED storeVars
<1>1. CASE UNCHANGED vars
  <2>1. Untouched /\ UNCHANGED job
    BY <1>1 DEF vars, Untouched
  <2> QED
    BY <2>1, UntouchedIsStoreStep
<1>2. ASSUME NEW a \in App, NEW want \in 1..MaxReplicas, Register(a, want)
      PROVE  StoreStep /\ UNCHANGED job
  BY <1>2, RegisterStep
<1>3. ASSUME NEW p \in Proc, ApiCall(p)
      PROVE  StoreStep /\ Moves(p)
  BY <1>3, BuildSteps, BeginMoves, UpdateStep, UntouchedIsStoreStep DEF ApiCall
<1>4. ASSUME NEW p \in Proc, Replicate(p) \/ Gate(p) \/ Drain(p)
      PROVE  StoreStep /\ Moves(p)
  BY <1>4, ReplicateMoves, GateMoves, DrainMoves, UntouchedIsStoreStep
<1>5. ASSUME NEW p \in Proc, Clean(p) \/ CallFails(p) \/ PlanFails(p)
      PROVE  StoreStep /\ Moves(p)
  BY <1>5, RemovalMoves, ForgetStep, FailureMoves, PlanFailsMoves, UntouchedIsStoreStep
     DEF Clean
<1>6. ASSUME NEW p \in Proc, Activate(p)
      PROVE  StoreStep /\ Moves(p)
  BY <1>6, ActivateStep
<1>7. ASSUME NEW p \in Proc, Plan(p) \/ Load(p) \/ LoadFails(p)
      PROVE  RolloutInv' /\ UNCHANGED storeVars
  <2>1. UNCHANGED storeVars
    BY <1>7 DEF Plan, Load, LoadFails
  <2> QED
    BY <1>7, <2>1, PlanStep, LoadStep
<1>8. ASSUME Guard \/ \E a \in App : Visit(a)
      PROVE  StoreStep /\ \E p \in Proc : Moves(p)
  BY <1>8, ProcFacts, BeginMoves, UntouchedIsStoreStep
<1>9. CASE Repair \/ ProxyRestarts \/ DaemonRestarts
  <2>1. UNCHANGED storeVars
    BY <1>9 DEF Repair, ProxyRestarts, DaemonRestarts
  <2> QED
    BY <1>9, <2>1, RepairStep, ProxyRestartsStep, DaemonRestartsStep
<1>10. ASSUME NEW a \in App, NEW s \in Slot, ContainerAnswers(a, s) \/ ContainerDies(a, s)
       PROVE  StoreStep /\ UNCHANGED job
  <2>1. Untouched /\ UNCHANGED job
    BY <1>10 DEF ContainerAnswers, ContainerDies, Untouched
  <2> QED
    BY <2>1, UntouchedIsStoreStep
<1>11. CASE Next
  BY <1>11, <1>2, <1>3, <1>4, <1>5, <1>6, <1>7, <1>8, <1>9, <1>10 DEF Next, Switch
<1> QED
  BY <1>1, <1>11

LEMMA RolloutInvStep == RolloutInv /\ [Next]_vars => RolloutInv'
  BY StepCases, StoreStepKeepsInv

\* The mutex and the order "store, then proxy" keep every plan that waits to
\* be loaded in step with the store.
THEOREM RolloutCorrect == Spec => []RolloutInv
  BY RolloutInvInit, RolloutInvStep, PTL DEF Spec

\* Once the routes planned after the last change of the store are loaded, no
\* older plan replaces them: what Reconciler.mu is for.
THEOREM RolloutSettles == Spec => []SettledRoutes
  BY RolloutCorrect, PTL DEF RolloutInv

\* Whatever the handlers do concurrently, with calls failing and the daemon
\* restarting, is a behaviour of the release store.
THEOREM RolloutImplementsStore == Spec => StoreSpec
<1>1. Init => StoreInit
  BY DEF Init
<1>2. RolloutInv /\ [Next]_vars => [StoreNext]_storeVars
  BY StepCases DEF StoreStep
<1> QED
  BY <1>1, <1>2, RolloutCorrect, PTL DEF Spec, StoreSpec

\* At most one release of an app is live, under all of the daemon's handlers.
THEOREM RolloutOneActive == Spec => []OneActive
  BY RolloutImplementsStore, StoreOneActive, PTL

\* No handler makes a release live that was not built.
THEOREM RolloutLiveWasBuilt == Spec => []LiveWasBuilt
  BY RolloutImplementsStore, StoreLiveWasBuilt, PTL

-----------------------------------------------------------------------------
(* The gate: a release whose image never answers its probe never goes live   *)
(* and never gets a request.                                                  *)

\* Containers of a broken release never answer.
HostInv ==
  /\ host \in [App -> [Slot -> ContainerState]]
  /\ \A a \in App, s \in Slot : host[a][s] = "up" => s[1] \notin Broken

\* A goroutine measures at least one replica, and what it is about to activate
\* or to load has passed a measurement.
Measured(j) ==
  /\ j.at \in Ahead => j.want \in Nat \ {0}
  /\ j.at = "activate" => j.rel \notin Broken
  /\ j.at = "load" => \A a \in App : \A s \in j.cfg[a] : s[1] \notin Broken

GateInv ==
  /\ HostInv
  /\ replicas \in [App -> Nat \ {0}]
  /\ \A p \in Proc : Measured(job[p])
  /\ BrokenNeverServes

LEMMA BrokenAreReleases == NoRelease \notin Broken /\ 0 \in Index
<1>1. NoRelease \notin Broken
  BY RolloutAssumption, NumbersAreNatural
<1>2. 0 \in Index
  BY RolloutAssumption DEF Index
<1> QED
  BY <1>1, <1>2

-----------------------------------------------------------------------------
(* The host. *)

LEMMA SetSlotKeeps ==
  ASSUME HostInv, NEW a, NEW s, NEW state \in ContainerState, SetSlot(a, s, state),
         state = "up" => s[1] \notin Broken
  PROVE  HostInv'
  BY DEF HostInv, SetSlot

LEMMA StopAllKeeps ==
  ASSUME HostInv, NEW a, NEW n, StopAll(a, n)
  PROVE  HostInv'
<1> DEFINE stopped == [s \in Slot |->
             IF s[1] = n /\ host[a][s] # "absent" THEN "stopped" ELSE host[a][s]]
<1>1. host' = [host EXCEPT ![a] = stopped]
  BY DEF StopAll
<1>2. a \in App => /\ stopped \in [Slot -> ContainerState]
                   /\ \A s \in Slot : stopped[s] = "up" => host[a][s] = "up"
  BY DEF HostInv, ContainerState
<1> HIDE DEF stopped
<1> QED
  BY <1>1, <1>2 DEF HostInv

\* Only a release that can answer ever does; everything else stops, starts or
\* removes containers.
LEMMA ProcHost ==
  ASSUME HostInv, NEW p \in Proc,
         \/ ApiCall(p) \/ Replicate(p) \/ Gate(p) \/ Switch(p) \/ Drain(p)
         \/ Clean(p) \/ CallFails(p) \/ PlanFails(p) \/ LoadFails(p)
  PROVE  HostInv'
<1>0. ASSUME UNCHANGED host
      PROVE  HostInv'
  BY <1>0 DEF HostInv
<1>1. CASE ApiCall(p)
  <2>1. UNCHANGED host
    BY <1>1 DEF ApiCall, BeginDeploy, BeginRollback, BeginPrune, BeginDelete, BeginUpdate,
                BuildDone, BuildFailed, Reply
  <2> QED
    BY <1>0, <2>1
<1>2. CASE Replicate(p)
  <2>1. \/ UNCHANGED host
        \/ \E a, s : SetSlot(a, s, "stopped") \/ SetSlot(a, s, "starting")
    BY <1>2 DEF Replicate, Inventory, Create, Start, Shrink
  <2>2. {"stopped", "starting"} \subseteq ContainerState
    BY DEF ContainerState
  <2> QED
    BY <1>0, <2>1, <2>2, SetSlotKeeps
<1>3. CASE Gate(p) \/ Switch(p) \/ CallFails(p) \/ PlanFails(p) \/ LoadFails(p)
  <2>1. UNCHANGED host
    BY <1>3 DEF Gate, Measure, MeasureBad, GateExpires, Switch, Activate, Plan, Load,
                CallFails, PlanFails, LoadFails
  <2> QED
    BY <1>0, <2>1
<1>4. CASE Drain(p)
  <2>1. UNCHANGED host \/ \E a, n : StopAll(a, n)
    BY <1>4 DEF Drain, DrainList, DrainStop, DrainStopFails, DrainBroken
  <2> QED
    BY <1>0, <2>1, StopAllKeeps
<1>5. CASE Clean(p)
  <2>1. CASE RemoveLeftover(p)
    <3> DEFINE a == job[p].app
               left == [s \in Slot |-> IF s[1] = job[p].rel THEN "absent" ELSE host[a][s]]
    <3>1. host' = [host EXCEPT ![a] = left]
      BY <2>1 DEF RemoveLeftover
    <3>2. a \in App => /\ left \in [Slot -> ContainerState]
                       /\ \A s \in Slot : left[s] = "up" => host[a][s] = "up"
      BY DEF HostInv, ContainerState
    <3> HIDE DEF left
    <3> QED
      BY <3>1, <3>2 DEF HostInv
  <2>2. CASE ~RemoveLeftover(p)
    <3>1. UNCHANGED host \/ \E a, n : StopAll(a, n)
      BY <1>5, <2>2 DEF Clean, KeepPrevious, Leftovers, StopLeftover, Forget
    <3> QED
      BY <1>0, <3>1, StopAllKeeps
  <2> QED
    BY <2>1, <2>2
<1> QED
  BY <1>1, <1>2, <1>3, <1>4, <1>5

LEMMA HostKept ==
  ASSUME HostInv, [Next]_vars
  PROVE  HostInv'
<1>0. ASSUME UNCHANGED host
      PROVE  HostInv'
  BY <1>0 DEF HostInv
<1>1. ASSUME \/ UNCHANGED vars \/ Guard \/ Repair \/ ProxyRestarts \/ DaemonRestarts
             \/ \E a \in App : Visit(a) \/ \E want \in 1..MaxReplicas : Register(a, want)
      PROVE  HostInv'
  <2>1. UNCHANGED host
    BY <1>1 DEF vars, Guard, Repair, ProxyRestarts, DaemonRestarts, Visit, Register
  <2> QED
    BY <1>0, <2>1
<1>2. ASSUME NEW a \in App, NEW s \in Slot, ContainerAnswers(a, s) \/ ContainerDies(a, s)
      PROVE  HostInv'
  BY <1>2, SetSlotKeeps DEF ContainerAnswers, ContainerDies, ContainerState
<1> QED
  BY <1>1, <1>2, ProcHost DEF Next

-----------------------------------------------------------------------------
(* The scales, the live releases and the routes. *)

LEMMA ScaleCases ==
  ASSUME [Next]_vars
  PROVE  \/ UNCHANGED replicas
         \/ \E a \in App, want \in 1..MaxReplicas : replicas' = [replicas EXCEPT ![a] = want]
<1>2. ASSUME NEW p \in Proc, ApiCall(p)
      PROVE  \/ UNCHANGED replicas
             \/ \E a \in App, want \in 1..MaxReplicas : replicas' = [replicas EXCEPT ![a] = want]
  BY <1>2 DEF ApiCall, BeginDeploy, BeginRollback, BeginPrune, BeginDelete, BeginUpdate,
              BuildDone, BuildFailed, Reply
<1>3. ASSUME NEW p \in Proc,
             \/ Replicate(p) \/ Gate(p) \/ Switch(p) \/ Drain(p)
             \/ Clean(p) \/ CallFails(p) \/ PlanFails(p) \/ LoadFails(p)
      PROVE  UNCHANGED replicas
  BY <1>3 DEF Replicate, Inventory, Create, Start, Shrink, Gate, Measure, MeasureBad,
              GateExpires, Switch, Activate, Plan, Load, Drain, DrainList, DrainStop,
              DrainStopFails, DrainBroken, Clean, KeepPrevious, Leftovers, StopLeftover,
              RemoveLeftover, Forget, CallFails, PlanFails, LoadFails
<1>4. ASSUME \/ UNCHANGED vars \/ Guard \/ Repair \/ ProxyRestarts \/ DaemonRestarts
             \/ \E a \in App : Visit(a)
             \/ \E a \in App, s \in Slot : ContainerAnswers(a, s) \/ ContainerDies(a, s)
      PROVE  UNCHANGED replicas
  BY <1>4 DEF vars, Guard, Repair, ProxyRestarts, DaemonRestarts, Visit, ContainerAnswers,
              ContainerDies
<1>5. ASSUME NEW a \in App, NEW want \in 1..MaxReplicas, Register(a, want)
      PROVE  replicas' = [replicas EXCEPT ![a] = want]
  BY <1>5 DEF Register
<1> QED
  BY <1>2, <1>3, <1>4, <1>5 DEF Next

LEMMA ScaleKept ==
  ASSUME replicas \in [App -> Nat \ {0}], [Next]_vars
  PROVE  replicas' \in [App -> Nat \ {0}]
<1>1. ASSUME NEW a \in App, NEW want \in 1..MaxReplicas,
             replicas' = [replicas EXCEPT ![a] = want]
      PROVE  replicas' \in [App -> Nat \ {0}]
  BY <1>1, RolloutAssumption
<1> QED
  BY <1>1, ScaleCases

\* The live release changes by the switch of a measured release, or is deleted.
LEMMA HistoryCases ==
  ASSUME [Next]_vars
  PROVE  \/ UNCHANGED history
         \/ \E p \in Proc : /\ At(p, "activate")
                           /\ SetActiveRelease(job[p].app, job[p].rel)
         \/ \E p \in Proc : At(p, "forget") /\ DeleteApp(job[p].app)
<1>1. ASSUME \/ UNCHANGED vars \/ Guard \/ Repair \/ ProxyRestarts \/ DaemonRestarts
             \/ \E a \in App : Visit(a)
             \/ \E a \in App, s \in Slot : ContainerAnswers(a, s) \/ ContainerDies(a, s)
             \/ \E a \in App, want \in 1..MaxReplicas : Register(a, want)
      PROVE  UNCHANGED history
  BY <1>1 DEF vars, storeVars, Guard, Repair, ProxyRestarts, DaemonRestarts, Visit,
              ContainerAnswers, ContainerDies, Register, CreateApp
<1>2. ASSUME NEW p \in Proc, ApiCall(p)
      PROVE  UNCHANGED history
  BY <1>2 DEF storeVars, ApiCall, BeginDeploy, BeginRollback, BeginPrune, BeginDelete,
              BeginUpdate, BuildDone, BuildFailed, Reply, StartRelease, SealRelease
<1>3. ASSUME NEW p \in Proc,
             \/ Replicate(p) \/ Gate(p) \/ Plan(p) \/ Load(p) \/ Drain(p)
             \/ CallFails(p) \/ PlanFails(p) \/ LoadFails(p)
      PROVE  UNCHANGED history
  BY <1>3 DEF storeVars, Replicate, Inventory, Create, Start, Shrink, Gate, Measure, MeasureBad,
              GateExpires, Plan, Load, Drain, DrainList, DrainStop,
              DrainStopFails, DrainBroken, CallFails, PlanFails, LoadFails
<1>4. ASSUME NEW p \in Proc, Activate(p)
      PROVE  \/ UNCHANGED history
             \/ At(p, "activate") /\ SetActiveRelease(job[p].app, job[p].rel)
  BY <1>4 DEF storeVars, Activate
<1>5. ASSUME NEW p \in Proc, Clean(p)
      PROVE  UNCHANGED history \/ (At(p, "forget") /\ DeleteApp(job[p].app))
  BY <1>5 DEF storeVars, Clean, KeepPrevious, Leftovers, StopLeftover, RemoveLeftover, Forget
<1> QED
  BY <1>1, <1>2, <1>3, <1>4, <1>5 DEF Next, Switch

\* No broken release is live.
LEMMA ActiveKept ==
  ASSUME RolloutInv, GateInv, [Next]_vars, NEW b \in App
  PROVE  ActiveOf(b)' \notin Broken
<1>0. ActiveOf(b) \notin Broken /\ history \in [App -> Seq(Row)] /\ NoRelease \notin Broken
  BY BrokenAreReleases DEF GateInv, BrokenNeverServes, RolloutInv, StoreInv, StoreTypeOK
<1>1. ASSUME history'[b] = history[b]
      PROVE  ActiveOf(b)' \notin Broken
  BY <1>0, <1>1, SameRowsSameActive
<1>2. ASSUME NEW p \in Proc, At(p, "activate"), SetActiveRelease(job[p].app, job[p].rel)
      PROVE  ActiveOf(b)' \notin Broken
  <2>1. job[p].app \in App /\ job[p].rel \in Release /\ job[p].rel \notin Broken
    BY <1>2 DEF GateInv, Measured, RolloutInv, JobInv, Sound, Ahead, At
  <2>2. CASE b = job[p].app /\ ActiveOf(b) # job[p].rel
    <3> DEFINE n == job[p].rel
               top == Len(history[b]) + 1
    <3>1. /\ DOMAIN history'[b] = 1..top
          /\ history'[b][top] = [rel |-> n, open |-> TRUE]
          /\ \A k \in 1..Len(history[b]) : ~history'[b][k].open
      BY <1>2, <2>1, <2>2, SwitchRows DEF RolloutInv
    <3>2. Len(history[b]) \in Nat
      BY OneActiveRows DEF RolloutInv
    <3>3. OpenRows(b)' = {top}
      BY <3>1, <3>2 DEF OpenRows
    <3>4. PICK k \in OpenRows(b)' : ActiveOf(b)' = history'[b][k].rel
      BY <3>3 DEF ActiveOf
    <3> QED
      BY <2>1, <3>1, <3>3, <3>4
  <2>3. CASE ~(b = job[p].app /\ ActiveOf(b) # job[p].rel)
    <3>1. history'[b] = history[b]
      BY <1>0, <1>2, <2>3 DEF SetActiveRelease
    <3> QED
      BY <1>1, <3>1
  <2> QED
    BY <2>2, <2>3
<1>3. ASSUME NEW a, DeleteApp(a)
      PROVE  ActiveOf(b)' \notin Broken
  <2>1. history'[b] = history[b] \/ history'[b] = << >>
    BY <1>0, <1>3 DEF DeleteApp
  <2>2. CASE history'[b] = << >>
    BY <1>0, <2>2 DEF ActiveOf, OpenRows
  <2> QED
    BY <1>1, <2>1, <2>2
<1> QED
  BY <1>1, <1>2, <1>3, HistoryCases

\* The routes come from a plan, or are lost.
LEMMA RouteCases ==
  ASSUME [Next]_vars
  PROVE  \/ UNCHANGED route
         \/ route' = NoRoutes /\ Fault /\ UNCHANGED <<lock, job>>
         \/ \E p \in Proc : At(p, "load") /\ route' = job[p].cfg
<1>1. ASSUME \/ UNCHANGED vars \/ Guard \/ Repair \/ ProxyRestarts \/ DaemonRestarts
             \/ \E a \in App : Visit(a)
             \/ \E a \in App, s \in Slot : ContainerAnswers(a, s) \/ ContainerDies(a, s)
             \/ \E a \in App, want \in 1..MaxReplicas : Register(a, want)
      PROVE  UNCHANGED route \/ (route' = NoRoutes /\ Fault /\ UNCHANGED <<lock, job>>)
  BY <1>1 DEF vars, Guard, Repair, ProxyRestarts, DaemonRestarts, Visit,
              ContainerAnswers, ContainerDies, Register
<1>2. ASSUME NEW p \in Proc, ApiCall(p) \/ Replicate(p) \/ Gate(p) \/ Activate(p) \/ Plan(p)
      PROVE  UNCHANGED route
  BY <1>2 DEF ApiCall, BeginDeploy, BeginRollback, BeginPrune, BeginDelete,
              BeginUpdate, BuildDone, BuildFailed, Reply, Replicate, Inventory, Create, Start,
              Shrink, Gate, Measure, MeasureBad, GateExpires, Activate, Plan
<1>3. ASSUME NEW p \in Proc, Drain(p) \/ Clean(p) \/ CallFails(p) \/ PlanFails(p)
      PROVE  UNCHANGED route
  BY <1>3 DEF Drain, DrainList, DrainStop, DrainStopFails, DrainBroken, Clean, KeepPrevious,
              Leftovers, StopLeftover, RemoveLeftover, Forget, CallFails, PlanFails
<1>4. ASSUME NEW p \in Proc, Load(p) \/ LoadFails(p)
      PROVE  UNCHANGED route \/ (At(p, "load") /\ route' = job[p].cfg)
  BY <1>4 DEF Load, LoadFails, Loaded
<1> QED
  BY <1>1, <1>2, <1>3, <1>4 DEF Next, Switch

LEMMA ServesKept ==
  ASSUME RolloutInv, GateInv, [Next]_vars
  PROVE  BrokenNeverServes'
<1>1. ASSUME NEW b \in App, NEW s \in route'[b]
      PROVE  s[1] \notin Broken
  BY <1>1, RouteCases DEF GateInv, BrokenNeverServes, Measured, NoRoutes, At
<1> QED
  BY <1>1, ActiveKept DEF BrokenNeverServes

-----------------------------------------------------------------------------
(* What each goroutine has measured. *)

\* A step that is neither ahead of a switch nor waiting to load needs nothing.
LEMMA DoneIsMeasured ==
  ASSUME NEW j, j.at \notin Ahead \cup {"load"}
  PROVE  Measured(j)
  BY DEF Measured, Ahead

LEMMA ReturnIsMeasured ==
  ASSUME JobInv, NEW p \in Proc, NEW report, Return(p, report)
  PROVE  Measured(job'[p])
<1> DEFINE reply == [Idle EXCEPT !.kind = job[p].kind, !.at = "reply",
                                 !.moved = job[p].moved, !.report = report]
<1>1. reply.at = "reply" /\ Idle.at = "idle"
  BY DEF Idle
<1>2. Goto(p, reply) \/ Goto(p, Idle)
  BY DEF Return
<1> HIDE DEF reply
<1>3. job'[p] = reply \/ job'[p] = Idle
  BY <1>2, GotoFacts
<1> QED
  BY <1>1, <1>3, DoneIsMeasured DEF Ahead

\* On the way to the gate nothing is measured yet.
LEMMA WayToGate ==
  ASSUME NEW j, NEW k, j.at \in Ahead, Measured(j), k.want = j.want,
         k.at \in Ahead \ {"activate"}
  PROVE  Measured(k)
  BY DEF Measured, Ahead

LEMMA NextReplicaMeasured ==
  ASSUME NEW j, NEW k, DOMAIN k = DOMAIN Idle, k.want = j.want, j.at \in Ahead, Measured(j)
  PROVE  Measured(NextReplica(k))
<1>1. NextReplica(k).want = j.want /\ NextReplica(k).at \in {"start", "create", "gate", "shrink"}
  BY DEF NextReplica, Idle
<1> QED
  BY <1>1, WayToGate DEF Ahead

LEMMA ReplicateMeasured ==
  ASSUME RolloutInv, NEW p \in Proc, Measured(job[p]), Replicate(p) \/ BuildDone(p)
  PROVE  Measured(job'[p])
<1> DEFINE j == job[p]
<1>0. JobInv /\ DOMAIN j = DOMAIN Idle
  BY DEF RolloutInv, JobInv, Sound
<1>1. j.at \in Ahead
  BY DEF Replicate, Inventory, Create, Start, Shrink, BuildDone, At, Ahead
<1>2. ASSUME NEW k, DOMAIN k = DOMAIN Idle, k.want = j.want, Goto(p, NextReplica(k))
      PROVE  Measured(job'[p])
  BY <1>0, <1>1, <1>2, NextReplicaMeasured, GotoFacts
<1>3. CASE Inventory(p)
  <2>1. PICK have, extra : Goto(p, NextReplica([j EXCEPT !.have = have, !.extra = extra]))
    BY <1>3 DEF Inventory
  <2> DEFINE k == [j EXCEPT !.have = have, !.extra = extra]
  <2>2. DOMAIN k = DOMAIN Idle /\ k.want = j.want
    BY <1>0 DEF Idle
  <2> QED
    BY <1>2, <2>1, <2>2
<1>4. CASE Create(p)
  <2> DEFINE k == [j EXCEPT !.at = "start"]
  <2>1. Goto(p, k) \/ Return(p, "failure")
    BY <1>4 DEF Create
  <2>2. k.at = "start" /\ k.want = j.want
    BY <1>0 DEF Idle
  <2> HIDE DEF k
  <2> QED
    BY <1>0, <1>1, <2>1, <2>2, WayToGate, GotoFacts, ReturnIsMeasured DEF Ahead
<1>5. CASE Start(p)
  <2> DEFINE k == [j EXCEPT !.index = @ + 1]
  <2>1. Goto(p, NextReplica(k)) \/ Return(p, "failure")
    BY <1>5 DEF Start
  <2>2. DOMAIN k = DOMAIN Idle /\ k.want = j.want
    BY <1>0 DEF Idle
  <2> HIDE DEF k
  <2> QED
    BY <1>0, <1>2, <2>1, <2>2, ReturnIsMeasured
<1>6. CASE Shrink(p)
  <2>1. PICK i \in j.extra :
          Goto(p, NextReplica([j EXCEPT !.extra = @ \ {i}, !.index = j.want]))
    BY <1>6 DEF Shrink
  <2> DEFINE k == [j EXCEPT !.extra = @ \ {i}, !.index = j.want]
  <2>2. DOMAIN k = DOMAIN Idle /\ k.want = j.want
    BY <1>0 DEF Idle
  <2> QED
    BY <1>2, <2>1, <2>2
<1>7. CASE BuildDone(p)
  BY <1>0, <1>2, <1>7 DEF BuildDone
<1> QED
  BY <1>3, <1>4, <1>5, <1>6, <1>7 DEF Replicate

\* The gate: with at least one replica to measure, a measurement that counts
\* has seen one that answers.
LEMMA GateMeasured ==
  ASSUME RolloutInv, HostInv, NEW p \in Proc, Measured(job[p]), Gate(p)
  PROVE  Measured(job'[p])
<1> DEFINE j == job[p]
<1>0. /\ JobInv /\ DOMAIN j = DOMAIN Idle /\ j.at = "gate"
      /\ j.app \in App /\ j.rel \in Release /\ j.want \in Nat \ {0}
  BY DEF RolloutInv, JobInv, Sound, Measured, Ahead, Gate, Measure, MeasureBad, GateExpires, At
<1>1. CASE Measure(p)
  <2>1. <<j.rel, 0>> \in Slot /\ host[j.app][<<j.rel, 0>>] = "up"
    BY <1>0, <1>1, BrokenAreReleases DEF Measure, Ready, Slot
  <2>2. j.rel \notin Broken
    <3>1. <<j.rel, 0>>[1] \notin Broken
      BY <1>0, <2>1 DEF HostInv
    <3> QED
      BY <3>1
  <2>3. /\ GateCounts(j).rel = j.rel /\ GateCounts(j).want = j.want
        /\ GateCounts(j).at \in {"gate", "plan", "activate"}
    BY <1>0 DEF GateCounts, Idle
  <2>4. Measured(GateCounts(j))
    BY <1>0, <2>2, <2>3 DEF Measured
  <2> QED
    BY <1>0, <1>1, <2>4, GotoFacts DEF Measure
<1>2. CASE MeasureBad(p)
  <2> DEFINE k == [j EXCEPT !.streak = 0]
  <2>1. k.at = "gate" /\ k.want = j.want /\ Goto(p, k)
    BY <1>0, <1>2 DEF Idle, MeasureBad
  <2> HIDE DEF k
  <2>2. Measured(k)
    BY <1>0, <2>1, WayToGate DEF Ahead
  <2> QED
    BY <1>0, <2>1, <2>2, GotoFacts
<1>3. CASE GateExpires(p)
  BY <1>0, <1>3, ReturnIsMeasured DEF GateExpires
<1> QED
  BY <1>1, <1>2, <1>3 DEF Gate

\* A handler begins, or goes on to its end: what it has to measure is at least
\* one replica, as apps.replicas is positive.
LEMMA CallMeasured ==
  ASSUME RolloutInv, replicas \in [App -> Nat \ {0}], NEW p \in Proc,
         Measured(job[p]), ApiCall(p)
  PROVE  Measured(job'[p])
<1>0. JobInv
  BY DEF RolloutInv
<1>1. ASSUME NEW k, Goto(p, k), k.at \in Ahead \ {"activate"}, k.want \in Nat \ {0}
      PROVE  Measured(job'[p])
  BY <1>0, <1>1, GotoFacts DEF Measured, Ahead
<1>2. ASSUME NEW k, Goto(p, k), k.at \notin Ahead \cup {"load"}
      PROVE  Measured(job'[p])
  BY <1>0, <1>2, GotoFacts, DoneIsMeasured
<1>3. ASSUME NEW a \in App, BeginDeploy(p, a)
      PROVE  Measured(job'[p])
  <2> DEFINE k == [Idle EXCEPT !.kind = "deploy", !.at = "build", !.app = a,
                               !.rel = seq[a] + 1, !.want = replicas[a]]
  <2>1. k.at = "build" /\ k.want \in Nat \ {0} /\ Goto(p, k)
    BY <1>3 DEF BeginDeploy, Idle
  <2> QED
    BY <1>1, <2>1 DEF Ahead
<1>4. ASSUME NEW a \in App, BeginRollback(p, a)
      PROVE  Measured(job'[p])
  <2> DEFINE k == [Idle EXCEPT !.kind = "rollback", !.at = "inventory", !.app = a,
                               !.rel = PreviousOf(a), !.want = replicas[a]]
  <2>1. k.at = "inventory" /\ k.want \in Nat \ {0} /\ Goto(p, k)
    BY <1>4 DEF BeginRollback, Idle
  <2> QED
    BY <1>1, <2>1 DEF Ahead
<1>5. ASSUME NEW a \in App, BeginPrune(p, a)
      PROVE  Measured(job'[p])
  <2> DEFINE k == [Idle EXCEPT !.kind = "prune", !.at = "previous", !.app = a,
                               !.keep = {ActiveOf(a)}]
  <2>1. k.at = "previous" /\ Goto(p, k)
    BY <1>5 DEF BeginPrune, Idle
  <2> QED
    BY <1>2, <2>1 DEF Ahead
<1>6. ASSUME NEW a \in App, BeginDelete(p, a)
      PROVE  Measured(job'[p])
  <2> DEFINE k == [Idle EXCEPT !.kind = "delete", !.at = "leftovers", !.app = a]
  <2>1. k.at = "leftovers" /\ Goto(p, k)
    BY <1>6 DEF BeginDelete, Idle
  <2> QED
    BY <1>2, <2>1 DEF Ahead
<1>7. ASSUME NEW a \in App, NEW want, BeginUpdate(p, a, want)
      PROVE  Measured(job'[p])
  <2> DEFINE k == [Idle EXCEPT !.kind = "update", !.at = "plan", !.app = a]
  <2>1. k.at = "plan" /\ Goto(p, k)
    BY <1>7 DEF BeginUpdate, Idle
  <2> QED
    BY <1>2, <2>1 DEF Ahead
<1>8. CASE BuildDone(p)
  BY <1>8, ReplicateMeasured
<1>9. CASE BuildFailed(p)
  BY <1>0, <1>9, ReturnIsMeasured DEF BuildFailed
<1>10. CASE Reply(p)
  <2>1. Goto(p, Idle) /\ Idle.at \notin Ahead \cup {"load"}
    BY <1>10, IdleIsSound DEF Reply, Ahead
  <2> QED
    BY <1>2, <2>1
<1> QED
  BY <1>3, <1>4, <1>5, <1>6, <1>7, <1>8, <1>9, <1>10 DEF ApiCall

\* A plan has slots of live releases only.
LEMMA PlannedMeasured ==
  ASSUME BrokenNeverServes, NEW lost, NEW b \in App, NEW s \in Planned(lost)[b]
  PROVE  s[1] \notin Broken
  BY DEF Planned, Upstreams, BrokenNeverServes

LEMMA SwitchMeasured ==
  ASSUME RolloutInv, BrokenNeverServes, NEW p \in Proc, Measured(job[p]),
         Switch(p) \/ PlanFails(p) \/ LoadFails(p)
  PROVE  Measured(job'[p])
<1> DEFINE j == job[p]
<1>0. JobInv /\ DOMAIN j = DOMAIN Idle
  BY DEF RolloutInv, JobInv, Sound
<1>1. ASSUME NEW k, Goto(p, k), k.at \notin Ahead \cup {"load"}
      PROVE  Measured(job'[p])
  BY <1>0, <1>1, GotoFacts, DoneIsMeasured
<1>2. CASE Activate(p)
  <2> DEFINE k == [j EXCEPT !.at = "plan"]
  <2>1. Goto(p, k) \/ Return(p, "failure")
    BY <1>2 DEF Activate
  <2>2. k.at = "plan"
    BY <1>0 DEF Idle
  <2> HIDE DEF k
  <2> QED
    BY <1>0, <1>1, <2>1, <2>2, ReturnIsMeasured DEF Ahead
<1>3. CASE Plan(p)
  <2>1. PICK lost \in SUBSET App :
          Goto(p, [j EXCEPT !.at = "load", !.cfg = Planned(lost),
                            !.skip = Skipped(Planned(lost)) # {}])
    BY <1>3 DEF Plan
  <2> DEFINE k == [j EXCEPT !.at = "load", !.cfg = Planned(lost),
                            !.skip = Skipped(Planned(lost)) # {}]
  <2>2. k.at = "load" /\ k.cfg = Planned(lost) /\ Goto(p, k)
    BY <1>0, <2>1 DEF Idle
  <2> HIDE DEF k
  <2>3. Measured(k)
    BY <2>2, PlannedMeasured DEF Measured, Ahead
  <2> QED
    BY <1>0, <2>2, <2>3, GotoFacts
<1>4. CASE Load(p)
  <2>1. PICK routed : \/ Goto(p, [j EXCEPT !.at = "list", !.cfg = NoRoutes, !.moved = routed])
                      \/ Return(p, "success")
    BY <1>4 DEF Load
  <2> DEFINE k == [j EXCEPT !.at = "list", !.cfg = NoRoutes, !.moved = routed]
  <2>2. k.at = "list" /\ (Goto(p, k) \/ Return(p, "success"))
    BY <1>0, <2>1 DEF Idle
  <2> HIDE DEF k
  <2> QED
    BY <1>0, <1>1, <2>2, ReturnIsMeasured DEF Ahead
<1>5. CASE PlanFails(p) \/ LoadFails(p)
  <2> DEFINE k == [j EXCEPT !.at = "plan", !.cfg = NoRoutes, !.skip = FALSE, !.index = @ + 1]
  <2>1. Goto(p, k) \/ Return(p, "failure")
    BY <1>5 DEF PlanFails, LoadFails, ReconcileFailed
  <2>2. k.at = "plan"
    BY <1>0 DEF Idle
  <2> HIDE DEF k
  <2> QED
    BY <1>0, <1>1, <2>1, <2>2, ReturnIsMeasured DEF Ahead
<1> QED
  BY <1>2, <1>3, <1>4, <1>5 DEF Switch

LEMMA CleanMeasured ==
  ASSUME RolloutInv, NEW p \in Proc, Drain(p) \/ Clean(p) \/ CallFails(p)
  PROVE  Measured(job'[p])
<1> DEFINE j == job[p]
<1>0. JobInv /\ DOMAIN j = DOMAIN Idle
  BY DEF RolloutInv, JobInv, Sound
<1>1. ASSUME NEW k, Goto(p, k), k.at \notin Ahead \cup {"load"}
      PROVE  Measured(job'[p])
  BY <1>0, <1>1, GotoFacts, DoneIsMeasured
<1>2. ASSUME NEW k, DOMAIN k = DOMAIN Idle, NextLeftover(p, k)
      PROVE  Measured(job'[p])
  <2> DEFINE stop == [k EXCEPT !.at = "stop"]
             forget == [k EXCEPT !.at = "forget"]
  <2>1. stop.at = "stop" /\ forget.at = "forget"
    BY <1>2 DEF Idle
  <2>2. Goto(p, stop) \/ Goto(p, forget) \/ Return(p, "success")
    BY <1>2 DEF NextLeftover
  <2> HIDE DEF stop, forget
  <2> QED
    BY <1>0, <1>1, <2>1, <2>2, ReturnIsMeasured DEF Ahead
<1>3. ASSUME NEW k, k.at = "drain", Drained(p, k)
      PROVE  Measured(job'[p])
  BY <1>0, <1>1, <1>3, ReturnIsMeasured DEF Drained, Ahead
<1>4. CASE CallFails(p) \/ DrainBroken(p) \/ Forget(p)
  BY <1>0, <1>4, ReturnIsMeasured DEF CallFails, DrainBroken, Forget
<1>5. CASE DrainList(p)
  <2>1. PICK todo : Goto(p, [j EXCEPT !.at = "drain", !.todo = todo]) \/ Return(p, "success")
    BY <1>5 DEF DrainList
  <2> DEFINE k == [j EXCEPT !.at = "drain", !.todo = todo]
  <2>2. k.at = "drain" /\ (Goto(p, k) \/ Return(p, "success"))
    BY <1>0, <2>1 DEF Idle
  <2> HIDE DEF k
  <2> QED
    BY <1>0, <1>1, <2>2, ReturnIsMeasured DEF Ahead
<1>6. CASE DrainStop(p) \/ DrainStopFails(p)
  <2>1. PICK n : \/ Drained(p, [j EXCEPT !.todo = @ \ {n}])
                 \/ Drained(p, [j EXCEPT !.todo = @ \ {n}, !.leak = TRUE])
    BY <1>6 DEF DrainStop, DrainStopFails
  <2>2. j.at = "drain"
    BY <1>6 DEF DrainStop, DrainStopFails, At
  <2>3. /\ [j EXCEPT !.todo = @ \ {n}].at = j.at
        /\ [j EXCEPT !.todo = @ \ {n}, !.leak = TRUE].at = j.at
    BY <1>0 DEF Idle
  <2> QED
    BY <1>3, <2>1, <2>2, <2>3
<1>7. CASE KeepPrevious(p)
  <2>1. PICK keep : Goto(p, [j EXCEPT !.at = "leftovers", !.keep = keep])
    BY <1>7 DEF KeepPrevious
  <2>2. [j EXCEPT !.at = "leftovers", !.keep = keep].at = "leftovers"
    BY <1>0 DEF Idle
  <2> QED
    BY <1>1, <2>1, <2>2 DEF Ahead
<1>8. CASE Leftovers(p)
  <2>1. PICK todo : NextLeftover(p, [j EXCEPT !.todo = todo])
    BY <1>8 DEF Leftovers
  <2>2. DOMAIN [j EXCEPT !.todo = todo] = DOMAIN Idle
    BY <1>0
  <2> QED
    BY <1>2, <2>1, <2>2
<1>9. CASE StopLeftover(p)
  <2>1. PICK n : Goto(p, [j EXCEPT !.at = "remove", !.rel = n])
    BY <1>9 DEF StopLeftover
  <2>2. [j EXCEPT !.at = "remove", !.rel = n].at = "remove"
    BY <1>0 DEF Idle
  <2> QED
    BY <1>1, <2>1, <2>2 DEF Ahead
<1>10. CASE RemoveLeftover(p)
  <2> DEFINE k == [j EXCEPT !.todo = @ \ {j.rel}, !.rel = NoRelease]
  <2>1. NextLeftover(p, k) /\ DOMAIN k = DOMAIN Idle
    BY <1>0, <1>10 DEF RemoveLeftover
  <2> QED
    BY <1>2, <2>1
<1> QED
  BY <1>4, <1>5, <1>6, <1>7, <1>8, <1>9, <1>10 DEF Drain, Clean

\* The supervisor measures what the app asks for.
LEMMA SupervisorMeasured ==
  ASSUME RolloutInv, replicas \in [App -> Nat \ {0}], Measured(job["supervisor"]),
         Guard \/ \E a \in App : Visit(a)
  PROVE  Measured(job'["supervisor"])
<1> DEFINE j == job["supervisor"]
<1>0. JobInv /\ DOMAIN j = DOMAIN Idle /\ "supervisor" \in Proc
  BY ProcFacts DEF RolloutInv, JobInv, Sound
<1>1. ASSUME NEW a \in App, Visit(a)
      PROVE  Measured(job'["supervisor"])
  <2> DEFINE k == [Idle EXCEPT !.kind = "heal", !.at = "guard", !.app = a,
                               !.rel = ActiveOf(a), !.want = replicas[a]]
  <2>1. k.at = "guard" /\ k.want \in Nat \ {0} /\ Goto("supervisor", k)
    BY <1>1 DEF Visit, Idle
  <2> HIDE DEF k
  <2> QED
    BY <1>0, <2>1, GotoFacts DEF Measured, Ahead
<1>2. CASE Guard
  <2> DEFINE k == [j EXCEPT !.at = "inventory"]
  <2>1. (Goto("supervisor", k) \/ Goto("supervisor", Idle)) /\ j.at = "guard"
    BY <1>2 DEF Guard, At
  <2>2. k.at = "inventory" /\ k.want = j.want
    BY <1>0 DEF Idle
  <2> HIDE DEF k
  <2>3. Measured(k) /\ Measured(Idle)
    BY <2>1, <2>2, WayToGate, DoneIsMeasured, IdleIsSound DEF Ahead
  <2> QED
    BY <1>0, <2>1, <2>3, GotoFacts
<1> QED
  BY <1>1, <1>2

LEMMA RepairMeasured ==
  ASSUME RolloutInv, BrokenNeverServes, Repair
  PROVE  Measured(job'["watcher"])
<1>1. PICK lost \in SUBSET App :
        Goto("watcher", [Idle EXCEPT !.kind = "repair", !.at = "load",
                                     !.cfg = CarryOver(Planned(lost))])
  BY DEF Repair
<1> DEFINE k == [Idle EXCEPT !.kind = "repair", !.at = "load",
                             !.cfg = CarryOver(Planned(lost))]
<1>2. k.at = "load" /\ k.cfg = CarryOver(Planned(lost)) /\ Goto("watcher", k)
  BY <1>1 DEF Idle
<1> HIDE DEF k
<1>3. ASSUME NEW b \in App, NEW s \in CarryOver(Planned(lost))[b]
      PROVE  s[1] \notin Broken
  BY <1>3, PlannedMeasured DEF CarryOver, BrokenNeverServes
<1>4. Measured(k)
  BY <1>2, <1>3 DEF Measured, Ahead
<1> QED
  BY <1>2, <1>4, GotoFacts, ProcFacts DEF RolloutInv

LEMMA RestartMeasured ==
  ASSUME NEW p \in Proc
  PROVE  Measured([AllIdle EXCEPT !["main"] = Startup][p])
<1>1. Startup.at = "plan" /\ Idle.at = "idle"
  BY DEF Startup, Idle
<1> QED
  BY <1>1, DoneIsMeasured DEF AllIdle, Ahead

-----------------------------------------------------------------------------
(* Every step. *)

\* A step of p is p's alone.
LEMMA OthersWait ==
  ASSUME RolloutInv, NEW p \in Proc,
         \/ ApiCall(p) \/ Replicate(p) \/ Gate(p) \/ Switch(p) \/ Drain(p)
         \/ Clean(p) \/ CallFails(p) \/ PlanFails(p) \/ LoadFails(p)
  PROVE  \A q \in Proc : q # p => job'[q] = job[q]
<1>0. JobInv
  BY DEF RolloutInv
<1>1. ASSUME \/ ApiCall(p) \/ Replicate(p) \/ Gate(p) \/ Activate(p) \/ Drain(p)
             \/ Clean(p) \/ CallFails(p) \/ PlanFails(p)
      PROVE  Moves(p)
  BY <1>1, BuildSteps, BeginMoves, UpdateStep, ReplicateMoves, GateMoves, ActivateStep,
     DrainMoves, RemovalMoves, ForgetStep, FailureMoves, PlanFailsMoves DEF ApiCall, Clean
<1>2. CASE Plan(p)
  <2>1. PICK k : Goto(p, k)
    BY <1>2 DEF Plan
  <2> QED
    BY <1>0, <2>1, GotoFacts
<1>3. CASE Load(p)
  <2>1. (\E k : Goto(p, k)) \/ Return(p, "success")
    BY <1>3 DEF Load
  <2> QED
    BY <1>0, <2>1, GotoFacts, ReturnFacts
<1>4. CASE LoadFails(p)
  BY <1>4, ReconcileFailedFacts DEF LoadFails
<1> QED
  BY <1>1, <1>2, <1>3, <1>4 DEF Moves, Switch

LEMMA JobsKept ==
  ASSUME RolloutInv, GateInv, [Next]_vars
  PROVE  \A p \in Proc : Measured(job'[p])
<1> USE DEF GateInv
<1>0. JobInv
  BY DEF RolloutInv
<1>1. ASSUME NEW p \in Proc, Measured(job'[p]), \A q \in Proc : q # p => job'[q] = job[q]
      PROVE  \A q \in Proc : Measured(job'[q])
  BY <1>1
<1>2. ASSUME UNCHANGED job
      PROVE  \A q \in Proc : Measured(job'[q])
  BY <1>2
<1>3. ASSUME NEW p \in Proc,
             \/ ApiCall(p) \/ Replicate(p) \/ Gate(p) \/ Switch(p) \/ Drain(p)
             \/ Clean(p) \/ CallFails(p) \/ PlanFails(p) \/ LoadFails(p)
      PROVE  \A q \in Proc : Measured(job'[q])
  <2>1. Measured(job'[p])
    BY <1>3, CallMeasured, ReplicateMeasured, GateMeasured, SwitchMeasured, CleanMeasured
  <2> QED
    BY <1>1, <1>3, <2>1, OthersWait
<1>4. CASE Guard \/ \E a \in App : Visit(a)
  <2>1. \E k : Goto("supervisor", k)
    BY <1>4 DEF Guard, Visit
  <2> QED
    BY <1>0, <1>1, <1>4, <2>1, SupervisorMeasured, GotoFacts, ProcFacts
<1>5. CASE Repair
  <2>1. \E k : Goto("watcher", k)
    BY <1>5 DEF Repair
  <2> QED
    BY <1>0, <1>1, <1>5, <2>1, RepairMeasured, GotoFacts, ProcFacts
<1>6. CASE DaemonRestarts
  BY <1>6, RestartMeasured DEF DaemonRestarts
<1>7. ASSUME \/ UNCHANGED vars \/ ProxyRestarts
             \/ \E a \in App, s \in Slot : ContainerAnswers(a, s) \/ ContainerDies(a, s)
             \/ \E a \in App, want \in 1..MaxReplicas : Register(a, want)
      PROVE  UNCHANGED job
  BY <1>7 DEF vars, ProxyRestarts, ContainerAnswers, ContainerDies, Register
<1> QED
  BY <1>2, <1>3, <1>4, <1>5, <1>6, <1>7 DEF Next

LEMMA GateInvInit == Init => GateInv
<1> SUFFICES ASSUME Init PROVE GateInv
  OBVIOUS
<1>1. HostInv /\ replicas \in [App -> Nat \ {0}]
  BY DEF Init, HostInv, ContainerState
<1>2. \A p \in Proc : Measured(job[p])
  BY RestartMeasured DEF Init
<1>3. BrokenNeverServes
  <2>1. ASSUME NEW a \in App
        PROVE  ActiveOf(a) = NoRelease /\ route[a] = {}
    BY DEF Init, StoreInit, NoRoutes, ActiveOf, OpenRows
  <2> QED
    BY <2>1, BrokenAreReleases DEF BrokenNeverServes
<1> QED
  BY <1>1, <1>2, <1>3 DEF GateInv

LEMMA GateInvStep == RolloutInv /\ GateInv /\ [Next]_vars => GateInv'
<1> SUFFICES ASSUME RolloutInv, GateInv, [Next]_vars PROVE GateInv'
  OBVIOUS
<1>1. HostInv' /\ replicas' \in [App -> Nat \ {0}]
  BY HostKept, ScaleKept DEF GateInv
<1>2. \A p \in Proc : Measured(job[p])'
  BY JobsKept DEF Measured
<1> QED
  BY <1>1, <1>2, ServesKept DEF GateInv

\* What the gate let through, and what goroutines carry on from there, is
\* never of a broken release.
THEOREM GateCorrect == Spec => []GateInv
  BY GateInvInit, GateInvStep, RolloutCorrect, PTL DEF Spec

\* A release whose image never answers its probe never goes live and never
\* gets a request, whatever else is deployed, healed or rolled back.
THEOREM GateKeepsBrokenOut == Spec => []BrokenNeverServes
  BY GateCorrect, PTL DEF GateInv

-----------------------------------------------------------------------------
(* Types of what the goroutines hold. *)

\* The fields of TypeOK that no invariant above bounds.
Scales == replicas \in [App -> 1..MaxReplicas]
Jobs == job \in [Proc -> Job]
TypeInv == Jobs /\ Scales /\ faults \in 0..MaxFaults

\* Each step leaves a job.
LEMMA IdleIsJob == Idle \in Job /\ NoRoutes \in [App -> SUBSET Slot]
<1>1. AnyApp \in App
  BY NamesAssumption DEF AnyApp
<1>2. NoRoutes \in [App -> SUBSET Slot]
  BY DEF NoRoutes
<1>3. 0 \in 0..MaxReplicas
  BY RolloutAssumption
<1> QED
  BY <1>1, <1>2, <1>3 DEF Idle, Job, Kind, Step

LEMMA Names ==
  /\ {"none", "deploy", "rollback", "prune", "delete", "update", "heal", "repair",
      "startup"} \subseteq Kind
  /\ {"build", "inventory", "start", "gate", "activate", "previous", "guard", "plan",
      "load", "list", "drain", "leftovers"} \subseteq Step
  BY DEF Kind, Step

LEMMA GotoJobs ==
  ASSUME Jobs, NEW p \in Proc, NEW k \in Job, Goto(p, k)
  PROVE  Jobs'
  BY DEF Jobs, Goto

LEMMA ReturnJobs ==
  ASSUME Jobs, NEW p \in Proc, NEW report \in {"success", "failure"}, Return(p, report)
  PROVE  Jobs'
<1> DEFINE reply == [Idle EXCEPT !.kind = job[p].kind, !.at = "reply",
                                 !.moved = job[p].moved, !.report = report]
<1>1. Goto(p, reply) \/ Goto(p, Idle)
  BY DEF Return
<1>2. job[p].kind \in Kind /\ job[p].moved \in BOOLEAN
  BY DEF Jobs, Job
<1>3. reply \in Job
  BY <1>2, IdleIsJob DEF Job, Step
<1> HIDE DEF reply
<1> QED
  BY <1>1, <1>3, IdleIsJob, GotoJobs

LEMMA NextReplicaJobs ==
  ASSUME NEW j \in Job
  PROVE  NextReplica(j) \in Job
<1>1. [j EXCEPT !.at = IF j.index \in j.have THEN "start" ELSE "create"] \in Job
  BY DEF Job, Step
<1>2. [j EXCEPT !.at = IF j.extra = {} THEN "gate" ELSE "shrink", !.index = 0, !.have = {}] \in Job
  BY DEF Job, Step
<1> QED
  BY <1>1, <1>2 DEF NextReplica

LEMMA ReplicateJobs ==
  ASSUME Jobs, NEW p \in Proc, Replicate(p)
  PROVE  Jobs'
<1> DEFINE j == job[p]
<1>0. j \in Job
  BY DEF Jobs
<1>1. CASE Inventory(p)
  <2>1. PICK have \in SUBSET Index, extra \in SUBSET Index :
          Goto(p, NextReplica([j EXCEPT !.have = have, !.extra = extra]))
    <3> DEFINE present == {i \in Index : host[j.app][<<j.rel, i>>] # "absent"}
    <3>1. /\ {i \in present : i < j.want} \in SUBSET Index
          /\ {i \in present : i >= j.want} \in SUBSET Index
      OBVIOUS
    <3> QED
      BY <1>1, <3>1 DEF Inventory
  <2>2. [j EXCEPT !.have = have, !.extra = extra] \in Job
    BY <1>0 DEF Job
  <2> QED
    BY <2>1, <2>2, NextReplicaJobs, GotoJobs
<1>2. CASE Create(p)
  <2>1. Goto(p, [j EXCEPT !.at = "start"]) \/ Return(p, "failure")
    BY <1>2 DEF Create
  <2>2. [j EXCEPT !.at = "start"] \in Job
    BY <1>0 DEF Job, Step
  <2> QED
    BY <2>1, <2>2, GotoJobs, ReturnJobs
<1>3. CASE Start(p)
  <2>1. Goto(p, NextReplica([j EXCEPT !.index = @ + 1])) \/ Return(p, "failure")
    BY <1>3 DEF Start
  <2>2. [j EXCEPT !.index = @ + 1] \in Job
    BY <1>0 DEF Job
  <2> QED
    BY <2>1, <2>2, NextReplicaJobs, GotoJobs, ReturnJobs
<1>4. CASE Shrink(p)
  <2>1. PICK i \in j.extra :
          Goto(p, NextReplica([j EXCEPT !.extra = @ \ {i}, !.index = j.want]))
    BY <1>4 DEF Shrink
  <2>2. j.want \in Nat
    BY <1>0, RolloutAssumption DEF Job
  <2>3. [j EXCEPT !.extra = @ \ {i}, !.index = j.want] \in Job
    BY <1>0, <2>2 DEF Job
  <2> QED
    BY <2>1, <2>3, NextReplicaJobs, GotoJobs
<1> QED
  BY <1>1, <1>2, <1>3, <1>4 DEF Replicate

LEMMA GateJobs ==
  ASSUME Jobs, NEW p \in Proc, Gate(p)
  PROVE  Jobs'
<1> DEFINE j == job[p]
<1>0. j \in Job /\ j.streak + 1 \in Nat
  BY DEF Jobs, Job
<1>1. CASE Measure(p)
  <2>1. [j EXCEPT !.streak = @ + 1] \in Job
    BY <1>0 DEF Job
  <2>2. [j EXCEPT !.streak = 0, !.at = IF j.kind = "heal" THEN "plan" ELSE "activate"] \in Job
    BY <1>0, Names DEF Job
  <2>3. GateCounts(j) \in Job
    BY <2>1, <2>2 DEF GateCounts
  <2> QED
    BY <1>1, <2>3, GotoJobs DEF Measure
<1>2. CASE MeasureBad(p)
  <2>1. [j EXCEPT !.streak = 0] \in Job
    BY <1>0 DEF Job
  <2> QED
    BY <1>2, <2>1, GotoJobs DEF MeasureBad
<1>3. CASE GateExpires(p)
  BY <1>3, ReturnJobs DEF GateExpires
<1> QED
  BY <1>1, <1>2, <1>3 DEF Gate

LEMMA SwitchJobs ==
  ASSUME Jobs, NEW p \in Proc, Switch(p)
  PROVE  Jobs'
<1> DEFINE j == job[p]
<1>0. j \in Job
  BY DEF Jobs
<1>1. CASE Activate(p)
  <2>1. [j EXCEPT !.at = "plan"] \in Job
    BY <1>0 DEF Job, Step
  <2>2. Goto(p, [j EXCEPT !.at = "plan"]) \/ Return(p, "failure")
    BY <1>1 DEF Activate
  <2> QED
    BY <2>1, <2>2, GotoJobs, ReturnJobs
<1>2. CASE Plan(p)
  <2>1. PICK lost \in SUBSET App :
          Goto(p, [j EXCEPT !.at = "load", !.cfg = Planned(lost),
                            !.skip = Skipped(Planned(lost)) # {}])
    BY <1>2 DEF Plan
  <2>2. Planned(lost) \in [App -> SUBSET Slot]
    BY PlannedFits
  <2>3. (Skipped(Planned(lost)) # {}) \in BOOLEAN
    OBVIOUS
  <2>4. [j EXCEPT !.at = "load", !.cfg = Planned(lost),
                  !.skip = Skipped(Planned(lost)) # {}] \in Job
    BY <1>0, <2>2, <2>3 DEF Job, Step
  <2> QED
    BY <2>1, <2>4, GotoJobs
<1>3. CASE Load(p)
  <2>1. PICK routed \in BOOLEAN :
          \/ Goto(p, [j EXCEPT !.at = "list", !.cfg = NoRoutes, !.moved = routed])
          \/ Return(p, "success")
    BY <1>3 DEF Load
  <2>2. [j EXCEPT !.at = "list", !.cfg = NoRoutes, !.moved = routed] \in Job
    BY <1>0, IdleIsJob DEF Job, Step
  <2> QED
    BY <2>1, <2>2, GotoJobs, ReturnJobs
<1> QED
  BY <1>1, <1>2, <1>3 DEF Switch

LEMMA DrainJobs ==
  ASSUME Jobs, NEW p \in Proc, Drain(p)
  PROVE  Jobs'
<1> DEFINE j == job[p]
<1>0. j \in Job /\ \A k : Answer(k) \in {"success", "failure"}
  BY DEF Jobs, Answer
<1>1. ASSUME NEW k \in Job, Drained(p, k)
      PROVE  Jobs'
  BY <1>0, <1>1, GotoJobs, ReturnJobs DEF Drained
<1>2. CASE DrainList(p)
  <2>1. OnHost(j.app) \ {j.rel} \in SUBSET Release
    BY DEF OnHost
  <2>2. PICK stale \in SUBSET Release :
          Return(p, "success") \/ Goto(p, [j EXCEPT !.at = "drain", !.todo = stale])
    BY <1>2, <2>1 DEF DrainList
  <2>3. [j EXCEPT !.at = "drain", !.todo = stale] \in Job
    BY <1>0 DEF Job, Step
  <2> QED
    BY <2>2, <2>3, GotoJobs, ReturnJobs
<1>3. CASE DrainStop(p)
  <2>1. PICK n \in j.todo : Drained(p, [j EXCEPT !.todo = @ \ {n}])
    BY <1>3 DEF DrainStop
  <2>2. [j EXCEPT !.todo = @ \ {n}] \in Job
    BY <1>0 DEF Job
  <2> QED
    BY <1>1, <2>1, <2>2
<1>4. CASE DrainStopFails(p)
  <2>1. PICK n \in j.todo : Drained(p, [j EXCEPT !.todo = @ \ {n}, !.leak = TRUE])
    BY <1>4 DEF DrainStopFails
  <2>2. [j EXCEPT !.todo = @ \ {n}, !.leak = TRUE] \in Job
    BY <1>0 DEF Job
  <2> QED
    BY <1>1, <2>1, <2>2
<1>5. CASE DrainBroken(p)
  BY <1>0, <1>5, ReturnJobs DEF DrainBroken
<1> QED
  BY <1>2, <1>3, <1>4, <1>5 DEF Drain

LEMMA CleanJobs ==
  ASSUME RolloutInv, Jobs, NEW p \in Proc, Clean(p)
  PROVE  Jobs'
<1> DEFINE j == job[p]
<1>0. j \in Job
  BY DEF Jobs
<1>1. ASSUME NEW k \in Job, NextLeftover(p, k)
      PROVE  Jobs'
  <2>1. [k EXCEPT !.at = "stop"] \in Job /\ [k EXCEPT !.at = "forget"] \in Job
    BY DEF Job, Step
  <2> QED
    BY <1>1, <2>1, GotoJobs, ReturnJobs DEF NextLeftover
<1>2. CASE KeepPrevious(p)
  <2>1. j.app \in App
    BY <1>0 DEF Job
  <2>2. {PreviousOf(j.app)} \ {NoRelease} \in SUBSET Release
    BY <2>1, QueriesFindReleases DEF RolloutInv
  <2>3. [j EXCEPT !.at = "leftovers", !.keep = @ \cup ({PreviousOf(j.app)} \ {NoRelease})] \in Job
    BY <1>0, <2>2 DEF Job, Step
  <2> QED
    BY <1>2, <2>3, GotoJobs DEF KeepPrevious
<1>3. CASE Leftovers(p)
  <2>1. OnHost(j.app) \ j.keep \in SUBSET Release
    BY DEF OnHost
  <2>2. [j EXCEPT !.todo = OnHost(j.app) \ j.keep] \in Job
    BY <1>0, <2>1 DEF Job
  <2> QED
    BY <1>1, <1>3, <2>2 DEF Leftovers
<1>4. CASE StopLeftover(p)
  <2>1. PICK n \in j.todo : Goto(p, [j EXCEPT !.at = "remove", !.rel = n])
    BY <1>4 DEF StopLeftover
  <2>2. n \in Release
    BY <1>0, <2>1 DEF Job
  <2>3. [j EXCEPT !.at = "remove", !.rel = n] \in Job
    BY <1>0, <2>2 DEF Job, Step
  <2> QED
    BY <2>1, <2>3, GotoJobs
<1>5. CASE RemoveLeftover(p)
  <2>1. [j EXCEPT !.todo = @ \ {j.rel}, !.rel = NoRelease] \in Job
    BY <1>0 DEF Job
  <2> QED
    BY <1>1, <1>5, <2>1 DEF RemoveLeftover
<1>6. CASE Forget(p)
  BY <1>6, ReturnJobs DEF Forget
<1> QED
  BY <1>2, <1>3, <1>4, <1>5, <1>6 DEF Clean

LEMMA CallJobs ==
  ASSUME RolloutInv, TypeInv, NEW p \in Proc, ApiCall(p)
  PROVE  Jobs'
<1> DEFINE j == job[p]
<1>0. j \in Job /\ Jobs /\ \A a \in App : replicas[a] \in 0..MaxReplicas
  BY DEF TypeInv, Jobs, Scales
<1>1. ASSUME NEW a \in App, BeginDeploy(p, a)
      PROVE  Jobs'
  <2>1. seq[a] + 1 \in Release
    BY <1>1, BoundsAssumption DEF BeginDeploy, StartRelease, Release, RolloutInv, StoreInv, StoreTypeOK
  <2>2. [Idle EXCEPT !.kind = "deploy", !.at = "build", !.app = a,
                     !.rel = seq[a] + 1, !.want = replicas[a]] \in Job
    BY <1>0, <2>1, IdleIsJob, Names DEF Job
  <2> QED
    BY <1>0, <1>1, <2>2, GotoJobs DEF BeginDeploy
<1>2. ASSUME NEW a \in App, BeginRollback(p, a)
      PROVE  Jobs'
  <2>1. PreviousOf(a) \in Release
    BY <1>2, QueriesFindReleases DEF BeginRollback, RolloutInv
  <2>2. [Idle EXCEPT !.kind = "rollback", !.at = "inventory", !.app = a,
                     !.rel = PreviousOf(a), !.want = replicas[a]] \in Job
    BY <1>0, <2>1, IdleIsJob, Names DEF Job
  <2> QED
    BY <1>0, <1>2, <2>2, GotoJobs DEF BeginRollback
<1>3. ASSUME NEW a \in App, BeginPrune(p, a)
      PROVE  Jobs'
  <2>1. ActiveOf(a) \in Release
    BY <1>3, QueriesFindReleases DEF BeginPrune, RolloutInv
  <2>2. [Idle EXCEPT !.kind = "prune", !.at = "previous", !.app = a,
                     !.keep = {ActiveOf(a)}] \in Job
    BY <2>1, IdleIsJob, Names DEF Job
  <2> QED
    BY <1>0, <1>3, <2>2, GotoJobs DEF BeginPrune
<1>4. ASSUME NEW a \in App, BeginDelete(p, a)
      PROVE  Jobs'
  <2>1. [Idle EXCEPT !.kind = "delete", !.at = "leftovers", !.app = a] \in Job
    BY IdleIsJob, Names DEF Job
  <2> QED
    BY <1>0, <1>4, <2>1, GotoJobs DEF BeginDelete
<1>5. ASSUME NEW a \in App, NEW want \in 1..MaxReplicas, BeginUpdate(p, a, want)
      PROVE  Jobs'
  <2>1. [Idle EXCEPT !.kind = "update", !.at = "plan", !.app = a] \in Job
    BY IdleIsJob, Names DEF Job
  <2> QED
    BY <1>0, <1>5, <2>1, GotoJobs DEF BeginUpdate
<1>6. CASE BuildDone(p)
  BY <1>0, <1>6, NextReplicaJobs, GotoJobs DEF BuildDone
<1>7. CASE BuildFailed(p)
  BY <1>0, <1>7, ReturnJobs DEF BuildFailed
<1>8. CASE Reply(p)
  BY <1>0, <1>8, IdleIsJob, GotoJobs DEF Reply
<1> QED
  BY <1>1, <1>2, <1>3, <1>4, <1>5, <1>6, <1>7, <1>8 DEF ApiCall

LEMMA FailureJobs ==
  ASSUME Jobs, NEW p \in Proc, CallFails(p) \/ PlanFails(p) \/ LoadFails(p)
  PROVE  Jobs'
<1> DEFINE k == [job[p] EXCEPT !.at = "plan", !.cfg = NoRoutes, !.skip = FALSE,
                               !.index = @ + 1]
<1>0. job[p] \in Job
  BY DEF Jobs
<1>1. k \in Job
  <2>1. job[p].index + 1 \in Nat /\ NoRoutes \in [App -> SUBSET Slot]
    BY <1>0, IdleIsJob DEF Job
  <2> QED
    BY <1>0, <2>1, Names DEF Job
<1>2. Return(p, "failure") \/ Goto(p, k)
  BY DEF CallFails, PlanFails, LoadFails, ReconcileFailed
<1> HIDE DEF k
<1> QED
  BY <1>1, <1>2, GotoJobs, ReturnJobs

LEMMA LoopJobs ==
  ASSUME RolloutInv, TypeInv, Guard \/ Repair \/ DaemonRestarts \/ \E a \in App : Visit(a)
  PROVE  Jobs'
<1>0. Jobs /\ job["supervisor"] \in Job /\ \A a \in App : replicas[a] \in 0..MaxReplicas
  BY ProcFacts DEF TypeInv, Jobs, Scales
<1>1. CASE Guard
  <2>1. [job["supervisor"] EXCEPT !.at = "inventory"] \in Job
    BY <1>0 DEF Job, Step
  <2> QED
    BY <1>0, <1>1, <2>1, IdleIsJob, GotoJobs, ProcFacts DEF Guard
<1>2. ASSUME NEW a \in App, Visit(a)
      PROVE  Jobs'
  <2>1. ActiveOf(a) \in Release
    BY <1>2, QueriesFindReleases DEF Visit, RolloutInv
  <2>2. [Idle EXCEPT !.kind = "heal", !.at = "guard", !.app = a,
                     !.rel = ActiveOf(a), !.want = replicas[a]] \in Job
    BY <1>0, <2>1, IdleIsJob, Names DEF Job
  <2> QED
    BY <1>0, <1>2, <2>2, GotoJobs, ProcFacts DEF Visit
<1>3. CASE Repair
  <2>1. PICK lost \in SUBSET App :
          Goto("watcher", [Idle EXCEPT !.kind = "repair", !.at = "load",
                                       !.cfg = CarryOver(Planned(lost))])
    BY <1>3 DEF Repair
  <2>2. CarryOver(Planned(lost)) \in [App -> SUBSET Slot]
    BY PlannedFits DEF CarryOver, RolloutInv, Shape
  <2>3. [Idle EXCEPT !.kind = "repair", !.at = "load",
                     !.cfg = CarryOver(Planned(lost))] \in Job
    BY <2>2, IdleIsJob, Names DEF Job
  <2> QED
    BY <1>0, <2>1, <2>3, GotoJobs, ProcFacts
<1>4. CASE DaemonRestarts
  <2>1. Startup \in Job
    BY IdleIsJob, Names DEF Startup, Job
  <2> QED
    BY <1>4, <2>1, IdleIsJob DEF DaemonRestarts, AllIdle, Jobs
<1> QED
  BY <1>1, <1>2, <1>3, <1>4

\* A scale is at least one and within its bound.
LEMMA ScalesKept ==
  ASSUME Scales, [Next]_vars
  PROVE  Scales'
<1>1. CASE UNCHANGED replicas
  BY <1>1 DEF Scales
<1>2. CASE \E a \in App, want \in 1..MaxReplicas : replicas' = [replicas EXCEPT ![a] = want]
  BY <1>2 DEF Scales
<1> QED
  BY <1>1, <1>2, ScaleCases

\* A fault is counted, and at the bound there are no more.
LEMMA FaultsKept ==
  ASSUME faults \in 0..MaxFaults, [Next]_vars
  PROVE  faults' \in 0..MaxFaults /\ (UNCHANGED faults \/ Fault)
<1>1. ASSUME NEW p \in Proc,
             \/ ApiCall(p) \/ Replicate(p) \/ Gate(p) \/ Switch(p) \/ Drain(p)
             \/ Clean(p) \/ CallFails(p) \/ PlanFails(p) \/ LoadFails(p)
      PROVE  UNCHANGED faults \/ Fault
  <2>1. CASE ApiCall(p)
    BY <2>1 DEF ApiCall, BeginDeploy, BeginRollback, BeginPrune, BeginDelete, BeginUpdate,
                BuildDone, BuildFailed, Reply
  <2>2. CASE Replicate(p) \/ Gate(p) \/ Drain(p) \/ Clean(p)
    BY <2>2 DEF Replicate, Inventory, Create, Start, Shrink, Gate, Measure, MeasureBad,
                GateExpires, Drain, DrainList, DrainStop, DrainStopFails, DrainBroken,
                Clean, KeepPrevious, Leftovers, StopLeftover, RemoveLeftover, Forget
  <2>3. CASE Switch(p)
    BY <2>3 DEF Switch, Activate, Plan, ListingFails, Load
  <2>4. CASE CallFails(p) \/ PlanFails(p) \/ LoadFails(p)
    BY <2>4 DEF CallFails, PlanFails, LoadFails
  <2> QED
    BY <1>1, <2>1, <2>2, <2>3, <2>4
<1>2. ASSUME \/ UNCHANGED vars \/ Guard \/ Repair \/ ProxyRestarts \/ DaemonRestarts
             \/ \E a \in App : Visit(a)
             \/ \E a \in App, s \in Slot : ContainerAnswers(a, s) \/ ContainerDies(a, s)
             \/ \E a \in App, want \in 1..MaxReplicas : Register(a, want)
      PROVE  UNCHANGED faults \/ Fault
  BY <1>2 DEF vars, Guard, Repair, ListingFails, ProxyRestarts, DaemonRestarts, Visit,
              ContainerAnswers, ContainerDies, Register
<1>3. UNCHANGED faults \/ Fault
  BY <1>1, <1>2 DEF Next
<1> QED
  BY <1>3, RolloutAssumption DEF Fault

LEMMA TypeInvInit == Init => TypeInv
<1> SUFFICES ASSUME Init PROVE TypeInv
  OBVIOUS
<1>1. Startup \in Job /\ "main" \in Proc
  BY IdleIsJob, Names, ProcFacts DEF Startup, Job
<1>2. Jobs
  BY <1>1, IdleIsJob DEF Init, AllIdle, Jobs
<1>3. Scales /\ faults \in 0..MaxFaults
  BY RolloutAssumption DEF Init, Scales
<1> QED
  BY <1>2, <1>3 DEF TypeInv

LEMMA TypeInvStep ==
  ASSUME RolloutInv, TypeInv, [Next]_vars
  PROVE  TypeInv'
<1>1. Jobs
  BY DEF TypeInv
<1>2. Jobs'
  <2>1. CASE \E p \in Proc : ApiCall(p) \/ Replicate(p) \/ Gate(p) \/ Switch(p) \/ Drain(p)
    BY <1>1, <2>1, CallJobs, ReplicateJobs, GateJobs, SwitchJobs, DrainJobs
  <2>2. CASE \E p \in Proc : Clean(p) \/ CallFails(p) \/ PlanFails(p) \/ LoadFails(p)
    BY <1>1, <2>2, CleanJobs, FailureJobs
  <2>3. CASE Guard \/ Repair \/ DaemonRestarts \/ \E a \in App : Visit(a)
    BY <2>3, LoopJobs
  <2>4. CASE \/ UNCHANGED vars \/ ProxyRestarts
             \/ \E a \in App, s \in Slot : ContainerAnswers(a, s) \/ ContainerDies(a, s)
             \/ \E a \in App, want \in 1..MaxReplicas : Register(a, want)
    BY <1>1, <2>4 DEF vars, ProxyRestarts, ContainerAnswers, ContainerDies, Register, Jobs
  <2> QED
    BY <2>1, <2>2, <2>3, <2>4 DEF Next
<1> QED
  BY <1>2, ScalesKept, FaultsKept DEF TypeInv

\* A goroutine holds what the handlers let it hold, whatever the bounds; and the
\* mutex is held exactly between reading the store and loading the proxy.
THEOREM RolloutTypes == Spec => []TypeOK
<1>1. RolloutInv /\ GateInv /\ TypeInv => TypeOK
  BY DEF RolloutInv, GateInv, TypeInv, Jobs, Scales, Shape, JobInv, StoreInv, HostInv, TypeOK
<1>2. Spec => []TypeInv
  BY TypeInvInit, TypeInvStep, RolloutCorrect, PTL DEF Spec
<1> QED
  BY <1>1, <1>2, RolloutCorrect, GateCorrect, PTL

-----------------------------------------------------------------------------
(* One step of a goroutine, as far as the proofs below tell steps apart. *)

Rollouts == {"deploy", "rollback"}
Live(a) == ActiveOf(a) # NoRelease

\* The goroutine goes on with the same work.
Goes(j, k) == k.kind = j.kind /\ k.app = j.app /\ k.keep = j.keep /\ k.report = j.report

\* It returns; a deployment or rollback with success only from its end, or when
\* its own app was skipped.
Ends(p, j, k) ==
  /\ p \in Op /\ j.at # "idle" /\ k.at = "reply" /\ k.kind = j.kind /\ k.keep = {}
  /\ k.report = "success" /\ j.kind \in Rollouts =>
       \/ j.at \in Removal
       \/ j.at = "load" /\ j.cfg[j.app] = {}
       \/ j.at \in {"list", "drain"} /\ k.moved = j.moved

Begins(p, j, k) ==
  /\ j.at = "idle" /\ k.extra = {} /\ k.report = "none"
  /\ \/ p \in Op /\ k.kind = "deploy" /\ k.at = "build" /\ k.app \in apps
     \/ p \in Op /\ k.kind = "rollback" /\ k.at = "inventory" /\ Live(k.app)
     \/ /\ p \in Op /\ k.kind = "prune" /\ k.at = "previous"
        /\ Live(k.app) /\ k.keep = {ActiveOf(k.app)}
     \/ /\ p \in Op /\ k.kind = "delete" /\ k.at = "leftovers" /\ k.keep = {}
        /\ Live(k.app) => Fault
     \/ p \in Op /\ k.kind = "update" /\ k.at = "plan"
     \/ p = "supervisor" /\ k.kind = "heal" /\ k.at = "guard" /\ Live(k.app)
     \/ /\ p = "watcher" /\ k.kind = "repair" /\ k.at = "load"
        /\ \E lost \in SUBSET App : ListingFails(lost) /\ k.cfg = CarryOver(Planned(lost))

\* On the way to the switch; the gate opens after a measurement.
Prepares(j, k) ==
  /\ j.at \in Ahead /\ k.at \in Ahead \ {"build", "guard"}
  /\ Goes(j, k) /\ k.rel = j.rel /\ (0 \in k.extra => 0 \in j.extra)
  /\ k.at = "activate" => j.at = "gate" /\ j.kind # "heal" /\ Ready(j.app, j.rel, j.want)

HealMeasured(j, k) == j.at = "gate" /\ j.kind = "heal" /\ k.at = "plan" /\ Goes(j, k)

Activates(j, k) ==
  /\ j.at = "activate" /\ k.at = "plan" /\ Goes(j, k) /\ k.rel = j.rel
  /\ SetActiveRelease(j.app, j.rel)

Plans(j, k) ==
  /\ j.at = "plan" /\ k.at = "load" /\ Goes(j, k) /\ k.rel = j.rel
  /\ \E lost \in SUBSET App : ListingFails(lost) /\ k.cfg = Planned(lost)

Retries(p, j, k) ==
  p = "main" /\ j.at \in {"plan", "load"} /\ k.at = "plan" /\ Goes(j, k) /\ Fault

Loads(j, k) ==
  /\ j.at = "load" /\ k.at = "list" /\ Goes(j, k) /\ k.rel = j.rel
  /\ j.kind \in Rollouts /\ j.cfg[j.app] # {} /\ Loaded(j.cfg)
  /\ k.moved <=> \E i \in Index : <<j.rel, i>> \in j.cfg[j.app]

Drains(j, k) ==
  /\ k.at = "drain" /\ Goes(j, k) /\ k.rel = j.rel /\ k.moved = j.moved
  /\ \/ j.at = "list" /\ k.todo = OnHost(j.app) \ {j.rel}
     \/ j.at = "drain" /\ k.todo \subseteq j.todo

Keeps(j, k) ==
  /\ j.at = "previous" /\ k.at = "leftovers"
  /\ k.kind = j.kind /\ k.app = j.app /\ k.report = j.report
  /\ k.keep = j.keep \cup ({PreviousOf(j.app)} \ {NoRelease})

\* The containers of the release it works on are removed.
Gone(j) ==
  j.rel \in Release => \A i \in Index : host'[j.app][<<j.rel, i>>] = "absent"

\* What is left to remove: all that was found, less each release once removed.
Removes(j, k) ==
  /\ Goes(j, k)
  /\ \/ j.at = "leftovers" /\ k.todo = OnHost(j.app) \ j.keep
     \/ j.at = "remove" /\ k.todo = j.todo \ {j.rel} /\ Gone(j)
  /\ k.at = "stop" \/ (k.at = "forget" /\ k.kind = "delete" /\ k.todo = {})

Stops(j, k) ==
  /\ j.at = "stop" /\ k.at = "remove" /\ Goes(j, k)
  /\ k.todo = j.todo /\ k.rel \in j.todo

Turn(p) ==
  LET j == job[p]  k == job'[p] IN
  \/ k = Idle
  \/ p = "main" /\ k = Startup /\ Fault
  \/ Ends(p, j, k) \/ Begins(p, j, k) \/ Prepares(j, k) \/ HealMeasured(j, k)
  \/ Activates(j, k) \/ Plans(j, k) \/ Retries(p, j, k) \/ Loads(j, k) \/ Drains(j, k)
  \/ Keeps(j, k) \/ Removes(j, k) \/ Stops(j, k)

LEMMA ReturnTurns ==
  ASSUME RolloutInv, Jobs, NEW p \in Proc, NEW report \in {"success", "failure"},
         Return(p, report), job[p].at # "idle",
         report = "success" /\ job[p].kind \in Rollouts =>
           \/ job[p].at \in Removal \cup {"list", "drain"}
           \/ job[p].at = "load" /\ job[p].cfg[job[p].app] = {}
  PROVE  Turn(p)
<1> DEFINE j == job[p]
           k == [Idle EXCEPT !.kind = j.kind, !.at = "reply", !.moved = j.moved, !.report = report]
<1>1. k.at = "reply" /\ k.kind = j.kind /\ k.keep = {} /\ k.moved = j.moved /\ k.report = report
  BY DEF Idle
<1>2. Goto(p, IF p \in Op THEN k ELSE Idle)
  BY DEF Return
<1> HIDE DEF k
<1>3. job'[p] = IF p \in Op THEN k ELSE Idle
  BY <1>2, GotoFacts DEF RolloutInv
<1>4. p \in Op => Ends(p, j, k)
  BY <1>1 DEF Ends
<1> QED
  BY <1>3, <1>4 DEF Turn

LEMMA NextReplicaGoes ==
  ASSUME NEW j \in Job
  PROVE  /\ Goes(j, NextReplica(j)) /\ NextReplica(j).rel = j.rel
         /\ NextReplica(j).extra = j.extra
         /\ NextReplica(j).at \in {"start", "create", "gate", "shrink"}
  BY DEF NextReplica, Goes, Job

LEMMA PrepareTurns ==
  ASSUME RolloutInv, Jobs, NEW p \in Proc, NEW k, Goto(p, k), Prepares(job[p], k)
  PROVE  Turn(p)
  BY GotoFacts DEF RolloutInv, Turn

LEMMA ReplicateTurns ==
  ASSUME RolloutInv, GateInv, Jobs, NEW p \in Proc, Replicate(p)
  PROVE  Turn(p)
<1> DEFINE j == job[p]
<1>0. j \in Job
  BY DEF Jobs
<1>1. CASE Inventory(p)
  <2> DEFINE present == {i \in Index : host[j.app][<<j.rel, i>>] # "absent"}
             m == [j EXCEPT !.have = {i \in present : i < j.want},
                            !.extra = {i \in present : i >= j.want}]
  <2>1. Goto(p, NextReplica(m)) /\ j.at = "inventory"
    BY <1>1 DEF Inventory, At
  <2>2. m \in Job
    BY <1>0 DEF Job
  <2>3. Goes(j, m) /\ m.rel = j.rel
    BY <1>0 DEF Goes, Job
  <2>4. j.want \in Nat \ {0}
    BY <2>1 DEF GateInv, Measured, Ahead
  <2>5. 0 \notin m.extra
    BY <1>0, <2>4 DEF Job
  <2> HIDE DEF m
  <2>6. Prepares(j, NextReplica(m))
    BY <2>1, <2>2, <2>3, <2>5, NextReplicaGoes DEF Prepares, Goes, Ahead
  <2> QED
    BY <2>1, <2>6, PrepareTurns
<1>2. CASE Create(p)
  <2>1. j.at = "create" /\ (Goto(p, [j EXCEPT !.at = "start"]) \/ Return(p, "failure"))
    BY <1>2 DEF Create, At
  <2>2. Prepares(j, [j EXCEPT !.at = "start"])
    BY <1>0, <2>1 DEF Prepares, Goes, Ahead, Job
  <2> QED
    BY <2>1, <2>2, PrepareTurns, ReturnTurns
<1>3. CASE Start(p)
  <2> DEFINE m == [j EXCEPT !.index = @ + 1]
  <2>1. j.at = "start" /\ (Goto(p, NextReplica(m)) \/ Return(p, "failure"))
    BY <1>3 DEF Start, At
  <2>2. m \in Job /\ Goes(j, m) /\ m.rel = j.rel /\ m.extra = j.extra
    BY <1>0 DEF Goes, Job
  <2> HIDE DEF m
  <2>3. Prepares(j, NextReplica(m))
    BY <2>1, <2>2, NextReplicaGoes DEF Prepares, Goes, Ahead
  <2> QED
    BY <2>1, <2>3, PrepareTurns, ReturnTurns
<1>4. CASE Shrink(p)
  <2>1. PICK i \in j.extra :
          /\ j.at = "shrink"
          /\ Goto(p, NextReplica([j EXCEPT !.extra = @ \ {i}, !.index = j.want]))
    BY <1>4 DEF Shrink, At
  <2> DEFINE m == [j EXCEPT !.extra = @ \ {i}, !.index = j.want]
  <2>2. j.want \in Nat
    BY <1>0, RolloutAssumption DEF Job
  <2>3. m \in Job /\ Goes(j, m) /\ m.rel = j.rel /\ m.extra = j.extra \ {i}
    BY <1>0, <2>2 DEF Goes, Job
  <2>4. Goto(p, NextReplica(m))
    BY <2>1
  <2> HIDE DEF m
  <2>5. Prepares(j, NextReplica(m))
    BY <2>1, <2>3, NextReplicaGoes DEF Prepares, Goes, Ahead
  <2> QED
    BY <2>4, <2>5, PrepareTurns
<1> QED
  BY <1>1, <1>2, <1>3, <1>4 DEF Replicate

LEMMA GateTurns ==
  ASSUME RolloutInv, Jobs, NEW p \in Proc, Gate(p)
  PROVE  Turn(p)
<1> DEFINE j == job[p]
<1>0. j \in Job
  BY DEF Jobs
<1>1. CASE Measure(p)
  <2> DEFINE k == GateCounts(j)
  <2>1. Goto(p, k) /\ j.at = "gate" /\ Ready(j.app, j.rel, j.want)
    BY <1>1 DEF Measure, At
  <2>2. job'[p] = k
    BY <2>1, GotoFacts DEF RolloutInv
  <2>3. /\ Goes(j, k) /\ k.rel = j.rel /\ k.extra = j.extra
        /\ k.at \in {j.at, IF j.kind = "heal" THEN "plan" ELSE "activate"}
    BY <1>0 DEF GateCounts, Goes, Job
  <2> HIDE DEF k
  <2>4. Prepares(j, k) \/ HealMeasured(j, k)
    BY <2>1, <2>3 DEF Prepares, HealMeasured, Ahead
  <2> QED
    BY <2>2, <2>4 DEF Turn
<1>2. CASE MeasureBad(p)
  <2>1. Goto(p, [j EXCEPT !.streak = 0]) /\ j.at = "gate"
    BY <1>2 DEF MeasureBad, At
  <2>2. Prepares(j, [j EXCEPT !.streak = 0])
    BY <1>0, <2>1 DEF Prepares, Goes, Ahead, Job
  <2> QED
    BY <2>1, <2>2, PrepareTurns
<1>3. CASE GateExpires(p)
  <2>1. Return(p, "failure") /\ j.at = "gate"
    BY <1>3 DEF GateExpires, At
  <2> QED
    BY <2>1, ReturnTurns
<1> QED
  BY <1>1, <1>2, <1>3 DEF Gate

LEMMA SwitchTurns ==
  ASSUME RolloutInv, Jobs, NEW p \in Proc, Switch(p)
  PROVE  Turn(p)
<1> DEFINE j == job[p]
<1>0. j \in Job /\ JobInv
  BY DEF Jobs, RolloutInv
<1>1. CASE Activate(p)
  <2> DEFINE k == [j EXCEPT !.at = "plan"]
  <2>1. j.at = "activate" /\ (Return(p, "failure") \/ (Goto(p, k) /\ SetActiveRelease(j.app, j.rel)))
    BY <1>1 DEF Activate, At
  <2>2. Goes(j, k) /\ k.at = "plan" /\ k.rel = j.rel
    BY <1>0 DEF Goes, Job
  <2> HIDE DEF k
  <2>3. ASSUME Goto(p, k), SetActiveRelease(j.app, j.rel)
        PROVE  Turn(p)
    <3>1. Activates(j, k) /\ job'[p] = k
      BY <1>0, <2>1, <2>2, <2>3, GotoFacts DEF Activates
    <3> QED
      BY <3>1 DEF Turn
  <2> QED
    BY <2>1, <2>3, ReturnTurns
<1>2. CASE Plan(p)
  <2>1. PICK lost \in SUBSET App :
          /\ ListingFails(lost)
          /\ Goto(p, [j EXCEPT !.at = "load", !.cfg = Planned(lost),
                               !.skip = Skipped(Planned(lost)) # {}])
    BY <1>2 DEF Plan
  <2> DEFINE k == [j EXCEPT !.at = "load", !.cfg = Planned(lost),
                            !.skip = Skipped(Planned(lost)) # {}]
  <2>2. Goes(j, k) /\ k.at = "load" /\ k.rel = j.rel /\ k.cfg = Planned(lost)
    BY <1>0 DEF Goes, Job
  <2>3. job'[p] = k
    BY <1>0, <2>1, GotoFacts
  <2> HIDE DEF k
  <2>4. j.at = "plan"
    BY <1>2 DEF Plan, At
  <2>5. Plans(j, k)
    BY <2>1, <2>2, <2>4 DEF Plans
  <2> QED
    BY <2>3, <2>5 DEF Turn
<1>3. CASE Load(p)
  <2> DEFINE routed == \E i \in Index : <<j.rel, i>> \in j.cfg[j.app]
             k == [j EXCEPT !.at = "list", !.cfg = NoRoutes, !.moved = routed]
  <2>1. /\ j.at = "load" /\ Loaded(j.cfg)
        /\ IF j.kind \in Rollouts /\ j.cfg[j.app] # {} THEN Goto(p, k) ELSE Return(p, "success")
    BY <1>3 DEF Load, At, Rollouts
  <2>2. Goes(j, k) /\ k.at = "list" /\ k.rel = j.rel /\ (k.moved <=> routed)
    BY <1>0 DEF Goes, Job
  <2> HIDE DEF k
  <2>3. CASE j.kind \in Rollouts /\ j.cfg[j.app] # {}
    <3>1. Loads(j, k) /\ job'[p] = k
      BY <1>0, <2>1, <2>2, <2>3, GotoFacts DEF Loads
    <3> QED
      BY <3>1 DEF Turn
  <2> QED
    BY <2>1, <2>3, ReturnTurns
<1> QED
  BY <1>1, <1>2, <1>3 DEF Switch

LEMMA DrainTurns ==
  ASSUME RolloutInv, Jobs, NEW p \in Proc, Drain(p)
  PROVE  Turn(p)
<1> DEFINE j == job[p]
<1>0. j \in Job /\ JobInv /\ \A k : Answer(k) \in {"success", "failure"}
  BY DEF Jobs, RolloutInv, Answer
<1>1. ASSUME NEW k, Drained(p, k), Drains(j, k)
      PROVE  Turn(p)
  <2>1. j.at \in {"list", "drain"} /\ j.at # "idle"
    BY <1>1 DEF Drains
  <2>2. CASE Goto(p, k)
    BY <1>0, <1>1, <2>2, GotoFacts DEF Turn
  <2> QED
    BY <1>0, <1>1, <2>1, <2>2, ReturnTurns DEF Drained
<1>2. CASE DrainList(p)
  <2> DEFINE k == [j EXCEPT !.at = "drain", !.todo = OnHost(j.app) \ {j.rel}]
  <2>1. j.at = "list" /\ (Return(p, "success") \/ Goto(p, k))
    BY <1>2 DEF DrainList, At
  <2>2. Drains(j, k)
    BY <1>0, <2>1 DEF Drains, Goes, Job
  <2> HIDE DEF k
  <2>3. CASE Goto(p, k)
    BY <1>0, <2>2, <2>3, GotoFacts DEF Turn
  <2> QED
    BY <2>1, <2>3, ReturnTurns
<1>3. CASE DrainStop(p)
  <2>1. PICK n \in j.todo : j.at = "drain" /\ Drained(p, [j EXCEPT !.todo = @ \ {n}])
    BY <1>3 DEF DrainStop, At
  <2>2. Drains(j, [j EXCEPT !.todo = @ \ {n}])
    BY <1>0, <2>1 DEF Drains, Goes, Job
  <2> QED
    BY <1>1, <2>1, <2>2
<1>4. CASE DrainStopFails(p)
  <2>1. PICK n \in j.todo :
          j.at = "drain" /\ Drained(p, [j EXCEPT !.todo = @ \ {n}, !.leak = TRUE])
    BY <1>4 DEF DrainStopFails, At
  <2>2. Drains(j, [j EXCEPT !.todo = @ \ {n}, !.leak = TRUE])
    BY <1>0, <2>1 DEF Drains, Goes, Job
  <2> QED
    BY <1>1, <2>1, <2>2
<1>5. CASE DrainBroken(p)
  <2>1. j.at = "list" /\ Return(p, Answer([j EXCEPT !.leak = TRUE]))
    BY <1>5 DEF DrainBroken, At
  <2> QED
    BY <1>0, <2>1, ReturnTurns
<1> QED
  BY <1>2, <1>3, <1>4, <1>5 DEF Drain

LEMMA CleanTurns ==
  ASSUME RolloutInv, HostInv, Jobs, NEW p \in Proc, Clean(p)
  PROVE  Turn(p)
<1> DEFINE j == job[p]
<1>0. j \in Job /\ JobInv
  BY DEF Jobs, RolloutInv
<1>1. ASSUME NEW k \in Job, NextLeftover(p, k), Goes(j, k), j.at \in {"leftovers", "remove"},
             IF j.at = "leftovers" THEN k.todo = OnHost(j.app) \ j.keep
             ELSE k.todo = j.todo \ {j.rel} /\ Gone(j)
      PROVE  Turn(p)
  <2> DEFINE m == [k EXCEPT !.at = IF k.todo = {} THEN "forget" ELSE "stop"]
  <2>1. /\ Goes(j, m) /\ m.todo = k.todo
        /\ m.at = IF k.todo = {} THEN "forget" ELSE "stop"
    BY <1>1 DEF Goes, Job
  <2>2. IF k.todo # {} \/ k.kind = "delete" THEN Goto(p, m) ELSE Return(p, "success")
    BY <1>1 DEF NextLeftover
  <2> HIDE DEF m
  <2>3. CASE k.todo # {} \/ k.kind = "delete"
    <3>1. Removes(j, m) /\ job'[p] = m
      BY <1>0, <1>1, <2>1, <2>2, <2>3, GotoFacts DEF Removes, Goes
    <3> QED
      BY <3>1 DEF Turn
  <2> QED
    BY <1>1, <2>2, <2>3, ReturnTurns DEF Removal
<1>2. CASE KeepPrevious(p)
  <2> DEFINE k == [j EXCEPT !.at = "leftovers",
                            !.keep = @ \cup ({PreviousOf(j.app)} \ {NoRelease})]
  <2>1. Goto(p, k) /\ j.at = "previous"
    BY <1>2 DEF KeepPrevious, At
  <2>2. Keeps(j, k)
    BY <1>0, <2>1 DEF Keeps, Job
  <2>3. job'[p] = k
    BY <1>0, <2>1, GotoFacts
  <2> HIDE DEF k
  <2> QED
    BY <2>2, <2>3 DEF Turn
<1>3. CASE Leftovers(p)
  <2> DEFINE k == [j EXCEPT !.todo = OnHost(j.app) \ j.keep]
  <2>1. NextLeftover(p, k) /\ j.at = "leftovers"
    BY <1>3 DEF Leftovers, At
  <2>2. OnHost(j.app) \ j.keep \in SUBSET Release
    BY DEF OnHost
  <2>3. k \in Job /\ Goes(j, k) /\ k.todo = OnHost(j.app) \ j.keep
    BY <1>0, <2>2 DEF Job, Goes
  <2> HIDE DEF k
  <2> QED
    BY <1>1, <2>1, <2>3
<1>4. CASE StopLeftover(p)
  <2>1. PICK n \in j.todo : j.at = "stop" /\ Goto(p, [j EXCEPT !.at = "remove", !.rel = n])
    BY <1>4 DEF StopLeftover, At
  <2> DEFINE k == [j EXCEPT !.at = "remove", !.rel = n]
  <2>2. Stops(j, k)
    BY <1>0, <2>1 DEF Stops, Goes, Job
  <2>3. job'[p] = k
    BY <1>0, <2>1, GotoFacts
  <2> HIDE DEF k
  <2> QED
    BY <2>2, <2>3 DEF Turn
<1>5. CASE RemoveLeftover(p)
  <2> DEFINE k == [j EXCEPT !.todo = @ \ {j.rel}, !.rel = NoRelease]
  <2>1. NextLeftover(p, k) /\ j.at = "remove"
    BY <1>5 DEF RemoveLeftover, At
  <2>2. k \in Job /\ Goes(j, k) /\ k.todo = j.todo \ {j.rel}
    BY <1>0 DEF Job, Goes
  <2> HIDE DEF k
  <2>3. Gone(j)
    <3>1. host' = [host EXCEPT ![j.app] = [s \in Slot |->
                     IF s[1] = j.rel THEN "absent" ELSE host[j.app][s]]]
      BY <1>5 DEF RemoveLeftover
    <3>2. ASSUME NEW i \in Index, j.rel \in Release
          PROVE  host'[j.app][<<j.rel, i>>] = "absent"
      BY <1>0, <3>1, <3>2 DEF HostInv, Job, Slot
    <3> QED
      BY <3>2 DEF Gone
  <2> QED
    BY <1>1, <2>1, <2>2, <2>3
<1>6. CASE Forget(p)
  <2>1. j.at = "forget" /\ (Return(p, "success") \/ Return(p, "failure"))
    BY <1>6 DEF Forget, At
  <2> QED
    BY <2>1, ReturnTurns DEF Removal
<1> QED
  BY <1>2, <1>3, <1>4, <1>5, <1>6 DEF Clean

\* What begins is read off its first job.
LEMMA BeginTurns ==
  ASSUME RolloutInv, NEW p \in Proc, NEW k, Goto(p, k), Begins(p, job[p], k)
  PROVE  Turn(p)
  BY GotoFacts DEF RolloutInv, Turn

LEMMA CallTurns ==
  ASSUME RolloutInv, Jobs, NEW p \in Proc, ApiCall(p)
  PROVE  Turn(p)
<1> DEFINE j == job[p]
<1>0. j \in Job /\ JobInv
  BY DEF Jobs, RolloutInv
<1>1. ASSUME NEW a \in App, BeginDeploy(p, a)
      PROVE  Turn(p)
  <2> DEFINE k == [Idle EXCEPT !.kind = "deploy", !.at = "build", !.app = a,
                               !.rel = seq[a] + 1, !.want = replicas[a]]
  <2>1. Goto(p, k) /\ p \in Op /\ j.at = "idle" /\ a \in apps
    BY <1>1 DEF BeginDeploy, MayCall, At, StartRelease
  <2>2. Begins(p, j, k)
    BY <2>1 DEF Begins, Idle
  <2> QED
    BY <2>1, <2>2, BeginTurns
<1>2. ASSUME NEW a \in App, BeginRollback(p, a)
      PROVE  Turn(p)
  <2> DEFINE k == [Idle EXCEPT !.kind = "rollback", !.at = "inventory", !.app = a,
                               !.rel = PreviousOf(a), !.want = replicas[a]]
  <2>1. Goto(p, k) /\ p \in Op /\ j.at = "idle" /\ Live(a)
    BY <1>2 DEF BeginRollback, MayCall, At, Live
  <2>2. Begins(p, j, k)
    BY <2>1 DEF Begins, Idle
  <2> QED
    BY <2>1, <2>2, BeginTurns
<1>3. ASSUME NEW a \in App, BeginPrune(p, a)
      PROVE  Turn(p)
  <2> DEFINE k == [Idle EXCEPT !.kind = "prune", !.at = "previous", !.app = a,
                               !.keep = {ActiveOf(a)}]
  <2>1. Goto(p, k) /\ p \in Op /\ j.at = "idle" /\ Live(a)
    BY <1>3 DEF BeginPrune, MayCall, At, Live
  <2>2. Begins(p, j, k)
    BY <2>1 DEF Begins, Idle
  <2> QED
    BY <2>1, <2>2, BeginTurns
<1>4. ASSUME NEW a \in App, BeginDelete(p, a)
      PROVE  Turn(p)
  <2> DEFINE k == [Idle EXCEPT !.kind = "delete", !.at = "leftovers", !.app = a]
  <2>1. Goto(p, k) /\ p \in Op /\ j.at = "idle" /\ (Live(a) => Fault)
    BY <1>4 DEF BeginDelete, MayCall, At, Live
  <2>2. Begins(p, j, k)
    BY <2>1 DEF Begins, Idle
  <2> QED
    BY <2>1, <2>2, BeginTurns
<1>5. ASSUME NEW a \in App, NEW want \in 1..MaxReplicas, BeginUpdate(p, a, want)
      PROVE  Turn(p)
  <2> DEFINE k == [Idle EXCEPT !.kind = "update", !.at = "plan", !.app = a]
  <2>1. Goto(p, k) /\ p \in Op /\ j.at = "idle"
    BY <1>5 DEF BeginUpdate, MayCall, At
  <2>2. Begins(p, j, k)
    BY <2>1 DEF Begins, Idle
  <2> QED
    BY <2>1, <2>2, BeginTurns
<1>6. CASE BuildDone(p)
  <2>1. Goto(p, NextReplica(j)) /\ j.at = "build"
    BY <1>6 DEF BuildDone, At
  <2>2. Prepares(j, NextReplica(j))
    BY <1>0, <2>1, NextReplicaGoes DEF Prepares, Ahead
  <2> QED
    BY <2>1, <2>2, PrepareTurns
<1>7. CASE BuildFailed(p)
  <2>1. Return(p, "failure") /\ j.at = "build"
    BY <1>7 DEF BuildFailed, At
  <2> QED
    BY <2>1, ReturnTurns
<1>8. CASE Reply(p)
  BY <1>0, <1>8, GotoFacts DEF Reply, Turn
<1> QED
  BY <1>1, <1>2, <1>3, <1>4, <1>5, <1>6, <1>7, <1>8 DEF ApiCall

LEMMA FailureTurns ==
  ASSUME RolloutInv, Jobs, NEW p \in Proc, CallFails(p) \/ PlanFails(p) \/ LoadFails(p)
  PROVE  Turn(p)
<1> DEFINE j == job[p]
           k == [j EXCEPT !.at = "plan", !.cfg = NoRoutes, !.skip = FALSE, !.index = @ + 1]
<1>0. j \in Job /\ JobInv
  BY DEF Jobs, RolloutInv
<1>1. Goes(j, k) /\ k.at = "plan"
  BY <1>0 DEF Goes, Job
<1>2. /\ Fault /\ j.at # "idle"
      /\ Return(p, "failure") \/ (p = "main" /\ j.at \in {"plan", "load"} /\ Goto(p, k))
  BY DEF CallFails, PlanFails, LoadFails, ReconcileFailed, At
<1> HIDE DEF k
<1>3. CASE p = "main" /\ j.at \in {"plan", "load"} /\ Goto(p, k)
  <2>1. Retries(p, j, k) /\ job'[p] = k
    BY <1>0, <1>1, <1>2, <1>3, GotoFacts DEF Retries
  <2> QED
    BY <2>1 DEF Turn
<1> QED
  BY <1>2, <1>3, ReturnTurns

LEMMA LoopTurns ==
  ASSUME RolloutInv, Jobs, Guard \/ Repair \/ \E a \in App : Visit(a)
  PROVE  \E p \in Proc : Turn(p) /\ \A q \in Proc : q # p => job'[q] = job[q]
<1>0. JobInv /\ "supervisor" \in Proc /\ "watcher" \in Proc
  BY ProcFacts DEF RolloutInv
<1>1. CASE Guard
  <2> DEFINE j == job["supervisor"]
             k == [j EXCEPT !.at = "inventory"]
  <2>1. j \in Job /\ j.at = "guard"
    BY <1>0, <1>1 DEF Jobs, Guard, At
  <2>2. Goto("supervisor", k) \/ Goto("supervisor", Idle)
    BY <1>1 DEF Guard
  <2>3. Prepares(j, k)
    BY <2>1 DEF Prepares, Goes, Ahead, Job
  <2> HIDE DEF k
  <2>4. Turn("supervisor")
    BY <1>0, <2>2, <2>3, GotoFacts DEF Turn
  <2> QED
    BY <1>0, <2>2, <2>4, GotoFacts
<1>2. ASSUME NEW a \in App, Visit(a)
      PROVE  \E p \in Proc : Turn(p) /\ \A q \in Proc : q # p => job'[q] = job[q]
  <2> DEFINE k == [Idle EXCEPT !.kind = "heal", !.at = "guard", !.app = a,
                               !.rel = ActiveOf(a), !.want = replicas[a]]
  <2>1. Goto("supervisor", k) /\ job["supervisor"].at = "idle" /\ Live(a)
    BY <1>2 DEF Visit, At, Live
  <2>2. Begins("supervisor", job["supervisor"], k)
    BY <2>1 DEF Begins, Idle
  <2> HIDE DEF k
  <2> QED
    BY <1>0, <2>1, <2>2, GotoFacts, BeginTurns
<1>3. CASE Repair
  <2>1. PICK lost \in SUBSET App :
          /\ ListingFails(lost)
          /\ Goto("watcher", [Idle EXCEPT !.kind = "repair", !.at = "load",
                                          !.cfg = CarryOver(Planned(lost))])
    BY <1>3 DEF Repair
  <2> DEFINE k == [Idle EXCEPT !.kind = "repair", !.at = "load",
                               !.cfg = CarryOver(Planned(lost))]
  <2>2. job["watcher"].at = "idle"
    BY <1>3 DEF Repair, At
  <2>3. /\ k.kind = "repair" /\ k.at = "load" /\ k.extra = {} /\ k.report = "none"
        /\ k.cfg = CarryOver(Planned(lost))
    BY DEF Idle
  <2>4. Goto("watcher", k)
    BY <2>1
  <2> HIDE DEF k
  <2>5. Begins("watcher", job["watcher"], k)
    BY <2>1, <2>2, <2>3 DEF Begins
  <2> QED
    BY <1>0, <2>4, <2>5, GotoFacts, BeginTurns
<1> QED
  BY <1>1, <1>2, <1>3

\* A step is the turn of one goroutine, a restart of all, or none of theirs.
LEMMA TurnCases ==
  ASSUME RolloutInv, GateInv, TypeInv, [Next]_vars
  PROVE  \/ UNCHANGED job
         \/ \E p \in Proc : Turn(p) /\ \A q \in Proc : q # p => job'[q] = job[q]
         \/ DaemonRestarts
<1>0. Jobs /\ HostInv
  BY DEF TypeInv, GateInv
<1>1. ASSUME NEW p \in Proc,
             \/ ApiCall(p) \/ Replicate(p) \/ Gate(p) \/ Switch(p) \/ Drain(p)
             \/ Clean(p) \/ CallFails(p) \/ PlanFails(p) \/ LoadFails(p)
      PROVE  Turn(p) /\ \A q \in Proc : q # p => job'[q] = job[q]
  BY <1>0, <1>1, OthersWait, CallTurns, ReplicateTurns, GateTurns, SwitchTurns, DrainTurns,
     CleanTurns, FailureTurns
<1>2. CASE Guard \/ Repair \/ \E a \in App : Visit(a)
  BY <1>0, <1>2, LoopTurns
<1>3. CASE \/ UNCHANGED vars \/ ProxyRestarts
           \/ \E a \in App, s \in Slot : ContainerAnswers(a, s) \/ ContainerDies(a, s)
           \/ \E a \in App, want \in 1..MaxReplicas : Register(a, want)
  <2>1. UNCHANGED job
    BY <1>3 DEF vars, ProxyRestarts, ContainerAnswers, ContainerDies, Register
  <2> QED
    BY <2>1
<1> QED
  BY <1>1, <1>2, <1>3 DEF Next

-----------------------------------------------------------------------------
(* Who changes the store. *)

Others(p) == \A q \in Proc : q # p => job'[q] = job[q]

\* The rows of an app change by the switch of a goroutine that works on it,
\* or are dropped with an app that is not live.
LEMMA RowCases ==
  ASSUME RolloutInv, [Next]_vars, NEW b \in App
  PROVE  \/ history'[b] = history[b]
         \/ \E p \in Proc : /\ At(p, "activate") /\ job[p].app = b
                           /\ ActiveOf(b)' = job[p].rel /\ job[p].rel \in Release
         \/ \E p \in Proc : /\ At(p, "forget") /\ job[p].app = b
                           /\ ~Live(b) /\ ActiveOf(b)' = NoRelease
<1>0. history \in [App -> Seq(Row)]
  BY DEF RolloutInv, StoreInv, StoreTypeOK
<1>1. ASSUME NEW p \in Proc, At(p, "activate"), SetActiveRelease(job[p].app, job[p].rel),
             history'[b] # history[b]
      PROVE  /\ At(p, "activate") /\ job[p].app = b
             /\ ActiveOf(b)' = job[p].rel /\ job[p].rel \in Release
  <2> DEFINE n == job[p].rel
             top == Len(history[b]) + 1
  <2>1. job[p].app \in App /\ n \in Release
    BY <1>1 DEF RolloutInv, JobInv, Sound, Ahead, At
  <2>2. b = job[p].app /\ ActiveOf(b) # n
    BY <1>0, <1>1, <2>1 DEF SetActiveRelease
  <2>3. /\ DOMAIN history'[b] = 1..top
        /\ history'[b][top] = [rel |-> n, open |-> TRUE]
        /\ \A k \in 1..Len(history[b]) : ~history'[b][k].open
    BY <1>1, <2>1, <2>2, SwitchRows DEF RolloutInv
  <2>4. Len(history[b]) \in Nat
    BY OneActiveRows DEF RolloutInv
  <2>5. OpenRows(b)' = {top}
    BY <2>3, <2>4 DEF OpenRows
  <2>6. PICK k \in OpenRows(b)' : ActiveOf(b)' = history'[b][k].rel
    BY <2>5 DEF ActiveOf
  <2> QED
    BY <1>1, <2>1, <2>2, <2>3, <2>5, <2>6
<1>2. ASSUME NEW p \in Proc, At(p, "forget"), DeleteApp(job[p].app), history'[b] # history[b]
      PROVE  /\ At(p, "forget") /\ job[p].app = b
             /\ ~Live(b) /\ ActiveOf(b)' = NoRelease
  <2>1. job[p].app = b /\ history'[b] = << >>
    BY <1>0, <1>2 DEF DeleteApp
  <2>2. OpenRows(b) = {} /\ OpenRows(b)' = {}
    BY <1>2, <2>1 DEF DeleteApp, OpenRows
  <2> QED
    BY <1>2, <2>1, <2>2 DEF Live, ActiveOf
<1> QED
  BY <1>1, <1>2, HistoryCases

LEMMA ActiveCases ==
  ASSUME RolloutInv, [Next]_vars, NEW b \in App
  PROVE  \/ ActiveOf(b)' = ActiveOf(b)
         \/ \E p \in Proc : /\ At(p, "activate") /\ job[p].app = b
                           /\ ActiveOf(b)' = job[p].rel /\ job[p].rel \in Release
  BY RowCases, SameRowsSameActive DEF Live

\* An app that is live stays live.
LEMMA LiveKept ==
  ASSUME RolloutInv, [Next]_vars, NEW b \in App, Live(b)
  PROVE  Live(b)'
  BY ActiveCases, NumbersAreNatural DEF Live

-----------------------------------------------------------------------------
(* Which work each goroutine does, in which steps. *)

Calls == Rollouts \cup {"prune", "delete", "update"}

\* Who does the work, and where it starts.
Workers(p, j) ==
  /\ j.kind = "none" <=> j.at = "idle"
  /\ j.kind \in Calls \/ j.at = "reply" => p \in Op
  /\ j.kind = "heal" => p = "supervisor"
  /\ j.kind = "repair" => p = "watcher" /\ j.at = "load"
  /\ j.kind = "startup" => p = "main"

\* The work each step belongs to.
Steps(j) ==
  /\ j.at \in Ahead => j.kind \in Rollouts \cup {"heal"} /\ 0 \notin j.extra
  /\ j.at = "guard" => j.kind = "heal"
  /\ j.at \in {"build", "activate", "list", "drain"} => j.kind \in Rollouts
  /\ j.at \in {"plan", "load"} => j.kind \notin {"prune", "delete"}
  /\ j.at \in Removal => j.kind \in {"prune", "delete"}
  /\ j.at = "previous" => j.kind = "prune"
  /\ j.at = "forget" => j.kind = "delete"

\* What is kept is not removed, and what is stopped is removed next.
Leaves(j) ==
  /\ j.kind = "delete" => j.keep = {}
  /\ j.at \in {"stop", "remove"} => j.todo \cap j.keep = {}
  /\ j.at = "remove" => j.rel \in j.todo

Course(p, j) == Workers(p, j) /\ Steps(j) /\ Leaves(j)

CourseInv == \A p \in Proc : Course(p, job[p])

LEMMA IdleCourse ==
  ASSUME NEW p \in Proc
  PROVE  Course(p, Idle) /\ (p = "main" => Course(p, Startup))
  BY DEF Course, Workers, Steps, Leaves, Idle, Startup, Ahead, Removal, Calls, Rollouts

LEMMA TurnCourse ==
  ASSUME NEW p \in Proc, Course(p, job[p]), Turn(p)
  PROVE  Course(p, job'[p])
<1> DEFINE j == job[p]
           k == job'[p]
<1>0. p \in Op => p \notin {"main", "supervisor", "watcher"}
  BY NamesAssumption
<1>1. CASE k = Idle \/ (p = "main" /\ k = Startup)
  BY <1>1, IdleCourse
<1> HIDE DEF j, k
<1>2. ASSUME Course(p, j)
      PROVE  /\ Ends(p, j, k) => Course(p, k)
             /\ Begins(p, j, k) => Course(p, k)
  <2>1. Ends(p, j, k) => Course(p, k)
    BY <1>0, <1>2 DEF Ends, Course, Workers, Steps, Leaves, Ahead, Removal
  <2>2. Begins(p, j, k) => Course(p, k)
    BY <1>0, <1>2 DEF Begins, Course, Workers, Steps, Leaves, Ahead, Removal, Calls, Rollouts
  <2> QED
    BY <2>1, <2>2
<1>3. ASSUME Course(p, j), Prepares(j, k) \/ HealMeasured(j, k)
      PROVE  Course(p, k)
  <2>1. Prepares(j, k) => Course(p, k)
    BY <1>3 DEF Prepares, Goes, Course, Workers, Steps, Leaves, Ahead, Removal, Calls, Rollouts
  <2>2. HealMeasured(j, k) => Course(p, k)
    BY <1>3 DEF HealMeasured, Goes, Course, Workers, Steps, Leaves, Ahead, Removal, Calls, Rollouts
  <2> QED
    BY <1>3, <2>1, <2>2
<1>4. ASSUME Course(p, j), Activates(j, k) \/ Plans(j, k) \/ Loads(j, k) \/ Drains(j, k)
      PROVE  Course(p, k)
  BY <1>4 DEF Activates, Plans, Loads, Drains, Goes, Course, Workers, Steps, Leaves, Ahead,
              Removal, Calls, Rollouts
<1>5. ASSUME Course(p, j), Retries(p, j, k)
      PROVE  Course(p, k)
  BY <1>5 DEF Retries, Goes, Course, Workers, Steps, Leaves, Ahead, Removal, Calls, Rollouts
<1>6. ASSUME Course(p, j), Keeps(j, k) \/ Stops(j, k)
      PROVE  Course(p, k)
  BY <1>6 DEF Keeps, Stops, Goes, Course, Workers, Steps, Leaves, Ahead, Removal, Calls, Rollouts
<1>7. ASSUME Course(p, j), Removes(j, k)
      PROVE  Course(p, k)
  <2>1. k.todo \cap j.keep = {}
    BY <1>7 DEF Removes, Course, Leaves
  <2> QED
    BY <1>7, <2>1 DEF Removes, Goes, Course, Workers, Steps, Leaves, Ahead, Removal, Calls, Rollouts
<1> QED
  BY <1>1, <1>2, <1>3, <1>4, <1>5, <1>6, <1>7 DEF Turn, j, k

LEMMA CourseInvInit == Init => CourseInv
  BY IdleCourse DEF Init, CourseInv, AllIdle

LEMMA CourseInvStep ==
  ASSUME RolloutInv, GateInv, TypeInv, CourseInv, [Next]_vars
  PROVE  CourseInv'
<1> SUFFICES ASSUME NEW p \in Proc PROVE Course(p, job'[p])
  BY DEF CourseInv
<1>1. CASE UNCHANGED job
  BY <1>1 DEF CourseInv
<1>2. CASE \E q \in Proc : Turn(q) /\ \A r \in Proc : r # q => job'[r] = job[r]
  BY <1>2, TurnCourse DEF CourseInv
<1>3. CASE DaemonRestarts
  BY <1>3, IdleCourse DEF DaemonRestarts, AllIdle
<1> QED
  BY <1>1, <1>2, <1>3, TurnCases

-----------------------------------------------------------------------------
(* Only live apps have routes. *)

LiveInv ==
  /\ \A b \in App : route[b] # {} => Live(b)
  /\ \A q \in Proc, b \in App : At(q, "load") /\ job[q].cfg[b] # {} => Live(b)

\* What the watcher is about to load has routes wherever the proxy has some.
RepairPlan ==
  At("watcher", "load") => \A b \in App : route[b] # {} => job["watcher"].cfg[b] # {}

LEMMA PlannedIsLive ==
  ASSUME NEW lost, NEW b \in App, Planned(lost)[b] # {}
  PROVE  Live(b)
  BY NumbersAreNatural DEF Planned, Upstreams, Live, Slot

\* A goroutine that is about to load was before the step, or has planned.
LEMMA LoadCases ==
  ASSUME RolloutInv, GateInv, TypeInv, CourseInv, [Next]_vars, NEW p \in Proc, At(p, "load")'
  PROVE  \/ At(p, "load") /\ job'[p] = job[p]
         \/ /\ Others(p) /\ Plans(job[p], job'[p])
            /\ p # "watcher"
         \/ /\ Others(p) /\ p = "watcher" /\ Begins(p, job[p], job'[p])
            /\ \E lost \in SUBSET App : job'[p].cfg = CarryOver(Planned(lost))
<1> DEFINE j == job[p]
           k == job'[p]
<1>0. k.at = "load" /\ Course(p, j) /\ j.kind \in Kind
  BY DEF At, CourseInv, TypeInv, Jobs, Job
<1>4. Idle.at # "load" /\ Startup.at # "load"
  BY DEF Idle, Startup
<1>1. CASE j = k
  BY <1>0, <1>1 DEF At
<1>2. CASE DaemonRestarts
  <2>1. k = Idle \/ k = Startup
    BY <1>2 DEF DaemonRestarts, AllIdle
  <2> QED
    BY <1>0, <1>4, <2>1
<1>3. CASE Turn(p) /\ Others(p)
  <2> HIDE DEF j, k
  <2>1. k # Idle /\ k # Startup
    BY <1>0, <1>4
  <2>2. Plans(j, k) \/ (p = "watcher" /\ Begins(p, j, k))
    BY <1>0, <1>3, <2>1 DEF Turn, Ends, Begins, Prepares, HealMeasured, Activates, Retries, Loads,
       Drains, Keeps, Removes, Stops, Ahead, j, k
  <2>3. Plans(j, k) => p # "watcher"
    BY <1>0, NamesAssumption DEF Plans, Course, Workers, Steps, Calls, Rollouts, Kind
  <2>4. p = "watcher" /\ Begins(p, j, k) => \E lost \in SUBSET App : k.cfg = CarryOver(Planned(lost))
    BY <1>0, NamesAssumption DEF Begins
  <2> QED
    BY <1>3, <2>2, <2>3, <2>4 DEF j, k
<1> QED
  BY <1>1, <1>2, <1>3, TurnCases DEF Others

LEMMA LiveInvStep ==
  ASSUME RolloutInv, GateInv, TypeInv, CourseInv, LiveInv, [Next]_vars
  PROVE  LiveInv'
<1>1. ASSUME NEW b \in App, route'[b] # {}
      PROVE  Live(b)'
  <2>1. Live(b)
    BY <1>1, RouteCases DEF LiveInv, NoRoutes
  <2> QED
    BY <2>1, LiveKept
<1>2. ASSUME NEW q \in Proc, NEW b \in App, At(q, "load")', job'[q].cfg[b] # {}
      PROVE  Live(b)'
  <2>1. CASE At(q, "load") /\ job'[q] = job[q]
    BY <1>2, <2>1, LiveKept DEF LiveInv
  <2>2. CASE \E lost \in SUBSET App : job'[q].cfg = Planned(lost)
    BY <1>2, <2>2, PlannedIsLive, LiveKept
  <2>3. CASE \E lost \in SUBSET App : job'[q].cfg = CarryOver(Planned(lost))
    BY <1>2, <2>3, PlannedIsLive, LiveKept DEF CarryOver, Skipped, Live
  <2> QED
    BY <1>2, <2>1, <2>2, <2>3, LoadCases DEF Plans
<1> QED
  BY <1>1, <1>2 DEF LiveInv, At, Live

LEMMA RepairPlanStep ==
  ASSUME RolloutInv, GateInv, TypeInv, CourseInv, LiveInv, RepairPlan, [Next]_vars
  PROVE  RepairPlan'
<1>0. "watcher" \in Proc
  BY ProcFacts
<1> SUFFICES ASSUME At("watcher", "load")', NEW b \in App, route'[b] # {}
             PROVE  job'["watcher"].cfg[b] # {}
  BY DEF RepairPlan, At
<1>1. CASE At("watcher", "load") /\ job'["watcher"] = job["watcher"]
  <2>1. \A q \in Proc : At(q, "load") => q = "watcher"
    BY <1>1, <1>0 DEF RolloutInv, JobInv
  <2> QED
    BY <1>1, <2>1, RouteCases DEF RepairPlan, NoRoutes
<1>2. ASSUME Begins("watcher", job["watcher"], job'["watcher"]), Others("watcher"),
             NEW lost \in SUBSET App, job'["watcher"].cfg = CarryOver(Planned(lost))
      PROVE  job'["watcher"].cfg[b] # {}
  <2>1. route[b] # {}
    <3>1. \A q \in Proc : At(q, "load")' => q = "watcher"
      BY <1>0, RolloutInvStep DEF RolloutInv, JobInv
    <3>2. \A q \in Proc : ~At(q, "load")
      BY <1>2, <3>1 DEF Others, Begins, At
    <3> QED
      BY <3>2, RouteCases DEF NoRoutes
  <2>2. Live(b)
    BY <2>1 DEF LiveInv
  <2> QED
    BY <1>2, <2>1, <2>2 DEF CarryOver, Skipped, Live
<1> QED
  BY <1>0, <1>1, <1>2, LoadCases

\* What follows of the goroutines, whoever calls how often.
WorkInv == RolloutInv /\ GateInv /\ TypeInv /\ CourseInv /\ LiveInv /\ RepairPlan

LEMMA WorkInvInit == Init => WorkInv
<1> SUFFICES ASSUME Init PROVE WorkInv
  OBVIOUS
<1>1. \A p \in Proc : ~At(p, "load")
  BY DEF Init, At, AllIdle, Startup, Idle
<1>2. LiveInv /\ RepairPlan
  BY <1>1, ProcFacts DEF Init, LiveInv, RepairPlan, NoRoutes
<1> QED
  BY <1>2, RolloutInvInit, GateInvInit, TypeInvInit, CourseInvInit DEF WorkInv

LEMMA WorkInvStep == WorkInv /\ [Next]_vars => WorkInv'
  BY RolloutInvStep, GateInvStep, TypeInvStep, CourseInvStep, LiveInvStep, RepairPlanStep
     DEF WorkInv

\* Everything a goroutine does belongs to the work it began, and only live apps
\* have routes or are given some.
THEOREM WorkCorrect == Spec => []WorkInv
  BY WorkInvInit, WorkInvStep, PTL DEF Spec

\* Repair never takes a live app off the proxy: what it cannot plan it keeps,
\* and what it keeps is what the proxy has until the load.
THEOREM RepairsKeepRoutes == Spec => RepairKeepsRoutes
<1>1. ASSUME WorkInv, [Next]_vars, NEW a \in App, route' # route, lock = "watcher",
             lock' = NoProc, route[a] # {}
      PROVE  route'[a] # {}
  <2>1. "watcher" \in Proc /\ NoProc \notin Proc /\ RolloutInv /\ RepairPlan
    BY <1>1, ProcFacts DEF WorkInv
  <2>2. PICK q \in Proc : At(q, "load") /\ route' = job[q].cfg
    BY <1>1, <2>1, RouteCases
  <2>3. q = "watcher"
    BY <1>1, <2>1, <2>2 DEF RolloutInv, JobInv
  <2> QED
    BY <1>1, <2>1, <2>2, <2>3 DEF RepairPlan
<1>2. WorkInv /\ [Next]_vars =>
        [\A a \in App : (/\ job["watcher"].kind = "repair"
                         /\ route' # route
                         /\ lock = "watcher"
                         /\ lock' = NoProc
                         /\ ActiveOf(a) # NoRelease
                         /\ route[a] # {}) => route'[a] # {}]_vars
  BY <1>1
<1> QED
  BY <1>2, WorkCorrect, PTL DEF Spec, RepairKeepsRoutes

-----------------------------------------------------------------------------
(* Who changes the host. *)

\* What a goroutine does to the containers of its app.
HostTurn(p) ==
  LET j == job[p] IN
  \/ /\ j.at = "create" /\ host[j.app][<<j.rel, j.index>>] = "absent"
     /\ SetSlot(j.app, <<j.rel, j.index>>, "stopped")
  \/ /\ j.at = "start" /\ host[j.app][<<j.rel, j.index>>] = "stopped"
     /\ SetSlot(j.app, <<j.rel, j.index>>, "starting")
  \/ /\ j.at = "shrink"
     /\ \E i \in j.extra : /\ host[j.app][<<j.rel, i>>] # "absent"
                           /\ SetSlot(j.app, <<j.rel, i>>, "stopped")
  \/ j.at \in {"drain", "stop"} /\ \E n \in j.todo : StopAll(j.app, n)
  \/ /\ j.at = "remove"
     /\ host' = [host EXCEPT ![j.app] = [s \in Slot |->
                   IF s[1] = j.rel THEN "absent" ELSE host[j.app][s]]]

LEMMA HostCases ==
  ASSUME RolloutInv, [Next]_vars
  PROVE  \/ UNCHANGED host
         \/ UNCHANGED job /\ \E a \in App, s \in Slot : ContainerAnswers(a, s) \/ ContainerDies(a, s)
         \/ \E p \in Proc : Others(p) /\ HostTurn(p)
<1>1. ASSUME \/ UNCHANGED vars \/ Guard \/ Repair \/ ProxyRestarts \/ DaemonRestarts
             \/ \E a \in App : Visit(a)
             \/ \E a \in App, want \in 1..MaxReplicas : Register(a, want)
      PROVE  UNCHANGED host
  BY <1>1 DEF vars, Guard, Repair, ProxyRestarts, DaemonRestarts, Visit, Register
<1>2. ASSUME NEW p \in Proc, ApiCall(p)
      PROVE  UNCHANGED host
  BY <1>2 DEF ApiCall, BeginDeploy, BeginRollback, BeginPrune, BeginDelete, BeginUpdate,
              BuildDone, BuildFailed, Reply
<1>3. ASSUME NEW p \in Proc,
             Gate(p) \/ Switch(p) \/ CallFails(p) \/ PlanFails(p) \/ LoadFails(p)
      PROVE  UNCHANGED host
  BY <1>3 DEF Gate, Measure, MeasureBad, GateExpires, Switch, Activate, Plan, Load,
              CallFails, PlanFails, LoadFails
<1>4. ASSUME NEW p \in Proc, Replicate(p)
      PROVE  UNCHANGED host \/ HostTurn(p)
  BY <1>4 DEF Replicate, Inventory, Create, Start, Shrink, HostTurn, At
<1>5. ASSUME NEW p \in Proc, Drain(p)
      PROVE  UNCHANGED host \/ HostTurn(p)
  BY <1>5 DEF Drain, DrainList, DrainStop, DrainStopFails, DrainBroken, HostTurn, At
<1>6. ASSUME NEW p \in Proc, Clean(p)
      PROVE  UNCHANGED host \/ HostTurn(p)
  BY <1>6 DEF Clean, KeepPrevious, Leftovers, StopLeftover, RemoveLeftover, Forget, HostTurn, At
<1>7. ASSUME NEW a \in App, NEW s \in Slot, ContainerAnswers(a, s) \/ ContainerDies(a, s)
      PROVE  UNCHANGED job
  BY <1>7 DEF ContainerAnswers, ContainerDies
<1> QED
  BY <1>1, <1>2, <1>3, <1>4, <1>5, <1>6, <1>7, OthersWait DEF Next, Others

\* One slot of its app, seen from outside.
SlotTurn(p, a, s) ==
  LET j == job[p] IN
  /\ Others(p) /\ a = j.app
  /\ \/ /\ j.at = "create" /\ s = <<j.rel, j.index>>
        /\ host[a][s] = "absent" /\ host'[a][s] = "stopped"
     \/ /\ j.at = "start" /\ s = <<j.rel, j.index>>
        /\ host[a][s] = "stopped" /\ host'[a][s] = "starting"
     \/ /\ j.at = "shrink" /\ (\E i \in j.extra : s = <<j.rel, i>>)
        /\ host[a][s] # "absent" /\ host'[a][s] = "stopped"
     \/ /\ j.at \in {"drain", "stop"} /\ s[1] \in j.todo
        /\ host[a][s] # "absent" /\ host'[a][s] = "stopped"
     \/ j.at = "remove" /\ s[1] = j.rel /\ host'[a][s] = "absent"

LEMMA SlotCases ==
  ASSUME RolloutInv, GateInv, [Next]_vars, NEW a \in App, NEW s \in Slot,
         host'[a][s] # host[a][s]
  PROVE  \/ UNCHANGED job /\ host[a][s] = "starting" /\ host'[a][s] = "up"
         \/ UNCHANGED job /\ Fault /\ Running(a, s) /\ host'[a][s] = "stopped"
         \/ \E p \in Proc : SlotTurn(p, a, s)
<1>0. host \in [App -> [Slot -> ContainerState]]
  BY DEF GateInv, HostInv
<1>1. ASSUME NEW b \in App, NEW t \in Slot, ContainerAnswers(b, t), UNCHANGED job
      PROVE  UNCHANGED job /\ host[a][s] = "starting" /\ host'[a][s] = "up"
  BY <1>0, <1>1 DEF ContainerAnswers, SetSlot
<1>2. ASSUME NEW b \in App, NEW t \in Slot, ContainerDies(b, t), UNCHANGED job
      PROVE  UNCHANGED job /\ Fault /\ Running(a, s) /\ host'[a][s] = "stopped"
  <2>1. a = b /\ s = t /\ host'[a][s] = "stopped"
    BY <1>0, <1>2 DEF ContainerDies, SetSlot
  <2> QED
    BY <1>2, <2>1 DEF ContainerDies
<1>3. ASSUME NEW p \in Proc, Others(p), HostTurn(p)
      PROVE  SlotTurn(p, a, s)
  <2> DEFINE j == job[p]
  <2>1. ASSUME NEW t, NEW state, SetSlot(j.app, t, state)
        PROVE  a = j.app /\ s = t /\ host'[a][s] = state
    BY <1>0, <2>1 DEF SetSlot
  <2>2. ASSUME NEW n, StopAll(j.app, n)
        PROVE  a = j.app /\ s[1] = n /\ host[a][s] # "absent" /\ host'[a][s] = "stopped"
    BY <1>0, <2>2 DEF StopAll
  <2>3. ASSUME host' = [host EXCEPT ![j.app] = [t \in Slot |->
                          IF t[1] = j.rel THEN "absent" ELSE host[j.app][t]]]
        PROVE  a = j.app /\ s[1] = j.rel /\ host'[a][s] = "absent"
    BY <1>0, <2>3
  <2> QED
    BY <1>3, <2>1, <2>2, <2>3 DEF HostTurn, SlotTurn
<1> QED
  BY <1>1, <1>2, <1>3, HostCases

\* An app goes with no release live, and the host is not touched.
LEMMA AppCases ==
  ASSUME [Next]_vars, NEW a \in apps, a \notin apps'
  PROVE  /\ UNCHANGED host /\ OpenRows(a) = {}
         /\ \E p \in Proc : At(p, "forget") /\ job[p].app = a
<1>1. ASSUME \/ UNCHANGED vars \/ Guard \/ Repair \/ ProxyRestarts \/ DaemonRestarts
             \/ \E b \in App : Visit(b)
             \/ \E b \in App, s \in Slot : ContainerAnswers(b, s) \/ ContainerDies(b, s)
             \/ \E b \in App, want \in 1..MaxReplicas : Register(b, want)
      PROVE  FALSE
  BY <1>1 DEF vars, storeVars, Guard, Repair, ProxyRestarts, DaemonRestarts, Visit,
              ContainerAnswers, ContainerDies, Register, CreateApp
<1>2. ASSUME NEW p \in Proc, ApiCall(p)
      PROVE  FALSE
  BY <1>2 DEF storeVars, ApiCall, BeginDeploy, BeginRollback, BeginPrune, BeginDelete,
              BeginUpdate, BuildDone, BuildFailed, Reply, StartRelease, SealRelease
<1>3. ASSUME NEW p \in Proc,
             \/ Replicate(p) \/ Gate(p) \/ Switch(p) \/ Drain(p)
             \/ CallFails(p) \/ PlanFails(p) \/ LoadFails(p)
      PROVE  FALSE
  BY <1>3 DEF storeVars, Replicate, Inventory, Create, Start, Shrink, Gate, Measure, MeasureBad,
              GateExpires, Switch, Activate, SetActiveRelease, Plan, Load, Drain, DrainList,
              DrainStop, DrainStopFails, DrainBroken, CallFails, PlanFails, LoadFails
<1>4. ASSUME NEW p \in Proc, Clean(p)
      PROVE  UNCHANGED host /\ OpenRows(a) = {} /\ At(p, "forget") /\ job[p].app = a
  BY <1>4 DEF storeVars, Clean, KeepPrevious, Leftovers, StopLeftover, RemoveLeftover, Forget,
              DeleteApp
<1> QED
  BY <1>1, <1>2, <1>3, <1>4 DEF Next

LEMMA HostGrows ==
  ASSUME RolloutInv, GateInv, [Next]_vars, NEW a \in App, NEW n \in OnHost(a)',
         n \notin OnHost(a)
  PROVE  \E q \in Proc : At(q, "create") /\ job[q].app = a /\ Others(q)
<1>1. n \in Release
  BY DEF OnHost
<1>2. PICK i \in Index : host'[a][<<n, i>>] # "absent"
  BY DEF OnHost
<1>3. <<n, i>> \in Slot /\ host[a][<<n, i>>] = "absent"
  BY <1>1 DEF OnHost, Slot
<1> QED
  BY <1>2, <1>3, SlotCases DEF SlotTurn, Running, At

LEMMA LiveOnRecord ==
  ASSUME StoreInv, NEW a \in App, Live(a)
  PROVE  a \in apps
  BY DEF StoreInv, StoreTypeOK, Live, ActiveOf, OpenRows

LEMMA JobCases ==
  ASSUME RolloutInv, GateInv, TypeInv, [Next]_vars, NEW p \in Proc
  PROVE  \/ job'[p] = job[p]
         \/ Turn(p) /\ Others(p)
         \/ job'[p] = Idle \/ (p = "main" /\ job'[p] = Startup)
<1>1. CASE DaemonRestarts
  BY <1>1 DEF DaemonRestarts, AllIdle
<1> QED
  BY <1>1, TurnCases DEF Others

-----------------------------------------------------------------------------
(* With one call at a time about each app.  Nothing in kadrand serialises    *)
(* them, and two deployments of an app at once can stop each other's         *)
(* containers; what follows is about calls that do not overlap, beside the   *)
(* daemon's own loops and any faults and restarts.                           *)

Busy(p) == job[p].at \notin {"idle", "reply"}

\* No two calls in progress are about the same app.
Exclusive ==
  \A p, q \in Op : p # q /\ Busy(p) /\ Busy(q) => job[p].app # job[q].app

\* Whoever deploys or heals has an app, and a deletion knows what is on the host.
Tracks(j) ==
  /\ j.kind \in Rollouts /\ j.at \in Ahead => j.app \in apps
  /\ j.kind = "delete" /\ j.at \in {"stop", "remove"} => Live(j.app) \/ OnHost(j.app) \subseteq j.todo
  /\ j.at = "forget" => Live(j.app) \/ OnHost(j.app) = {}

OrphanInv ==
  /\ NoOrphans
  /\ \A p \in Op : Tracks(job[p])
  /\ job["supervisor"].kind = "heal" => Live(job["supervisor"].app)

LEMMA FreshJobs ==
  /\ Idle.kind = "none" /\ Idle.at = "idle"
  /\ Startup.kind = "startup" /\ Startup.at = "plan"
  BY DEF Idle, Startup

LEMMA CallerSteps ==
  ASSUME Exclusive, CourseInv, NEW p \in Op, Busy(p), NEW q \in Proc, job[q].app = job[p].app,
         job[q].at \in Removal \cup {"build", "activate", "list", "drain"}
  PROVE  q = p
<1>1. job[q].kind \in Calls /\ Busy(q)
  BY DEF CourseInv, Course, Steps, Calls, Removal, Busy
<1> QED
  BY <1>1 DEF Exclusive, CourseInv, Course, Workers

LEMMA HeadSteps ==
  ASSUME CourseInv, NEW q \in Proc, job[q].at \in Ahead
  PROVE  \/ q \in Op /\ job[q].kind \in Rollouts
         \/ q = "supervisor" /\ job[q].kind = "heal"
  BY DEF CourseInv, Course, Workers, Steps, Calls

LEMMA OrphansStep ==
  ASSUME WorkInv, OrphanInv, [Next]_vars
  PROVE  NoOrphans'
<1>0. RolloutInv /\ GateInv /\ CourseInv /\ StoreInv
  BY DEF WorkInv, RolloutInv
<1>1. ASSUME NEW a \in App, a \notin apps', a \in apps
      PROVE  OnHost(a)' = {}
  <2>1. /\ UNCHANGED host /\ OpenRows(a) = {}
        /\ \E p \in Proc : At(p, "forget") /\ job[p].app = a
    BY <1>1, AppCases
  <2>2. PICK p \in Proc : At(p, "forget") /\ job[p].app = a
    BY <2>1
  <2>3. p \in Op
    BY <1>0, <2>2 DEF CourseInv, Course, Workers, Steps, Calls, At
  <2>4. OnHost(a) = {}
    BY <2>1, <2>2, <2>3 DEF OrphanInv, Tracks, Live, ActiveOf, At
  <2> QED
    BY <2>1, <2>4 DEF OnHost
<1>2. ASSUME NEW a \in App, a \notin apps', a \notin apps, NEW n \in OnHost(a)'
      PROVE  FALSE
  <2>1. OnHost(a) = {}
    BY <1>2 DEF OrphanInv, NoOrphans
  <2>2. PICK q \in Proc : At(q, "create") /\ job[q].app = a
    BY <1>0, <1>2, <2>1, HostGrows
  <2>3. CASE q \in Op /\ job[q].kind \in Rollouts
    BY <1>2, <2>2, <2>3 DEF OrphanInv, Tracks, Ahead, At
  <2>4. CASE q = "supervisor" /\ job[q].kind = "heal"
    BY <1>0, <1>2, <2>2, <2>4, LiveOnRecord DEF OrphanInv
  <2> QED
    BY <1>0, <2>2, <2>3, <2>4, HeadSteps DEF Ahead, At
<1> QED
  BY <1>1, <1>2 DEF NoOrphans

LEMMA HealsLive ==
  ASSUME WorkInv, OrphanInv, [Next]_vars
  PROVE  (job["supervisor"].kind = "heal" => Live(job["supervisor"].app))'
<1> SUFFICES ASSUME job'["supervisor"].kind = "heal", NEW a \in App, a = job'["supervisor"].app
             PROVE  Live(a)'
  BY TypeInvStep, ProcFacts DEF WorkInv, TypeInv, Jobs, Job, Live
<1> DEFINE p == "supervisor"
           j == job[p]
           k == job'[p]
<1>0. /\ RolloutInv /\ GateInv /\ TypeInv /\ CourseInv /\ p \in Proc /\ p \notin Op
      /\ k.app = a /\ k.kind = "heal"
  BY ProcFacts, NamesAssumption DEF WorkInv
<1>1. Live(a)
  <2> HIDE DEF j, k
  <2>1. CASE j = k
    BY <1>0, <2>1 DEF OrphanInv, j
  <2>2. CASE k = Idle \/ k = Startup
    BY <1>0, <2>2, FreshJobs
  <2>3. CASE Turn(p)
    <3>1. Begins(p, j, k) \/ (k.kind = j.kind /\ k.app = j.app)
      BY <1>0, <2>3, FreshJobs DEF Turn, Ends, Prepares, HealMeasured, Activates, Plans, Retries,
         Loads, Drains, Keeps, Removes, Stops, Goes, j, k
    <3> QED
      BY <1>0, <3>1 DEF Begins, OrphanInv, Rollouts, j
  <2> QED
    BY <1>0, <2>1, <2>2, <2>3, JobCases DEF j, k
<1> QED
  BY <1>0, <1>1, LiveKept

LEMMA CallerTracks ==
  ASSUME Exclusive, Exclusive', WorkInv, OrphanInv, [Next]_vars, NEW p \in Op
  PROVE  Tracks(job[p])'
<1> PICK a \in App : a = job'[p].app
  BY TypeInvStep, ProcFacts DEF WorkInv, TypeInv, Jobs, Job
<1> DEFINE j == job[p]
           k == job'[p]
<1>0. /\ RolloutInv /\ GateInv /\ TypeInv /\ CourseInv /\ StoreInv /\ p \in Proc /\ p # "main"
      /\ k.app = a /\ Tracks(j) /\ Course(p, j)
  BY ProcFacts, NamesAssumption DEF WorkInv, OrphanInv, RolloutInv,
     CourseInv
\* Containers are added only for a live app, unless by this caller.
<1>1. ASSUME NEW n \in OnHost(a)', n \notin OnHost(a), j.at \in Removal, j.app = a
      PROVE  Live(a)
  <2>1. PICK q \in Proc : At(q, "create") /\ job[q].app = a /\ Others(q)
    BY <1>0, <1>1, HostGrows
  <2>2. q \notin Op \/ q = p
    BY <1>1, <2>1 DEF Exclusive, Busy, Removal, At
  <2> QED
    BY <1>0, <1>1, <2>1, <2>2, HeadSteps DEF Ahead, Removal, At, OrphanInv
<1>2. ASSUME k.kind \in Rollouts, k.at \in Ahead
      PROVE  a \in apps'
  <2>1. a \in apps /\ j.at # "forget"
    <3> HIDE DEF j, k
    <3>1. CASE j = k
      BY <1>0, <1>2, <3>1 DEF Tracks, Ahead, Removal
    <3>2. CASE Turn(p)
      <4>1. k # Idle /\ k # Startup
        BY <1>2, FreshJobs DEF Rollouts
      <4>2. Begins(p, j, k) \/ Prepares(j, k)
        BY <1>0, <1>2, <3>2, <4>1 DEF Turn, Ends, HealMeasured, Activates, Plans, Retries,
           Loads, Drains, Keeps, Removes, Stops, Ahead, j, k
      <4>3. CASE Begins(p, j, k)
        BY <1>0, <1>2, <4>3, LiveOnRecord DEF Begins, Rollouts
      <4>4. CASE Prepares(j, k)
        BY <1>0, <1>2, <4>4 DEF Prepares, Goes, Tracks, Ahead
      <4> QED
        BY <4>2, <4>3, <4>4
    <3>3. k # Idle
      BY <1>2, FreshJobs DEF Rollouts
    <3> QED
      BY <1>0, <3>1, <3>2, <3>3, JobCases DEF j, k
  <2>2. ASSUME a \notin apps'
        PROVE  FALSE
    <3>1. PICK q \in Proc : At(q, "forget") /\ job[q].app = a
      BY <2>1, <2>2, AppCases
    <3>2. q \in Op
      BY <1>0, <3>1 DEF CourseInv, Course, Workers, Steps, Calls, Removal, At
    <3>3. CASE j = k
      BY <1>0, <1>2, <3>1, <3>2, <3>3 DEF Exclusive, Busy, Ahead, At
    <3>4. CASE Others(p)
      <4>1. q # p => job'[q] = job[q]
        BY <3>2, <3>4, ProcFacts DEF Others
      <4> QED
        BY <1>0, <1>2, <2>1, <3>1, <3>2, <4>1 DEF Exclusive, Busy, Ahead, At
    <3>5. k # Idle
      BY <1>2, FreshJobs DEF Rollouts
    <3> QED
      BY <1>0, <3>3, <3>4, <3>5, JobCases
  <2> QED
    BY <2>2
<1>3. ASSUME k.kind = "delete", k.at \in {"stop", "remove", "forget"}, ~Live(a),
             NEW n \in OnHost(a)'
      PROVE  n \in k.todo /\ k.at # "forget"
  <2> HIDE DEF j, k
  <2>1. CASE j = k
    <3>1. j.at \in Removal /\ j.app = a
      BY <1>0, <1>3, <2>1 DEF Removal
    <3>2. n \in OnHost(a)
      BY <1>0, <1>1, <1>3, <3>1
    <3> QED
      BY <1>0, <1>3, <2>1, <3>2 DEF Tracks
  <2>2. CASE Turn(p)
    <3>1. k # Idle /\ k # Startup
      BY <1>3, FreshJobs
    <3>2. Removes(j, k) \/ Stops(j, k)
      BY <1>0, <1>3, <2>2, <3>1 DEF Turn, Ends, Begins, Prepares, HealMeasured, Activates, Plans,
         Retries, Loads, Drains, Keeps, Ahead, j, k
    <3>3. j.kind = "delete" /\ j.app = a /\ j.at \in Removal /\ j.keep = {}
      BY <1>0, <1>3, <3>2 DEF Removes, Stops, Goes, Removal, Course, Leaves
    <3>4. n \in OnHost(a)
      BY <1>0, <1>1, <1>3, <3>3
    <3>5. CASE Removes(j, k)
      <4>1. n \in k.todo
        <5>1. CASE j.at = "leftovers" /\ k.todo = OnHost(a) \ j.keep
          BY <3>3, <3>4, <5>1
        <5>2. CASE j.at = "remove" /\ k.todo = j.todo \ {j.rel} /\ Gone(j)
          <6>1. n \in Release /\ \E i \in Index : host'[a][<<n, i>>] # "absent"
            BY <1>3 DEF OnHost
          <6>2. n # j.rel
            BY <3>3, <5>2, <6>1 DEF Gone
          <6> QED
            BY <1>0, <1>3, <3>3, <3>4, <5>2, <6>2 DEF Tracks
        <5> QED
          BY <3>3, <3>5, <5>1, <5>2 DEF Removes
      <4> QED
        BY <3>5, <4>1 DEF Removes
    <3>6. CASE Stops(j, k)
      BY <1>0, <1>3, <3>3, <3>4, <3>6 DEF Stops, Tracks
    <3> QED
      BY <3>2, <3>5, <3>6
  <2>3. k # Idle
    BY <1>3, FreshJobs
  <2> QED
    BY <1>0, <2>1, <2>2, <2>3, JobCases DEF j, k
<1>4. k.at = "forget" => k.kind = "delete"
  BY CourseInvStep, <1>0 DEF CourseInv, Course, Steps
<1>5. Live(a) => Live(a)'
  BY <1>0, LiveKept
<1> QED
  BY <1>2, <1>3, <1>4, <1>5 DEF Tracks, Live, OnHost

LEMMA OrphanInvInit == Init => OrphanInv
<1> SUFFICES ASSUME Init PROVE OrphanInv
  OBVIOUS
<1>1. \A p \in Proc : job[p].kind \notin {"heal", "deploy", "rollback", "delete"} /\ job[p].at # "forget"
  BY FreshJobs DEF Init, AllIdle
<1>2. \A a \in App : OnHost(a) = {}
  BY DEF Init, OnHost, Slot
<1> QED
  BY <1>1, <1>2, ProcFacts DEF OrphanInv, NoOrphans, Tracks, Rollouts

LEMMA OrphanInvStep ==
  Exclusive /\ Exclusive' /\ WorkInv /\ OrphanInv /\ [Next]_vars => OrphanInv'
  BY OrphansStep, HealsLive, CallerTracks DEF OrphanInv

\* A deletion knows every container of an app that has no live release, whatever
\* heals, fails and restarts beside it.
THEOREM ContainersTracked == Spec /\ []Exclusive => []OrphanInv
  BY OrphanInvInit, OrphanInvStep, WorkCorrect, PTL DEF Spec

\* No container outlives the row that names it: a deletion removes what is on
\* the host before it drops the app, and nobody adds a container in between.
THEOREM NoneOrphaned == Spec /\ []Exclusive => []NoOrphans
  BY ContainersTracked, PTL DEF OrphanInv

\* Nobody else works on the app that a caller works on after its step.
LEMMA NoIntruder ==
  ASSUME Exclusive, Exclusive', NEW p \in Op, Busy(p)', job'[p] = job[p] \/ Others(p),
         NEW q \in Op, q # p, Busy(q), job[q].app = job'[p].app
  PROVE  FALSE
<1>1. CASE job'[p] = job[p]
  BY <1>1 DEF Exclusive, Busy
<1>2. CASE Others(p)
  <2>1. job'[q] = job[q]
    BY <1>2, ProcFacts DEF Others
  <2> QED
    BY <2>1 DEF Exclusive, Busy
<1> QED
  BY <1>1, <1>2

LEMMA RowsStay ==
  ASSUME Exclusive, Exclusive', WorkInv, [Next]_vars, NEW p \in Op, Busy(p)',
         job'[p] = job[p] \/ Others(p), job[p].at \notin {"activate", "forget"},
         NEW a \in App, a = job'[p].app
  PROVE  history'[a] = history[a]
<1> SUFFICES ASSUME history'[a] # history[a] PROVE FALSE
  OBVIOUS
<1>1. PICK q \in Proc : job[q].at \in {"activate", "forget"} /\ job[q].app = a
  BY RowCases DEF WorkInv, At
<1>2. q \in Op /\ Busy(q)
  BY <1>1 DEF WorkInv, CourseInv, Course, Workers, Steps, Calls, Removal, Busy
<1>3. q # p
  BY <1>1
<1> QED
  BY <1>1, <1>2, <1>3, NoIntruder

-----------------------------------------------------------------------------
(* Prune. *)

\* A prune keeps the live release and, once it has read it, the rollback target.
Keeping(p) ==
  LET j == job[p] IN
  j.kind = "prune" /\ Busy(p) =>
    /\ ActiveOf(j.app) \in j.keep
    /\ j.at # "previous" => PreviousOf(j.app) \in j.keep \cup {NoRelease}

KeepInv == \A p \in Op : Keeping(p)

LEMMA KeepInvStep ==
  ASSUME Exclusive, Exclusive', WorkInv, KeepInv, [Next]_vars
  PROVE  KeepInv'
<1> SUFFICES ASSUME NEW p \in Op PROVE Keeping(p)'
  BY DEF KeepInv
<1> PICK a \in App : a = job'[p].app
  BY TypeInvStep, ProcFacts DEF WorkInv, TypeInv, Jobs, Job
<1> SUFFICES ASSUME job'[p].kind = "prune", Busy(p)'
             PROVE  /\ ActiveOf(a)' \in job'[p].keep
                    /\ job'[p].at # "previous" => PreviousOf(a)' \in job'[p].keep \cup {NoRelease}
  BY DEF Keeping
<1> DEFINE j == job[p]
           k == job'[p]
<1>0. /\ RolloutInv /\ GateInv /\ TypeInv /\ CourseInv /\ p \in Proc /\ p # "main"
      /\ k.app = a /\ k.kind = "prune" /\ k.at \notin {"idle", "reply"} /\ Keeping(p)
  BY ProcFacts, NamesAssumption DEF WorkInv, KeepInv, Busy
<1>1. j = k \/ (Turn(p) /\ Others(p))
  BY <1>0, FreshJobs, JobCases
<1>2. \/ j.kind = "prune" /\ j.app = a /\ j.keep = k.keep /\ (j.at = "previous" => k.at = "previous")
         /\ j.at \notin {"idle", "reply"}
      \/ Keeps(j, k) /\ j.kind = "prune"
      \/ Begins(p, j, k)
  <2> HIDE DEF j, k
  <2>1. CASE j = k
    BY <1>0, <2>1
  <2>2. CASE Turn(p)
    <3>1. k # Idle /\ k # Startup
      BY <1>0, FreshJobs
    <3>2. Begins(p, j, k) \/ Keeps(j, k) \/ Removes(j, k) \/ Stops(j, k)
      BY <1>0, <2>2, <3>1 DEF Turn, Ends, Prepares, HealMeasured, Activates, Plans, Retries,
         Loads, Drains, Goes, CourseInv, Course, Steps, Rollouts, j, k
    <3> QED
      BY <1>0, <3>2 DEF Keeps, Removes, Stops, Goes
  <2> QED
    BY <1>1, <2>1, <2>2
<1>3. j.at \notin {"activate", "forget"}
  BY <1>0, <1>2 DEF CourseInv, Course, Steps, Rollouts, Keeps, Begins
<1>4. ActiveOf(a)' = ActiveOf(a) /\ PreviousOf(a)' = PreviousOf(a)
  BY <1>1, <1>3, RowsStay, SameRowsSameActive
<1>5. CASE j.kind = "prune" /\ j.app = a /\ j.keep = k.keep /\ (j.at = "previous" => k.at = "previous")
           /\ j.at \notin {"idle", "reply"}
  BY <1>0, <1>4, <1>5 DEF Keeping, Busy
<1>6. CASE Keeps(j, k) /\ j.kind = "prune"
  BY <1>0, <1>4, <1>6 DEF Keeping, Keeps, Busy
<1>7. CASE Begins(p, j, k)
  BY <1>0, <1>4, <1>7 DEF Begins
<1> QED
  BY <1>2, <1>5, <1>6, <1>7

LEMMA KeepInvInit == Init => KeepInv
<1> SUFFICES ASSUME Init, NEW p \in Op PROVE Keeping(p)
  BY DEF KeepInv
<1>1. job[p] = Idle
  BY ProcFacts, NamesAssumption DEF Init, AllIdle
<1> QED
  BY <1>1, FreshJobs DEF Keeping

\* What a prune works on is removed only by its own steps, and never what it keeps.
LEMMA PruneSpares ==
  ASSUME Exclusive, WorkInv, KeepInv, [Next]_vars, NEW p \in Op, job[p].kind = "prune", Busy(p),
         NEW n \in Release, n \in {ActiveOf(job[p].app), PreviousOf(job[p].app)}, NEW i \in Index,
         host[job[p].app][<<n, i>>] # "absent"
  PROVE  host'[job[p].app][<<n, i>>] # "absent"
<1> DEFINE j == job[p]
<1> SUFFICES ASSUME host'[j.app][<<n, i>>] = "absent" PROVE FALSE
  OBVIOUS
<1>0. /\ RolloutInv /\ GateInv /\ CourseInv /\ p \in Proc /\ j.app \in App
      /\ <<n, i>> \in Slot /\ n # NoRelease
  BY ProcFacts, NumbersAreNatural DEF WorkInv, TypeInv, Jobs, Job, Slot
<1>1. PICK q \in Proc : SlotTurn(q, j.app, <<n, i>>)
  BY <1>0, SlotCases DEF Running
<1>2. job[q].at = "remove" /\ job[q].app = j.app /\ n = job[q].rel
  BY <1>1 DEF SlotTurn
<1>3. q = p
  BY <1>0, <1>2, CallerSteps DEF Removal
<1>4. n \in j.todo /\ j.todo \cap j.keep = {}
  BY <1>0, <1>2, <1>3 DEF CourseInv, Course, Leaves
<1>5. n \in j.keep
  BY <1>0, <1>2, <1>3 DEF KeepInv, Keeping
<1> QED
  BY <1>4, <1>5

\* Rolling back after a prune stays a matter of starting containers: while it
\* runs, those of the live release and of its rollback target are not removed.
THEOREM PrunesKeepRollback == Spec /\ []Exclusive => PruneKeepsRollback
<1>1. Spec /\ []Exclusive => []KeepInv
  BY KeepInvInit, KeepInvStep, WorkCorrect, PTL DEF Spec
<1>2. ASSUME Exclusive, WorkInv, KeepInv, [Next]_vars, NEW p \in Proc,
             job[p].kind = "prune", ~At(p, "reply")
      PROVE  LET a == job[p].app IN
             \A n \in {ActiveOf(a), PreviousOf(a)} \ {NoRelease}, i \in Index :
               host[a][<<n, i>>] # "absent" => host'[a][<<n, i>>] # "absent"
  <2>1. p \in Op /\ Busy(p) /\ job[p].app \in App /\ StoreInv
    BY <1>2 DEF WorkInv, CourseInv, Course, Workers, Calls, TypeInv, Jobs, Job, Busy, At,
                RolloutInv
  <2>2. \A n \in {ActiveOf(job[p].app), PreviousOf(job[p].app)} \ {NoRelease} : n \in Release
    BY <2>1, QueriesFindReleases
  <2> QED
    BY <1>2, <2>1, <2>2, PruneSpares
<1>3. Exclusive /\ WorkInv /\ KeepInv /\ [Next]_vars =>
        [\A p \in Proc : job[p].kind = "prune" /\ ~At(p, "reply") =>
           LET a == job[p].app IN
           \A n \in {ActiveOf(a), PreviousOf(a)} \ {NoRelease}, i \in Index :
             host[a][<<n, i>>] # "absent" => host'[a][<<n, i>>] # "absent"]_vars
  BY <1>2
<1> QED
  BY <1>1, <1>3, WorkCorrect, PTL DEF Spec, PruneKeepsRollback

-----------------------------------------------------------------------------
(* The switch. *)

\* Routes become wrong by a switch or a smaller scale, of a call that then
\* reconciles.
LEMMA UnsettledCases ==
  ASSUME WorkInv, [Next]_vars, NEW b \in App, unsettled'[b], ~unsettled[b]
  PROVE  \E q \in Op : Others(q) /\ job'[q].at = "plan" /\ job'[q].app = b
                       /\ job'[q].kind \in {"update", job[q].kind}
                       /\ job[q].at \in {"activate", "idle"}
<1>0. /\ JobInv /\ RolloutInv /\ CourseInv /\ Jobs
      /\ unsettled \in [App -> BOOLEAN]
  BY DEF WorkInv, TypeInv, RolloutInv, Shape
<1>1. ASSUME \/ UNCHANGED vars \/ Guard \/ Repair \/ ProxyRestarts \/ DaemonRestarts
             \/ \E a \in App : Visit(a)
             \/ \E a \in App, s \in Slot : ContainerAnswers(a, s) \/ ContainerDies(a, s)
             \/ \E a \in App, want \in 1..MaxReplicas : Register(a, want)
      PROVE  UNCHANGED unsettled
  BY <1>1 DEF vars, Guard, Repair, ProxyRestarts, DaemonRestarts, Visit,
              ContainerAnswers, ContainerDies, Register
<1>2. ASSUME NEW p \in Proc,
             \/ Replicate(p) \/ Gate(p) \/ Plan(p) \/ Drain(p) \/ Clean(p)
             \/ CallFails(p) \/ PlanFails(p)
      PROVE  UNCHANGED unsettled
  BY <1>2 DEF Replicate, Inventory, Create, Start, Shrink, Gate, Measure, MeasureBad,
              GateExpires, Plan, Drain, DrainList, DrainStop, DrainStopFails, DrainBroken, Clean,
              KeepPrevious, Leftovers, StopLeftover, RemoveLeftover, Forget, CallFails, PlanFails
<1>3. ASSUME NEW p \in Proc, Load(p) \/ LoadFails(p)
      PROVE  FALSE
  BY <1>0, <1>3 DEF Load, LoadFails, Loaded
<1>4. ASSUME NEW p \in Proc, BuildDone(p) \/ BuildFailed(p) \/ Reply(p)
      PROVE  UNCHANGED unsettled
  BY <1>4 DEF BuildDone, BuildFailed, Reply
<1>5. ASSUME NEW p \in Proc, NEW a \in App,
             BeginDeploy(p, a) \/ BeginRollback(p, a) \/ BeginPrune(p, a) \/ BeginDelete(p, a)
      PROVE  UNCHANGED unsettled
  BY <1>5 DEF BeginDeploy, BeginRollback, BeginPrune, BeginDelete
<1>6. ASSUME NEW p \in Proc, NEW a \in App, NEW want \in 1..MaxReplicas, BeginUpdate(p, a, want)
      PROVE  /\ p \in Op /\ Others(p) /\ job'[p].at = "plan" /\ job'[p].app = b
             /\ job'[p].kind = "update" /\ job[p].at = "idle"
  <2>1. p \in Op /\ job[p].at = "idle" /\ a = b
    BY <1>0, <1>6 DEF BeginUpdate, MayCall, At
  <2>2. /\ job'[p] = [Idle EXCEPT !.kind = "update", !.at = "plan", !.app = a]
        /\ Others(p)
    BY <1>0, <1>6, GotoFacts DEF BeginUpdate, Others
  <2>3. job'[p].at = "plan" /\ job'[p].app = a /\ job'[p].kind = "update"
    BY <2>2 DEF Idle
  <2> QED
    BY <2>1, <2>2, <2>3
<1>7. ASSUME NEW p \in Proc, Activate(p)
      PROVE  /\ p \in Op /\ Others(p) /\ job'[p].at = "plan" /\ job'[p].app = b
             /\ job'[p].kind = job[p].kind /\ job[p].at = "activate"
  <2>1. /\ job[p].at = "activate" /\ job[p].app = b
        /\ Goto(p, [job[p] EXCEPT !.at = "plan"])
    BY <1>0, <1>7 DEF Activate, At
  <2>2. job'[p] = [job[p] EXCEPT !.at = "plan"] /\ Others(p)
    BY <1>0, <2>1, GotoFacts DEF Others
  <2>3. job'[p].at = "plan" /\ job'[p].app = b /\ job'[p].kind = job[p].kind
    BY <1>0, <2>1, <2>2 DEF Jobs, Job
  <2>4. p \in Op
    BY <1>0, <2>1 DEF CourseInv, Course, Workers, Steps, Calls
  <2> QED
    BY <2>1, <2>2, <2>3, <2>4
<1>8. ASSUME NEW p \in Proc, ApiCall(p)
      PROVE  \E a \in App, want \in 1..MaxReplicas : BeginUpdate(p, a, want)
  BY <1>4, <1>5, <1>8 DEF ApiCall
<1> QED
  BY <1>1, <1>2, <1>3, <1>6, <1>7, <1>8 DEF Next, Switch

\* The scale changes with an update, or of an app that is not on record yet.
LEMMA ScaleChanges ==
  ASSUME WorkInv, [Next]_vars, NEW b \in App, replicas'[b] # replicas[b]
  PROVE  \/ b \notin apps
         \/ \E q \in Op : Others(q) /\ job'[q].at = "plan" /\ job'[q].app = b
                          /\ job[q].at = "idle"
<1>0. JobInv /\ RolloutInv /\ replicas \in [App -> Nat]
  BY DEF WorkInv, RolloutInv, Shape
<1>1. ASSUME \/ UNCHANGED vars \/ Guard \/ Repair \/ ProxyRestarts \/ DaemonRestarts
             \/ \E a \in App : Visit(a)
             \/ \E a \in App, s \in Slot : ContainerAnswers(a, s) \/ ContainerDies(a, s)
      PROVE  UNCHANGED replicas
  BY <1>1 DEF vars, Guard, Repair, ProxyRestarts, DaemonRestarts, Visit,
              ContainerAnswers, ContainerDies
<1>2. ASSUME NEW p \in Proc,
             \/ Replicate(p) \/ Gate(p) \/ Switch(p) \/ Drain(p) \/ Clean(p)
             \/ CallFails(p) \/ PlanFails(p) \/ LoadFails(p)
      PROVE  UNCHANGED replicas
  BY <1>2 DEF Replicate, Inventory, Create, Start, Shrink, Gate, Measure, MeasureBad,
              GateExpires, Switch, Activate, Plan, Load, Drain, DrainList, DrainStop,
              DrainStopFails, DrainBroken, Clean, KeepPrevious, Leftovers, StopLeftover,
              RemoveLeftover, Forget, CallFails, PlanFails, LoadFails
<1>3. ASSUME NEW a \in App, NEW want \in 1..MaxReplicas, Register(a, want)
      PROVE  b \notin apps
  BY <1>0, <1>3 DEF Register, CreateApp
<1>4. ASSUME NEW p \in Proc, BuildDone(p) \/ BuildFailed(p) \/ Reply(p)
      PROVE  UNCHANGED replicas
  BY <1>4 DEF BuildDone, BuildFailed, Reply
<1>5. ASSUME NEW p \in Proc, NEW a \in App,
             BeginDeploy(p, a) \/ BeginRollback(p, a) \/ BeginPrune(p, a) \/ BeginDelete(p, a)
      PROVE  UNCHANGED replicas
  BY <1>5 DEF BeginDeploy, BeginRollback, BeginPrune, BeginDelete
<1>6. ASSUME NEW p \in Proc, NEW a \in App, NEW want \in 1..MaxReplicas, BeginUpdate(p, a, want)
      PROVE  /\ p \in Op /\ Others(p) /\ job'[p].at = "plan" /\ job'[p].app = b
             /\ job[p].at = "idle"
  <2>1. p \in Op /\ job[p].at = "idle" /\ a = b
    BY <1>0, <1>6 DEF BeginUpdate, MayCall, At
  <2>2. /\ job'[p] = [Idle EXCEPT !.kind = "update", !.at = "plan", !.app = a]
        /\ Others(p)
    BY <1>0, <1>6, GotoFacts DEF BeginUpdate, Others
  <2>3. job'[p].at = "plan" /\ job'[p].app = a
    BY <2>2 DEF Idle
  <2> QED
    BY <2>1, <2>2, <2>3
<1>8. ASSUME NEW p \in Proc, ApiCall(p)
      PROVE  \E a \in App, want \in 1..MaxReplicas : BeginUpdate(p, a, want)
  BY <1>4, <1>5, <1>8 DEF ApiCall
<1> QED
  BY <1>1, <1>2, <1>3, <1>6, <1>8 DEF Next

LEMMA SwitchedTo ==
  ASSUME StoreInv, NEW a \in App, NEW n \in Release, SetActiveRelease(a, n)
  PROVE  ActiveOf(a)' = n
<1> DEFINE top == Len(history[a]) + 1
<1>1. CASE ActiveOf(a) = n
  BY <1>1, SameRowsSameActive DEF SetActiveRelease
<1>2. CASE ActiveOf(a) # n
  <2>1. /\ DOMAIN history'[a] = 1..top
        /\ history'[a][top] = [rel |-> n, open |-> TRUE]
        /\ \A k \in 1..Len(history[a]) : ~history'[a][k].open
    BY <1>2, SwitchRows
  <2>2. Len(history[a]) \in Nat
    BY OneActiveRows
  <2>3. OpenRows(a)' = {top}
    BY <2>1, <2>2 DEF OpenRows
  <2>4. PICK k \in OpenRows(a)' : ActiveOf(a)' = history'[a][k].rel
    BY <2>3 DEF ActiveOf
  <2> QED
    BY <2>1, <2>3, <2>4
<1> QED
  BY <1>1, <1>2

\* After its switch a rollout knows that its release is live and its routes
\* are loaded; an update knows that its plan fits the store.
Switched(j) ==
  /\ j.kind \in Rollouts /\ j.at \in {"plan", "load", "list", "drain"} =>
       ActiveOf(j.app) = j.rel /\ j.rel \in Release
  /\ j.kind \in Rollouts \cup {"update"} /\ j.at = "load" => Fits(j.cfg, j.app)
  /\ j.at \in {"list", "drain"} => ~unsettled[j.app] /\ j.moved
  /\ j.at = "drain" => j.rel \notin j.todo

SwitchInv == \A p \in Op : Switched(job[p])

\* What a caller does on its way from the switch to the last stop.
LEMMA TailTurns ==
  ASSUME WorkInv, [Next]_vars, NEW p \in Op, job'[p].kind \in Rollouts \cup {"update"},
         job'[p].at \in {"plan", "load", "list", "drain"}
  PROVE  LET j == job[p]  k == job'[p] IN
         \/ j = k
         \/ /\ Others(p)
            /\ \/ Activates(j, k) \/ Plans(j, k) \/ Loads(j, k) \/ Drains(j, k)
               \/ Begins(p, j, k) /\ k.kind = "update" /\ k.at = "plan"
<1> DEFINE j == job[p]
           k == job'[p]
<1>0. /\ RolloutInv /\ GateInv /\ TypeInv /\ p \in Proc /\ p # "main"
      /\ k.kind \in Rollouts \cup {"update"} /\ k.at \in {"plan", "load", "list", "drain"}
      /\ Course(p, j)
  BY ProcFacts, NamesAssumption DEF WorkInv, CourseInv
<1>1. j = k \/ (Turn(p) /\ Others(p))
  BY <1>0, FreshJobs, JobCases
<1> HIDE DEF j, k
<1>2. ASSUME Turn(p)
      PROVE  \/ Activates(j, k) \/ Plans(j, k) \/ Loads(j, k) \/ Drains(j, k)
             \/ Begins(p, j, k) \/ HealMeasured(j, k)
  <2>1. k # Idle /\ k # Startup
    BY <1>0, FreshJobs DEF Rollouts
  <2> QED
    BY <1>0, <1>2, <2>1 DEF Turn, Ends, Prepares, Retries, Keeps, Removes, Stops, Ahead, j, k
<1>3. ~HealMeasured(j, k)
  BY <1>0 DEF HealMeasured, Goes, Rollouts
<1>4. Begins(p, j, k) => k.kind = "update" /\ k.at = "plan"
  BY <1>0, NamesAssumption DEF Begins, Rollouts
<1> QED
  BY <1>1, <1>2, <1>3, <1>4 DEF j, k

\* A plan that fits stays so until its caller loads it.
LEMMA PlanStays ==
  ASSUME Exclusive, Exclusive', WorkInv, [Next]_vars, NEW p \in Op, NEW a \in App,
         a = job'[p].app, Busy(p)', job'[p] = job[p] \/ Others(p), job[p].at \in {"plan", "load"},
         NEW cfg, Fits(cfg, a), cfg[a] # {} => Live(a)
  PROVE  Fits(cfg, a)'
<1> SUFFICES ASSUME NEW s \in cfg[a]
             PROVE  s[1] = ActiveOf(a)' /\ s[2] < replicas'[a]
  BY DEF Fits
<1>1. s[1] = ActiveOf(a) /\ s[2] < replicas[a] /\ Live(a)
  BY DEF Fits
<1>2. ActiveOf(a)' = ActiveOf(a)
  BY RowsStay, SameRowsSameActive
<1>3. ASSUME replicas'[a] # replicas[a]
      PROVE  FALSE
  <2>1. a \in apps
    BY <1>1, LiveOnRecord DEF WorkInv, RolloutInv
  <2>2. PICK q \in Op : Others(q) /\ job'[q].at = "plan" /\ job'[q].app = a /\ job[q].at = "idle"
    BY <1>3, <2>1, ScaleChanges
  <2>3. q # p
    BY <2>2
  <2> QED
    BY <2>2, <2>3 DEF Exclusive, Busy
<1> QED
  BY <1>1, <1>2, <1>3

\* Once loaded, the routes of the app stay settled.
LEMMA RoutesStay ==
  ASSUME Exclusive', WorkInv, [Next]_vars, NEW p \in Op, NEW a \in App, a = job'[p].app,
         job'[p].at \in {"list", "drain"}, ~unsettled[a]
  PROVE  ~unsettled'[a]
<1> SUFFICES ASSUME unsettled'[a] PROVE FALSE
  OBVIOUS
<1>1. PICK q \in Op : Others(q) /\ job'[q].at = "plan" /\ job'[q].app = a
  BY UnsettledCases
<1> QED
  BY <1>1 DEF Exclusive, Busy

LEMMA PlannedFitsAll ==
  ASSUME NEW lost, NEW a \in App
  PROVE  Fits(Planned(lost), a)
  BY DEF Fits, Planned, Upstreams

LEMMA SwitchInvStep ==
  ASSUME Exclusive, Exclusive', WorkInv, SwitchInv, [Next]_vars
  PROVE  SwitchInv'
<1> SUFFICES ASSUME NEW p \in Op PROVE Switched(job[p])'
  BY DEF SwitchInv
<1> PICK a \in App : a = job'[p].app
  BY TypeInvStep, ProcFacts DEF WorkInv, TypeInv, Jobs, Job
<1> DEFINE j == job[p]
           k == job'[p]
<1>0. /\ RolloutInv /\ GateInv /\ TypeInv /\ CourseInv /\ LiveInv /\ p \in Proc
      /\ k.app = a /\ Switched(j) /\ j.kind \in Kind
      /\ j.cfg \in [App -> SUBSET Slot]
  BY ProcFacts DEF WorkInv, SwitchInv, TypeInv, Jobs, Job
<1> PICK cfg : cfg = job'[p].cfg
  OBVIOUS
<1>w. k.at \in {"list", "drain"} => k.kind \in Rollouts
  BY <1>0, CourseInvStep DEF CourseInv, Course, Steps
<1> SUFFICES ASSUME k.kind \in Rollouts \cup {"update"}, k.at \in {"plan", "load", "list", "drain"}
             PROVE  /\ k.kind \in Rollouts => ActiveOf(a)' = k.rel /\ k.rel \in Release
                    /\ k.at = "load" => Fits(cfg, a)'
                    /\ k.at \in {"list", "drain"} => ~unsettled'[a] /\ k.moved
                    /\ k.at = "drain" => k.rel \notin k.todo
  BY <1>w DEF Switched, Fits, Rollouts
<1>b. Busy(p)'
  BY DEF Busy
<1>c. \/ j = k
      \/ /\ Others(p)
         /\ \/ Activates(j, k) \/ Plans(j, k) \/ Loads(j, k) \/ Drains(j, k)
            \/ Begins(p, j, k) /\ k.kind = "update" /\ k.at = "plan"
  BY TailTurns
<1>d. j = k \/ Others(p)
  BY <1>c
<1>1. ASSUME k.kind \in Rollouts
      PROVE  ActiveOf(a)' = k.rel /\ k.rel \in Release
  <2>1. CASE Activates(j, k)
    <3>1. j.app = a /\ j.rel = k.rel /\ j.at = "activate" /\ SetActiveRelease(a, k.rel)
      BY <1>0, <2>1 DEF Activates, Goes
    <3>2. k.rel \in Release /\ StoreInv
      BY <1>0, <3>1 DEF RolloutInv, JobInv, Sound, Ahead
    <3> QED
      BY <3>1, <3>2, SwitchedTo
  <2>2. CASE j = k \/ Plans(j, k) \/ Loads(j, k) \/ Drains(j, k)
    <3>1. /\ j.kind = k.kind /\ j.app = a /\ j.rel = k.rel
          /\ j.at \in {"plan", "load", "list", "drain"}
      BY <1>0, <2>2 DEF Plans, Loads, Drains, Goes
    <3>2. ActiveOf(a) = k.rel /\ k.rel \in Release
      BY <1>0, <1>1, <3>1 DEF Switched
    <3>3. ActiveOf(a)' = ActiveOf(a)
      BY <1>b, <1>d, <3>1, RowsStay, SameRowsSameActive
    <3> QED
      BY <3>2, <3>3
  <2> QED
    BY <1>1, <1>c, <2>1, <2>2 DEF Rollouts
<1>2. ASSUME k.at = "load"
      PROVE  Fits(cfg, a)'
  <2>1. CASE j = k
    <3>1. Fits(cfg, a) /\ (cfg[a] # {} => Live(a)) /\ j.at = "load"
      BY <1>0, <1>2, <2>1 DEF Switched, LiveInv, At
    <3> QED
      BY <1>2, <1>b, <1>d, <2>1, <3>1, PlanStays
  <2>2. CASE Plans(j, k)
    <3>1. PICK lost \in SUBSET App : cfg = Planned(lost)
      BY <2>2 DEF Plans
    <3>2. Fits(cfg, a) /\ (cfg[a] # {} => Live(a)) /\ j.at = "plan"
      BY <2>2, <3>1, PlannedFitsAll, PlannedIsLive DEF Plans
    <3> QED
      BY <1>b, <1>d, <3>2, PlanStays
  <2> QED
    BY <1>2, <1>c, <2>1, <2>2 DEF Activates, Loads, Drains
<1>3. ASSUME k.at \in {"list", "drain"}
      PROVE  ~unsettled'[a] /\ k.moved
  <2>1. CASE j = k \/ Drains(j, k)
    <3>1. j.app = a /\ j.moved = k.moved /\ j.at \in {"list", "drain"}
      BY <1>0, <1>3, <2>1 DEF Drains, Goes
    <3>2. ~unsettled[a] /\ k.moved
      BY <1>0, <3>1 DEF Switched
    <3> QED
      BY <1>3, <3>2, RoutesStay
  <2>2. CASE Loads(j, k)
    <3>1. /\ j.app = a /\ j.at = "load" /\ j.kind \in Rollouts /\ j.cfg[a] # {} /\ Loaded(j.cfg)
          /\ k.moved <=> \E i \in Index : <<j.rel, i>> \in j.cfg[a]
      BY <1>0, <2>2 DEF Loads, Goes
    <3>2. Fits(j.cfg, a) /\ ActiveOf(a) = j.rel
      BY <1>0, <3>1 DEF Switched
    <3>3. ~unsettled'[a]
      BY <3>1, <3>2 DEF Loaded
    <3>4. PICK s \in j.cfg[a] : s[1] = j.rel
      BY <3>1, <3>2 DEF Fits
    <3>5. s \in Slot
      BY <1>0, <3>4
    <3>6. s = <<j.rel, s[2]>> /\ s[2] \in Index
      BY <3>4, <3>5 DEF Slot
    <3> QED
      BY <3>1, <3>3, <3>4, <3>6
  <2> QED
    BY <1>3, <1>c, <2>1, <2>2 DEF Activates, Plans
<1>4. ASSUME k.at = "drain"
      PROVE  k.rel \notin k.todo
  <2>1. CASE j = k
    BY <1>0, <1>4, <2>1 DEF Switched
  <2>2. CASE Drains(j, k)
    BY <1>0, <2>2 DEF Drains, Switched
  <2> QED
    BY <1>4, <1>c, <2>1, <2>2 DEF Activates, Plans, Loads
<1> QED
  BY <1>1, <1>2, <1>3, <1>4

LEMMA SwitchInvInit == Init => SwitchInv
<1> SUFFICES ASSUME Init, NEW p \in Op PROVE Switched(job[p])
  BY DEF SwitchInv
<1>1. job[p] = Idle
  BY ProcFacts, NamesAssumption DEF Init, AllIdle
<1> QED
  BY <1>1, FreshJobs DEF Switched, Rollouts

\* With one call at a time about an app, a rollout that has switched stays the
\* one whose release is live until it answers, and so does the plan it loads.
THEOREM RolloutsStaySwitched == Spec /\ []Exclusive => []SwitchInv
  BY SwitchInvInit, SwitchInvStep, WorkCorrect, PTL DEF Spec

\* Drain stops nothing that has traffic: the routes were loaded before it
\* listed the stale releases, and nobody has moved them since.
THEOREM DrainsSpareTraffic == Spec /\ []Exclusive => DrainSparesTraffic
<1>1. ASSUME Exclusive, WorkInv, SwitchInv, [Next]_vars, NEW p \in Proc,
             At(p, "drain"), job'[p] # job[p], NEW a \in {job[p].app}, NEW s \in route[a],
             Running(a, s), ~Running(a, s)'
      PROVE  FALSE
  <2>0. /\ RolloutInv /\ GateInv /\ TypeInv /\ CourseInv /\ a \in App /\ s \in Slot
    BY <1>1 DEF WorkInv, TypeInv, Jobs, Job, RolloutInv, Shape
  <2>1. p \in Op /\ job[p].kind \in Rollouts
    BY <1>1, <2>0 DEF CourseInv, Course, Steps, Workers, Calls, At
  <2>2. host'[a][s] # host[a][s] /\ host'[a][s] # "up"
    BY <1>1 DEF Running
  <2>3. PICK q \in Proc : SlotTurn(q, a, s)
    BY <1>1, <2>0, <2>2, SlotCases
  <2>4. q = p
    BY <1>1, <2>3 DEF SlotTurn, Others
  <2>5. s[1] \in job[p].todo
    BY <1>1, <2>3, <2>4 DEF SlotTurn, At
  <2>6. ActiveOf(a) = job[p].rel /\ ~unsettled[a] /\ job[p].rel \notin job[p].todo
    BY <1>1, <2>1 DEF SwitchInv, Switched, At
  <2>7. s[1] = ActiveOf(a)
    BY <1>1, <2>0, <2>6 DEF RolloutInv, SettledRoutes, Fits
  <2> QED
    BY <2>5, <2>6, <2>7
<1>2. Exclusive /\ WorkInv /\ SwitchInv /\ [Next]_vars =>
        [\A p \in Proc : (At(p, "drain") /\ job'[p] # job[p]) => Spares(p)]_vars
  <2>1. ASSUME Exclusive, WorkInv, SwitchInv, [Next]_vars, NEW p \in Proc,
               At(p, "drain"), job'[p] # job[p]
        PROVE  Spares(p)
    BY <1>1, <2>1 DEF Spares
  <2> QED
    BY <2>1
<1> QED
  BY <1>2, RolloutsStaySwitched, WorkCorrect, PTL DEF Spec, DrainSparesTraffic

-----------------------------------------------------------------------------
(* As long as nothing fails. *)

\* The first replica of some release is routed to and answers.
Zero(cfg, a) == \E n \in Release : <<n, 0>> \in cfg[a] /\ host[a][<<n, 0>>] = "up"

\* A caller is about to settle the routes of a.
Settling(a) == \E p \in Op : job[p].at \in {"plan", "load"} /\ job[p].app = a

\* A live release has its first replica up, and so does what is routed to or is
\* about to be; where there are routes, a plan has some too.
AppBright(a) ==
  /\ unsettled[a] => Settling(a)
  /\ Live(a) => host[a][<<ActiveOf(a), 0>>] = "up"
  /\ route[a] # {} => Zero(route, a)
  /\ \A q \in Proc : At(q, "load") => /\ job[q].cfg[a] # {} => Zero(job[q].cfg, a)
                                      /\ route[a] # {} => job[q].cfg[a] # {}

\* What a caller activates is up, what it planned has routes, what it deletes is
\* not live, and a success has moved the routes.
CallBright(j) ==
  /\ j.at = "activate" => host[j.app][<<j.rel, 0>>] = "up"
  /\ j.kind \in Rollouts /\ j.at = "load" => j.cfg[j.app] # {}
  /\ j.kind = "delete" /\ j.at # "reply" => ~Live(j.app)
  /\ j.report = "success" => j.at = "reply" /\ (j.kind \in Rollouts => j.moved)

Bright == (\A a \in App : AppBright(a)) /\ (\A p \in Op : CallBright(job[p]))

\* All that is known with one call at a time about each app.
SerialInv == WorkInv /\ KeepInv /\ SwitchInv

LEMMA NoFault ==
  ASSUME TypeInv, [Next]_vars, faults' = 0
  PROVE  faults = 0 /\ ~Fault
<1>1. faults \in 0..MaxFaults
  BY DEF TypeInv
<1>2. UNCHANGED faults \/ Fault
  BY <1>1, FaultsKept
<1>3. faults \in Nat /\ (Fault => faults' = faults + 1)
  BY <1>1, RolloutAssumption DEF Fault
<1> QED
  BY <1>2, <1>3

\* A reconciling caller goes on by its own plan or load.
LEMMA SettleCases ==
  ASSUME RolloutInv, [Next]_vars, ~Fault, NEW p \in Proc, job[p].at \in {"plan", "load"},
         job'[p] # job[p]
  PROVE  Plan(p) \/ Load(p)
<1>1. ASSUME NEW q \in Proc,
             \/ ApiCall(q) \/ Replicate(q) \/ Gate(q) \/ Switch(q) \/ Drain(q)
             \/ Clean(q) \/ CallFails(q) \/ PlanFails(q) \/ LoadFails(q)
      PROVE  Plan(p) \/ Load(p)
  <2>1. q = p
    BY <1>1, OthersWait
  <2>2. ~ApiCall(p)
    BY DEF ApiCall, BeginDeploy, BeginRollback, BeginPrune, BeginDelete, BeginUpdate, MayCall,
           BuildDone, BuildFailed, Reply, At
  <2>3. ~Replicate(p) /\ ~Gate(p) /\ ~Drain(p) /\ ~Activate(p)
    BY DEF Replicate, Inventory, Create, Start, Shrink, Gate, Measure, MeasureBad, GateExpires,
           Drain, DrainList, DrainStop, DrainStopFails, DrainBroken, Activate, At
  <2>4. ~Clean(p)
    BY DEF Clean, KeepPrevious, Leftovers, StopLeftover, RemoveLeftover, Forget, At
  <2>5. ~CallFails(p) /\ ~PlanFails(p) /\ ~LoadFails(p)
    BY DEF CallFails, PlanFails, LoadFails
  <2> QED
    BY <1>1, <2>1, <2>2, <2>3, <2>4, <2>5 DEF Switch
<1>2. ASSUME Guard \/ Repair \/ \E a \in App : Visit(a)
      PROVE  FALSE
  <2>1. CASE Guard \/ \E a \in App : Visit(a)
    <3>1. job["supervisor"].at \in {"guard", "idle"} /\ JobInv
      BY <2>1 DEF RolloutInv, Guard, Visit, At
    <3>2. \E k : Goto("supervisor", k)
      BY <2>1 DEF Guard, Visit
    <3> QED
      BY <3>1, <3>2, GotoFacts, ProcFacts
  <2>2. CASE Repair
    <3>1. job["watcher"].at = "idle" /\ JobInv
      BY <2>2 DEF RolloutInv, Repair, At
    <3>2. \E k : Goto("watcher", k)
      BY <2>2 DEF Repair
    <3> QED
      BY <3>1, <3>2, GotoFacts, ProcFacts
  <2> QED
    BY <1>2, <2>1, <2>2
<1>3. ASSUME \/ UNCHANGED vars \/ ProxyRestarts \/ DaemonRestarts
             \/ \E a \in App, s \in Slot : ContainerAnswers(a, s) \/ ContainerDies(a, s)
             \/ \E a \in App, want \in 1..MaxReplicas : Register(a, want)
      PROVE  FALSE
  BY <1>3 DEF vars, ProxyRestarts, DaemonRestarts, ContainerAnswers, ContainerDies, Register
<1> QED
  BY <1>1, <1>2, <1>3 DEF Next

\* A first replica that is up stays so, unless a drain or a removal stops it.
LEMMA UpOrStopped ==
  ASSUME WorkInv, [Next]_vars, ~Fault, NEW a \in App, NEW n \in Release,
         host[a][<<n, 0>>] = "up", host'[a][<<n, 0>>] # "up"
  PROVE  \E q \in Proc : /\ SlotTurn(q, a, <<n, 0>>)
                         /\ \/ job[q].at \in {"drain", "stop"} /\ n \in job[q].todo
                            \/ job[q].at = "remove" /\ n = job[q].rel
<1>0. RolloutInv /\ GateInv /\ CourseInv /\ <<n, 0>> \in Slot
  BY BrokenAreReleases DEF WorkInv, Slot
<1>1. PICK q \in Proc : SlotTurn(q, a, <<n, 0>>)
  BY <1>0, SlotCases
<1>2. job[q].at = "shrink" => 0 \notin job[q].extra
  BY <1>0 DEF CourseInv, Course, Steps, Ahead
<1> QED
  BY <1>1, <1>2 DEF SlotTurn

\* Nobody stops a container of an app whose caller does not.
LEMMA CallerGuards ==
  ASSUME Exclusive, WorkInv, [Next]_vars, ~Fault, NEW p \in Op, Busy(p),
         job[p].at \notin {"drain", "stop", "remove"}, NEW a \in App, a = job[p].app,
         NEW n \in Release, host[a][<<n, 0>>] = "up"
  PROVE  host'[a][<<n, 0>>] = "up"
<1> SUFFICES ASSUME host'[a][<<n, 0>>] # "up" PROVE FALSE
  OBVIOUS
<1>1. PICK q \in Proc : SlotTurn(q, a, <<n, 0>>) /\ job[q].at \in {"drain", "stop", "remove"}
  BY UpOrStopped
<1>2. q = p
  BY <1>1, CallerSteps DEF WorkInv, SlotTurn, Removal
<1> QED
  BY <1>1, <1>2

\* The first replica of what is routed to, or is about to be, stays up.
LEMMA StaysUp ==
  ASSUME Exclusive, SerialInv, Bright, [Next]_vars, ~Fault, NEW a \in App, Live(a),
         NEW n \in Release, ~unsettled[a] => n = ActiveOf(a), host[a][<<n, 0>>] = "up"
  PROVE  host'[a][<<n, 0>>] = "up"
<1>0. WorkInv /\ CourseInv /\ KeepInv /\ SwitchInv
  BY DEF SerialInv, WorkInv
<1>1. CASE unsettled[a]
  <2>1. PICK p \in Op : job[p].at \in {"plan", "load"} /\ job[p].app = a
    BY <1>1 DEF Bright, AppBright, Settling
  <2> QED
    BY <1>0, <2>1, CallerGuards DEF Busy
<1>2. CASE n = ActiveOf(a)
  <2> SUFFICES ASSUME host'[a][<<n, 0>>] # "up" PROVE FALSE
    OBVIOUS
  <2>1. PICK q \in Proc : /\ SlotTurn(q, a, <<n, 0>>)
                          /\ \/ job[q].at \in {"drain", "stop"} /\ n \in job[q].todo
                             \/ job[q].at = "remove" /\ n = job[q].rel
    BY <1>0, UpOrStopped
  <2>2. job[q].app = a
    BY <2>1 DEF SlotTurn
  <2>3. CASE job[q].at = "drain"
    <3>1. q \in Op /\ job[q].kind \in Rollouts
      BY <1>0, <2>3 DEF CourseInv, Course, Steps, Workers, Calls
    <3> QED
      BY <1>0, <1>2, <2>1, <2>2, <2>3, <3>1 DEF SwitchInv, Switched
  <2>4. CASE job[q].at \in {"stop", "remove"}
    <3>1. q \in Op /\ Busy(q) /\ job[q].kind \in {"prune", "delete"} /\ n \in job[q].todo
          /\ job[q].todo \cap job[q].keep = {}
      BY <1>0, <2>1, <2>4 DEF CourseInv, Course, Steps, Workers, Leaves, Calls, Removal, Busy
    <3>2. CASE job[q].kind = "prune"
      BY <1>0, <1>2, <2>2, <3>1, <3>2 DEF KeepInv, Keeping
    <3>3. CASE job[q].kind = "delete"
      BY <2>2, <2>4, <3>1, <3>3 DEF Bright, CallBright
    <3> QED
      BY <3>1, <3>2, <3>3
  <2> QED
    BY <2>1, <2>3, <2>4
<1> QED
  BY <1>1, <1>2

LEMMA ZeroStays ==
  ASSUME Exclusive, SerialInv, Bright, [Next]_vars, ~Fault, NEW a \in App, Live(a),
         NEW cfg, Zero(cfg, a), ~unsettled[a] => Fits(cfg, a)
  PROVE  \E n \in Release : <<n, 0>> \in cfg[a] /\ host'[a][<<n, 0>>] = "up"
<1>1. PICK n \in Release : <<n, 0>> \in cfg[a] /\ host[a][<<n, 0>>] = "up"
  BY DEF Zero
<1>2. ~unsettled[a] => n = ActiveOf(a)
  BY <1>1 DEF Fits
<1> QED
  BY <1>1, <1>2, StaysUp

\* A plan has routes for every live app.
LEMMA PlansAll ==
  ASSUME GateInv, StoreInv, NEW a \in App, Live(a), host[a][<<ActiveOf(a), 0>>] = "up"
  PROVE  ActiveOf(a) \in Release /\ <<ActiveOf(a), 0>> \in Planned({})[a]
<1>1. ActiveOf(a) \in Release /\ 0 \in Index /\ replicas[a] \in Nat \ {0}
  BY QueriesFindReleases, BrokenAreReleases DEF Live, GateInv
<1>2. <<ActiveOf(a), 0>> \in Slot /\ 0 < replicas[a] /\ Running(a, <<ActiveOf(a), 0>>)
  BY <1>1 DEF Slot, Running
<1>3. <<ActiveOf(a), 0>> \in Upstreams(a)
  BY <1>2 DEF Upstreams
<1> QED
  BY <1>1, <1>3 DEF Planned

\* Routes that are to be settled have a caller that is about to.
LEMMA SettlingStep ==
  ASSUME Exclusive, SerialInv, Bright, [Next]_vars, ~Fault, NEW a \in App, unsettled'[a]
  PROVE  Settling(a)'
<1>0. WorkInv /\ RolloutInv /\ TypeInv /\ CourseInv /\ SwitchInv
  BY DEF SerialInv, WorkInv
<1>1. CASE unsettled[a]
  <2>1. PICK p \in Op : job[p].at \in {"plan", "load"} /\ job[p].app = a
    BY <1>1 DEF Bright, AppBright, Settling
  <2>2. p \in Proc /\ job[p] \in Job
    BY <1>0, ProcFacts DEF TypeInv, Jobs
  <2>3. CASE job'[p] = job[p]
    BY <2>1, <2>3 DEF Settling
  <2>4. CASE Plan(p)
    <3>1. PICK lost \in SUBSET App :
            Goto(p, [job[p] EXCEPT !.at = "load", !.cfg = Planned(lost),
                                   !.skip = Skipped(Planned(lost)) # {}])
      BY <2>4 DEF Plan
    <3> DEFINE k == [job[p] EXCEPT !.at = "load", !.cfg = Planned(lost),
                                   !.skip = Skipped(Planned(lost)) # {}]
    <3>2. k.at = "load" /\ k.app = a
      BY <2>1, <2>2 DEF Job
    <3>3. job'[p] = k
      BY <1>0, <2>2, <3>1, GotoFacts DEF RolloutInv
    <3> HIDE DEF k
    <3> QED
      BY <3>2, <3>3 DEF Settling
  <2>5. CASE Load(p)
    <3>1. Loaded(job[p].cfg) /\ job[p].at = "load"
      BY <2>5 DEF Load, At
    <3>2. job[p].kind \in Rollouts \cup {"update"}
      BY <1>0, <2>1, <2>2, <3>1, NamesAssumption
         DEF CourseInv, Course, Workers, Steps, Rollouts, Job, Kind
    <3>3. Fits(job[p].cfg, a)
      BY <1>0, <2>1, <3>1, <3>2 DEF SwitchInv, Switched
    <3> QED
      BY <3>1, <3>3 DEF Loaded
  <2> QED
    BY <1>0, <2>1, <2>2, <2>3, <2>4, <2>5, SettleCases
<1>2. CASE ~unsettled[a]
  <2>1. PICK q \in Op : job'[q].at = "plan" /\ job'[q].app = a
    BY <1>0, <1>2, UnsettledCases
  <2> QED
    BY <2>1 DEF Settling
<1> QED
  BY <1>1, <1>2

\* The first replica of a live release is up: it was measured before the switch.
LEMMA LiveIsUp ==
  ASSUME Exclusive, SerialInv, Bright, [Next]_vars, ~Fault, NEW a \in App, NEW n,
         n = ActiveOf(a)', n # NoRelease
  PROVE  host'[a][<<n, 0>>] = "up"
<1>0. WorkInv /\ RolloutInv /\ StoreInv /\ CourseInv
  BY DEF SerialInv, WorkInv, RolloutInv
<1>1. CASE n = ActiveOf(a)
  <2>1. Live(a) /\ n \in Release /\ host[a][<<n, 0>>] = "up"
    BY <1>0, <1>1, QueriesFindReleases DEF Bright, AppBright, Live
  <2> QED
    BY <1>1, <2>1, StaysUp
<1>2. CASE n # ActiveOf(a)
  <2>1. PICK p \in Proc : At(p, "activate") /\ job[p].app = a /\ n = job[p].rel /\ n \in Release
    BY <1>0, <1>2, ActiveCases
  <2>2. p \in Op /\ Busy(p)
    BY <1>0, <2>1 DEF CourseInv, Course, Steps, Workers, Calls, Busy, At
  <2>3. host[a][<<n, 0>>] = "up"
    BY <2>1, <2>2 DEF Bright, CallBright, At
  <2> QED
    BY <1>0, <2>1, <2>2, <2>3, CallerGuards DEF At
<1> QED
  BY <1>1, <1>2

\* Whatever becomes the routes of an app has a first replica that is up.
LEMMA RoutesAreUp ==
  ASSUME Exclusive, SerialInv, Bright, [Next]_vars, ~Fault, NEW a \in App, NEW r, r = route'[a],
         r # {}
  PROVE  \E n \in Release : <<n, 0>> \in r /\ host'[a][<<n, 0>>] = "up"
<1>0. RolloutInv /\ JobInv /\ LiveInv /\ SettledRoutes
  BY DEF SerialInv, WorkInv, RolloutInv
<1>1. PICK cfg : /\ cfg[a] = r /\ Zero(cfg, a) /\ Live(a)
                 /\ ~unsettled[a] => Fits(cfg, a)
  <2>1. CASE UNCHANGED route
    <3>1. route[a] = r /\ Zero(route, a) /\ Live(a) /\ (~unsettled[a] => Fits(route, a))
      BY <1>0, <2>1 DEF Bright, AppBright, LiveInv, SettledRoutes
    <3> QED
      BY <3>1
  <2>2. ASSUME NEW p \in Proc, At(p, "load"), route' = job[p].cfg
        PROVE  \E cfg : /\ cfg[a] = r /\ Zero(cfg, a) /\ Live(a)
                        /\ ~unsettled[a] => Fits(cfg, a)
    <3>1. /\ job[p].cfg[a] = r /\ Zero(job[p].cfg, a) /\ Live(a)
          /\ ~unsettled[a] => Fits(job[p].cfg, a)
      BY <1>0, <2>2 DEF Bright, AppBright, LiveInv, JobInv, PlanFits
    <3> QED
      BY <3>1
  <2> QED
    BY <2>1, <2>2, RouteCases
<1> QED
  BY <1>1, ZeroStays

\* Nobody's routes are taken away.
LEMMA RoutesKept ==
  ASSUME Bright, [Next]_vars, ~Fault, NEW a \in App, route[a] # {}
  PROVE  route'[a] # {}
<1>1. ASSUME NEW p \in Proc, At(p, "load"), route' = job[p].cfg
      PROVE  route'[a] # {}
  BY <1>1 DEF Bright, AppBright
<1> QED
  BY <1>1, RouteCases

\* Without faults a plan is made of what is live, and so is what Repair loads.
LEMMA PlanOfLive ==
  ASSUME SerialInv, Bright, ~Fault, NEW a \in App, NEW lost \in SUBSET App, ListingFails(lost),
         NEW cfg, cfg = Planned(lost) \/ cfg = CarryOver(Planned(lost))
  PROVE  /\ cfg[a] # {} => Live(a)
         /\ Live(a) => <<ActiveOf(a), 0>> \in cfg[a]
         /\ Fits(cfg, a)
<1>0. GateInv /\ StoreInv /\ lost = {}
  BY DEF SerialInv, WorkInv, RolloutInv, ListingFails
<1>1. Live(a) => <<ActiveOf(a), 0>> \in Planned({})[a]
  BY <1>0, PlansAll DEF Bright, AppBright
<1>2. a \notin Skipped(Planned({}))
  BY <1>1 DEF Skipped, Live
<1>3. cfg[a] = Planned({})[a]
  BY <1>0, <1>2 DEF CarryOver
<1> QED
  BY <1>1, <1>3, PlannedIsLive, PlannedFitsAll DEF Fits

\* So it is for whatever is about to be loaded.
LEMMA PlansAreUp ==
  ASSUME Exclusive, SerialInv, Bright, [Next]_vars, ~Fault, NEW a \in App, NEW q \in Proc,
         At(q, "load")', NEW cfg, cfg = job'[q].cfg
  PROVE  /\ cfg[a] # {} => \E n \in Release : <<n, 0>> \in cfg[a] /\ host'[a][<<n, 0>>] = "up"
         /\ route'[a] # {} => cfg[a] # {}
<1>0. /\ WorkInv /\ RolloutInv /\ GateInv /\ TypeInv /\ CourseInv /\ JobInv /\ LiveInv
      /\ StoreInv
  BY DEF SerialInv, WorkInv, RolloutInv
<1>1. CASE At(q, "load") /\ job'[q] = job[q]
  <2>1. \A p \in Proc : At(p, "load") => p = q
    BY <1>0, <1>1 DEF JobInv
  <2>2. route'[a] # {} => cfg[a] # {}
    <3>1. ASSUME NEW p \in Proc, At(p, "load"), route' = job[p].cfg, route'[a] # {}
          PROVE  cfg[a] # {}
      BY <1>1, <2>1, <3>1
    <3> QED
      BY <1>1, <3>1, RouteCases DEF Bright, AppBright
  <2>3. cfg[a] # {} => Live(a) /\ Zero(cfg, a) /\ (~unsettled[a] => Fits(cfg, a))
    BY <1>0, <1>1 DEF Bright, AppBright, LiveInv, JobInv, PlanFits
  <2> QED
    BY <2>2, <2>3, ZeroStays
<1>2. ASSUME Others(q), job[q].at # "load", NEW lost \in SUBSET App, ListingFails(lost),
             cfg = Planned(lost) \/ cfg = CarryOver(Planned(lost))
      PROVE  /\ cfg[a] # {} => \E n \in Release : <<n, 0>> \in cfg[a] /\ host'[a][<<n, 0>>] = "up"
             /\ route'[a] # {} => cfg[a] # {}
  <2>1. /\ cfg[a] # {} => Live(a)
        /\ Live(a) => <<ActiveOf(a), 0>> \in cfg[a]
        /\ Fits(cfg, a)
    BY <1>2, PlanOfLive
  <2>2. ASSUME Live(a)
        PROVE  Zero(cfg, a)
    BY <1>0, <2>1, <2>2, QueriesFindReleases DEF Bright, AppBright, Zero, Live
  <2>3. \A p \in Proc : ~At(p, "load")
    <3>1. JobInv'
      BY <1>0, RolloutInvStep DEF RolloutInv
    <3>2. \A p \in Proc : At(p, "load")' => p = q
      BY <3>1 DEF JobInv
    <3> QED
      BY <1>2, <3>2 DEF Others, At
  <2>4. route'[a] # {} => Live(a)
    BY <1>0, <2>3, RouteCases DEF LiveInv
  <2> QED
    BY <2>1, <2>2, <2>4, ZeroStays
<1>3. ASSUME Begins(q, job[q], job'[q]), q = "watcher"
      PROVE  /\ job[q].at = "idle"
             /\ \E lost \in SUBSET App : ListingFails(lost) /\ cfg = CarryOver(Planned(lost))
  BY <1>3, ProcFacts, NamesAssumption DEF Begins
<1>4. Plans(job[q], job'[q]) =>
        /\ job[q].at = "plan"
        /\ \E lost \in SUBSET App : ListingFails(lost) /\ cfg = Planned(lost)
  BY DEF Plans
<1> QED
  BY <1>0, <1>1, <1>2, <1>3, <1>4, LoadCases

LEMMA AppBrightStep ==
  ASSUME Exclusive, SerialInv, Bright, [Next]_vars, ~Fault, NEW a \in App
  PROVE  AppBright(a)'
<1>1. unsettled'[a] => Settling(a)'
  BY SettlingStep
<1>2. (Live(a) => host[a][<<ActiveOf(a), 0>>] = "up")'
  <2>1. PICK n : n = ActiveOf(a)'
    OBVIOUS
  <2> QED
    BY <2>1, LiveIsUp DEF Live
<1>3. (route[a] # {} => Zero(route, a))'
  <2>1. PICK r : r = route'[a]
    OBVIOUS
  <2> QED
    BY <2>1, RoutesAreUp DEF Zero
<1>4. ASSUME NEW q \in Proc, At(q, "load")'
      PROVE  (/\ job[q].cfg[a] # {} => Zero(job[q].cfg, a)
              /\ route[a] # {} => job[q].cfg[a] # {})'
  <2>1. PICK cfg : cfg = job'[q].cfg
    OBVIOUS
  <2> QED
    BY <1>4, <2>1, PlansAreUp DEF Zero
<1> QED
  BY <1>1, <1>2, <1>3, <1>4 DEF AppBright, At

\* What becomes of the work of a caller.
LEMMA CallBrightStep ==
  ASSUME Exclusive, Exclusive', SerialInv, Bright, [Next]_vars, ~Fault, NEW p \in Op
  PROVE  CallBright(job[p])'
<1> PICK a \in App : a = job'[p].app
  BY TypeInvStep, ProcFacts DEF SerialInv, WorkInv, TypeInv, Jobs, Job
<1> PICK n, cfg : n = job'[p].rel /\ cfg = job'[p].cfg
  OBVIOUS
<1> DEFINE j == job[p]
           k == job'[p]
<1>0. /\ RolloutInv /\ GateInv /\ TypeInv /\ CourseInv /\ StoreInv /\ SwitchInv /\ WorkInv
      /\ p \in Proc /\ p # "main" /\ k.app = a /\ k.rel = n /\ k.cfg = cfg
      /\ CallBright(j) /\ Switched(j) /\ Course(p, j)
  BY ProcFacts, NamesAssumption DEF SerialInv, WorkInv, RolloutInv, SwitchInv, Bright, CourseInv
<1>1. j = k \/ k = Idle \/ (Turn(p) /\ Others(p))
  BY <1>0, JobCases
<1>i. Idle.kind = "none" /\ Idle.at = "idle" /\ Idle.report = "none"
  BY DEF Idle
<1>2. ASSUME k.at = "activate"
      PROVE  host'[a][<<n, 0>>] = "up"
  <2> HIDE DEF j, k
  <2>1. CASE j = k
    <3>1. host[a][<<n, 0>>] = "up" /\ Busy(p) /\ n \in Release
      BY <1>0, <1>2, <2>1 DEF CallBright, Busy, RolloutInv, JobInv, Sound, Ahead, j
    <3> QED
      BY <1>0, <1>2, <2>1, <3>1, CallerGuards DEF j
  <2>2. CASE Turn(p) /\ k # Idle
    <3>1. Prepares(j, k)
      BY <1>0, <1>2, <2>2, FreshJobs DEF Turn, Ends, Begins, HealMeasured, Activates, Plans,
         Retries, Loads, Drains, Keeps, Removes, Stops, j, k
    <3>2. j.at = "gate" /\ j.app = a /\ j.rel = n /\ Ready(a, n, j.want)
      BY <1>0, <1>2, <3>1 DEF Prepares, Goes
    <3>3. j.want \in Nat \ {0} /\ 0 \in Index /\ n \in Release /\ Busy(p)
      BY <1>0, <3>2, BrokenAreReleases DEF GateInv, Measured, RolloutInv, JobInv, Sound, Ahead,
         Busy, j
    <3>4. host[a][<<n, 0>>] = "up"
      BY <3>2, <3>3 DEF Ready
    <3> QED
      BY <1>0, <3>2, <3>3, <3>4, CallerGuards DEF j
  <2> QED
    BY <1>1, <1>2, <1>i, <2>1, <2>2
<1>3. ASSUME k.kind \in Rollouts, k.at = "load"
      PROVE  cfg[a] # {}
  <2>1. CASE j = k
    BY <1>0, <1>3, <2>1 DEF CallBright
  <2>2. CASE Plans(j, k)
    <3>1. j.at = "plan" /\ j.app = a /\ j.kind \in Rollouts
      BY <1>0, <1>3, <2>2 DEF Plans, Goes
    <3>2. Live(a)
      BY <1>0, <3>1, NumbersAreNatural DEF Switched, Live
    <3>3. PICK lost \in SUBSET App : ListingFails(lost) /\ cfg = Planned(lost)
      BY <1>0, <2>2 DEF Plans
    <3> QED
      BY <3>2, <3>3, PlanOfLive
  <2> QED
    BY <1>0, <1>3, <2>1, <2>2, TailTurns DEF Activates, Loads, Drains
<1>4. ASSUME k.kind = "delete", k.at # "reply"
      PROVE  ~Live(a)'
  <2> HIDE DEF j, k
  <2>1. j = k \/ Others(p)
    BY <1>1, <1>4, <1>i
  <2>2. Busy(p)'
    <3>1. k.at # "idle"
      BY <1>0, <1>4, CourseInvStep DEF CourseInv, Course, Workers, k
    <3> QED
      BY <1>4, <3>1 DEF Busy, k
  <2>3. ~Live(a) /\ j.at # "activate"
    <3>1. CASE j = k
      BY <1>0, <1>4, <3>1 DEF CallBright, Course, Steps, Rollouts
    <3>2. CASE Turn(p) /\ k # Idle
      <4>1. Begins(p, j, k) \/ Goes(j, k)
        BY <1>0, <1>4, <3>2, FreshJobs DEF Turn, Ends, Prepares, HealMeasured, Activates,
           Plans, Retries, Loads, Drains, Keeps, Removes, Stops, Course, Steps, j, k
      <4>2. CASE Begins(p, j, k)
        BY <1>0, <1>4, <4>2 DEF Begins
      <4>3. CASE Goes(j, k) /\ ~Begins(p, j, k)
        <5>1. j.kind = "delete" /\ j.app = a
          BY <1>0, <1>4, <4>3 DEF Goes
        <5>2. j.at # "reply"
          BY <1>4, <3>2, <4>3, <5>1, <1>0, FreshJobs DEF Turn, Ends, Prepares, HealMeasured,
             Activates, Plans, Retries, Loads, Drains, Keeps, Removes, Stops, Ahead, j, k
        <5> QED
          BY <1>0, <5>1, <5>2 DEF CallBright, Course, Steps, Rollouts
      <4> QED
        BY <4>1, <4>2, <4>3
    <3> QED
      BY <1>1, <1>4, <1>i, <3>1, <3>2
  <2> SUFFICES ASSUME Live(a)' PROVE FALSE
    OBVIOUS
  <2>4. PICK q \in Proc : At(q, "activate") /\ job[q].app = a
    BY <1>0, <2>3, ActiveCases DEF Live
  <2>5. q \in Op /\ Busy(q) /\ q # p
    BY <1>0, <2>3, <2>4 DEF CourseInv, Course, Steps, Workers, Calls, Busy, At, j
  <2> QED
    BY <1>0, <2>1, <2>2, <2>4, <2>5, NoIntruder DEF j, k
<1>5. ASSUME k.report = "success"
      PROVE  k.at = "reply" /\ (k.kind \in Rollouts => k.moved)
  <2> HIDE DEF j, k
  <2>1. CASE j = k
    BY <1>0, <1>5, <2>1 DEF CallBright
  <2>2. CASE Turn(p) /\ k # Idle
    <3>1. CASE Ends(p, j, k)
      <4>1. k.at = "reply" /\ k.kind = j.kind
        BY <3>1 DEF Ends
      <4>2. ASSUME k.kind \in Rollouts
            PROVE  k.moved
        <5>1. /\ j.at \notin Removal
              /\ ~(j.at = "load" /\ j.cfg[j.app] = {})
              /\ j.at \in {"list", "drain"} => j.moved
          BY <1>0, <4>1, <4>2 DEF Course, Steps, Rollouts, CallBright, Switched
        <5> QED
          BY <1>5, <3>1, <4>1, <4>2, <5>1 DEF Ends
      <4> QED
        BY <4>1, <4>2
    <3>2. CASE ~Ends(p, j, k)
      <4>1. j.report = "success" /\ j.at # "reply"
        BY <1>0, <1>5, <2>2, <3>2 DEF Turn, Begins, Prepares, HealMeasured, Activates,
           Plans, Retries, Loads, Drains, Keeps, Removes, Stops, Goes, Ahead, j, k
      <4> QED
        BY <1>0, <4>1 DEF CallBright
    <3> QED
      BY <3>1, <3>2
  <2> QED
    BY <1>1, <1>5, <1>i, <2>1, <2>2
<1> QED
  BY <1>0, <1>2, <1>3, <1>4, <1>5 DEF CallBright, Live

BrightInv == faults = 0 => Bright

LEMMA BrightStep ==
  Exclusive /\ Exclusive' /\ SerialInv /\ BrightInv /\ [Next]_vars => BrightInv'
<1> SUFFICES ASSUME Exclusive, Exclusive', SerialInv, BrightInv, [Next]_vars, faults' = 0
             PROVE  Bright'
  BY DEF BrightInv
<1>1. faults = 0 /\ ~Fault
  BY NoFault DEF SerialInv, WorkInv
<1>2. Bright
  BY <1>1 DEF BrightInv
<1>3. \A a \in App : AppBright(a)'
  BY <1>1, <1>2, AppBrightStep
<1>4. \A p \in Op : CallBright(job[p])'
  BY <1>1, <1>2, CallBrightStep
<1> QED
  BY <1>3, <1>4 DEF Bright

LEMMA BrightInit == Init => Bright
<1> SUFFICES ASSUME Init PROVE Bright
  OBVIOUS
<1>1. \A p \in Proc : ~At(p, "load")
  BY DEF Init, At, AllIdle, Startup, Idle
<1>2. \A p \in Op : job[p] = Idle
  BY ProcFacts, NamesAssumption DEF Init, AllIdle
<1>3. \A p \in Op : CallBright(job[p])
  BY <1>2 DEF CallBright, Idle, Rollouts
<1>4. ASSUME NEW a \in App
      PROVE  AppBright(a)
  <2>1. route[a] = {} /\ ~unsettled[a] /\ history[a] = << >>
    BY DEF Init, StoreInit, NoRoutes
  <2>2. ~Live(a)
    BY <2>1 DEF Live, ActiveOf, OpenRows
  <2> QED
    BY <1>1, <2>1, <2>2 DEF AppBright
<1> QED
  BY <1>3, <1>4 DEF Bright

\* As long as nothing fails, and calls about the same app do not overlap,
\* every live release has its first replica up, and whatever is routed to, or
\* is about to be, has one that is up.
THEOREM StaysBright == Spec /\ []Exclusive => []BrightInv
<1>1. Spec /\ []Exclusive => []KeepInv
  BY KeepInvInit, KeepInvStep, WorkCorrect, PTL DEF Spec
<1>2. Init => BrightInv
  BY BrightInit DEF BrightInv
<1>3. WorkInv /\ KeepInv /\ SwitchInv => SerialInv
  BY DEF SerialInv
<1> QED
  BY <1>1, <1>2, <1>3, BrightStep, RolloutsStaySwitched, WorkCorrect, PTL DEF Spec

\* No downtime: as long as nothing fails, neither a deployment (good or bad), a
\* rollback, a prune, a change of scale nor a healing next to them takes a
\* reachable app off the air.
THEOREM NeverGoesDark == Spec /\ []Exclusive => NeverDark
<1>1. Spec /\ []Exclusive => []KeepInv
  BY KeepInvInit, KeepInvStep, WorkCorrect, PTL DEF Spec
<1>2. ASSUME Exclusive, Exclusive', SerialInv, BrightInv, [Next]_vars, faults' = 0,
             NEW a \in App, Served(a)
      PROVE  Served(a)'
  <2>1. faults = 0 /\ ~Fault
    BY <1>2, NoFault DEF SerialInv, WorkInv
  <2>2. route[a] # {}
    BY <1>2 DEF Served
  <2>3. route'[a] # {}
    BY <1>2, <2>1, <2>2, RoutesKept DEF BrightInv
  <2>4. PICK r : r = route'[a]
    OBVIOUS
  <2>5. \E n \in Release : <<n, 0>> \in r /\ host'[a][<<n, 0>>] = "up"
    BY <1>2, <2>1, <2>3, <2>4, RoutesAreUp DEF BrightInv
  <2> QED
    BY <2>4, <2>5 DEF Served
<1>3. WorkInv /\ KeepInv /\ SwitchInv => SerialInv
  BY DEF SerialInv
<1>4. Exclusive /\ Exclusive' /\ SerialInv /\ BrightInv /\ [Next]_vars =>
        [faults' = 0 => \A a \in App : Served(a) => Served(a)']_vars
  BY <1>2
<1> QED
  BY <1>1, <1>3, <1>4, StaysBright, RolloutsStaySwitched, WorkCorrect, PTL DEF Spec, NeverDark

\* "This release WENT live": a deployment or rollback reported as a success
\* moved the app's routes to its release, as long as nothing has failed.
THEOREM SuccessIsLive == Spec /\ []Exclusive => []SuccessMeansLive
<1>1. BrightInv => SuccessMeansLive
  BY DEF BrightInv, Bright, CallBright, SuccessMeansLive, Rollouts
<1> QED
  BY <1>1, StaysBright, PTL

\* One caller at a time is enough.
THEOREM OneCallerIsSafe ==
  ASSUME \A p, q \in Op : p = q
  PROVE  Spec => /\ [](NoOrphans /\ SuccessMeansLive)
                 /\ NeverDark /\ DrainSparesTraffic /\ PruneKeepsRollback
<1>1. Exclusive
  BY DEF Exclusive
<1> QED
  BY <1>1, NoneOrphaned, SuccessIsLive, NeverGoesDark, DrainsSpareTraffic, PrunesKeepRollback, PTL
=============================================================================
