------------------------------ MODULE RecordsProofs ------------------------------
(***************************************************************************)
(* Theorems about what the program keeps on disk and about the search      *)
(* whose results it keeps: the folds of WalkForward, for every geometry of *)
(* the windows; the configurations that Autopilot puts live, for every     *)
(* margin and every set of results; the files of Credentials and of        *)
(* Records, for every number of keys, writers, days, failures and kills.   *)
(***************************************************************************)
EXTENDS WalkForward, Autopilot, Credentials, Records, SetInduction

--------------------------------------------------------------------------------
(* The folds of the walk-forward search *)

Window == [train : Int \X Int, test : Int \X Int]

\* One fold by itself: its training window ends a purge before its test window,
\* which lies within the observations.
FoldSound(f) ==
  /\ 0 <= f.train[1]
  /\ f.train[1] < f.train[2]
  /\ f.train[2] + Purge <= f.test[1]
  /\ f.test[2] <= Bars

\* The next test window starts an embargo after every one found so far.
FoldsBehind == \A i \in 1..Len(folds) : folds[i].test[2] + Embargo <= testStart

Ordered ==
  \A i, j \in 1..Len(folds) : i < j => folds[i].test[2] + Embargo <= folds[j].test[1]

FoldsInv ==
  /\ testStart \in Nat
  /\ folds \in Seq(Window)
  /\ \A i \in 1..Len(folds) : FoldSound(folds[i])
  /\ FoldsBehind
  /\ Ordered

LEMMA FoldsInitially == WalkInit => FoldsInv
BY WalkForwardAssumption DEF WalkInit, FoldsInv, FoldsBehind, Ordered

\* A fold that is long enough to use is sound wherever it starts.
LEMMA UsableSound ==
  ASSUME NEW start \in Nat, start + TestSize <= Bars, Usable(FoldAt(start))
  PROVE  /\ FoldAt(start) \in Window
         /\ FoldSound(FoldAt(start))
         /\ FoldAt(start).test = <<start, start + TestSize>>
<1> USE WalkForwardAssumption
<1> DEFINE first == IF Anchored THEN 0 ELSE Max2(0, start - TrainSize)
           last  == TrainEnd(start, first)
<1>1. first \in Nat /\ last \in Int
  BY DEF Max2, TrainEnd
<1>2. FoldAt(start) = [train |-> <<first, last>>, test |-> <<start, start + TestSize>>]
  BY DEF FoldAt
<1> HIDE DEF first, last
<1>3. last - first >= MinTrain
  BY <1>1, <1>2 DEF Usable, Max2
<1>4. last = start - Purge \/ last = first
  BY DEF last, TrainEnd, Max2
<1>5. first < last /\ last + Purge <= start
  BY <1>1, <1>3, <1>4
<1>6. QED
  BY <1>1, <1>2, <1>5 DEF FoldSound, Window

LEMMA SplitKeeps ==
  ASSUME FoldsInv, Split
  PROVE  FoldsInv'
<1> USE WalkForwardAssumption
<1> DEFINE f == FoldAt(testStart)
<1>1. testStart \in Nat /\ testStart' = testStart + TestSize + Embargo
  BY DEF Split, FoldsInv
<1>2. CASE Usable(f)
  <2>1. folds' = Append(folds, f)
    BY <1>2 DEF Split
  <2>2. f \in Window /\ FoldSound(f) /\ f.test = <<testStart, testStart + TestSize>>
    BY <1>1, <1>2, UsableSound DEF Split
  <2> HIDE DEF f
  <2>3. folds' \in Seq(Window) /\ Len(folds') = Len(folds) + 1
    BY <2>1, <2>2 DEF FoldsInv
  <2>4. /\ \A i \in 1..Len(folds) : folds'[i] = folds[i]
        /\ folds'[Len(folds) + 1] = f
    BY <2>1 DEF FoldsInv
  <2>5. \A i \in 1..Len(folds) : folds[i] \in Window
    BY DEF FoldsInv
  <2>6. \A i \in 1..Len(folds') : FoldSound(folds'[i])
    BY <2>2, <2>3, <2>4 DEF FoldsInv
  <2>7. /\ f.test[1] = testStart /\ f.test[2] = testStart + TestSize
        /\ \A i \in 1..Len(folds) : folds[i].test[1] \in Int /\ folds[i].test[2] \in Int
        /\ Len(folds) \in Nat
    <3>1. f.test[1] = testStart /\ f.test[2] = testStart + TestSize
      BY <2>2
    <3>2. \A i \in 1..Len(folds) : folds[i].test[1] \in Int /\ folds[i].test[2] \in Int
      BY <2>5 DEF Window
    <3>3. Len(folds) \in Nat
      BY DEF FoldsInv
    <3>4. QED BY <3>1, <3>2, <3>3
  <2>8. FoldsBehind'
    <3> SUFFICES ASSUME NEW i \in 1..Len(folds')
                 PROVE  folds'[i].test[2] + Embargo <= testStart'
      BY DEF FoldsBehind
    <3>1. CASE i \in 1..Len(folds)
      <4>1. folds[i].test[2] + Embargo <= testStart
        BY <3>1 DEF FoldsInv, FoldsBehind
      <4>2. folds'[i] = folds[i]
        BY <2>4, <3>1
      <4>3. QED BY <1>1, <2>7, <3>1, <4>1, <4>2
    <3>2. CASE i = Len(folds) + 1
      <4>1. folds'[i] = f
        BY <2>4, <3>2
      <4>2. QED BY <1>1, <2>7, <4>1
    <3>3. QED BY <2>3, <2>7, <3>1, <3>2
  <2>9. Ordered'
    <3> SUFFICES ASSUME NEW i \in 1..Len(folds'), NEW j \in 1..Len(folds'), i < j
                 PROVE  folds'[i].test[2] + Embargo <= folds'[j].test[1]
      BY DEF Ordered
    <3>1. i \in 1..Len(folds) /\ folds'[i] = folds[i]
      BY <2>3, <2>4, <2>7
    <3>2. CASE j \in 1..Len(folds)
      <4>1. folds'[j] = folds[j]
        BY <2>4, <3>2
      <4>2. QED BY <3>1, <3>2, <4>1 DEF FoldsInv, Ordered
    <3>3. CASE j = Len(folds) + 1
      <4>1. folds'[j] = f
        BY <2>4, <3>3
      <4>2. folds[i].test[2] + Embargo <= testStart
        BY <3>1 DEF FoldsInv, FoldsBehind
      <4>3. QED BY <2>7, <3>1, <4>1, <4>2
    <3>4. QED BY <2>3, <2>7, <3>2, <3>3
  <2>10. QED
    BY <1>1, <2>3, <2>6, <2>8, <2>9 DEF FoldsInv, FoldSound
<1>3. CASE ~Usable(f)
  <2>1. folds' = folds
    BY <1>3 DEF Split
  <2>2. \A i \in 1..Len(folds) : folds[i] \in Window
    BY DEF FoldsInv
  <2>3. testStart' \in Nat
    BY <1>1
  <2>4. FoldsBehind'
    <3> SUFFICES ASSUME NEW i \in 1..Len(folds)
                 PROVE  folds[i].test[2] + Embargo <= testStart'
      BY <2>1 DEF FoldsBehind
    <3>1. folds[i].test[2] \in Int
      BY <2>2 DEF Window
    <3>2. folds[i].test[2] + Embargo <= testStart
      BY DEF FoldsInv, FoldsBehind
    <3>3. QED BY <1>1, <3>1, <3>2
  <2>5. Ordered'
    BY <2>1 DEF FoldsInv, Ordered
  <2>6. \A i \in 1..Len(folds') : FoldSound(folds'[i])
    BY <2>1 DEF FoldsInv
  <2>7. QED
    BY <2>1, <2>3, <2>4, <2>5, <2>6 DEF FoldsInv, FoldSound
<1>4. QED BY <1>2, <1>3

LEMMA FoldsStep == FoldsInv /\ [WalkNext]_walkVars => FoldsInv'
<1> SUFFICES ASSUME FoldsInv, [WalkNext]_walkVars
             PROVE  FoldsInv'
  OBVIOUS
<1>1. CASE Split
  BY <1>1, SplitKeeps
<1>2. CASE UNCHANGED <<testStart, folds>>
  BY <1>2 DEF FoldsInv, FoldsBehind, Ordered, FoldSound
<1>3. CASE SplitEnds \/ (\E sharpe \in Readings : Train(sharpe)) \/ TrainSkips \/ Test
  BY <1>2, <1>3 DEF SplitEnds, Train, TrainSkips, Test
<1>4. CASE UNCHANGED walkVars
  BY <1>2, <1>4 DEF walkVars
<1>5. QED BY <1>1, <1>3, <1>4 DEF WalkNext

\* Whatever the sizes of the windows, the purge and the embargo, and whether the
\* training window is anchored or rolls, no fold trains on a bar its test reaches
\* back to and no two test windows come closer than the embargo.
THEOREM FoldsStayApart == WalkSpec => []FoldsAreApart
<1>1. FoldsInv => FoldsAreApart
  BY DEF FoldsInv, FoldSound, Ordered, FoldsAreApart
<1>2. QED
  BY FoldsInitially, FoldsStep, <1>1, PTL DEF WalkSpec

--------------------------------------------------------------------------------
\* A configuration is known by its Sharpe, one at least the floor.
Recommended(c) == c \in Int /\ (c # Nothing => c >= Floor)

\* b betters a by the required margin.
Better(b, a) == b * 100 >= a * (100 + ImprovementPct)

\* What is approved and not yet live is the incumbent, and betters what is live;
\* when nothing waits, what is live is the incumbent.
QueueInv ==
  /\ restarts \in Nat
  /\ Recommended(incumbent) /\ Recommended(approved) /\ Recommended(live)
  /\ approved # Nothing => approved = incumbent
  /\ live # Nothing /\ approved = Nothing => incumbent = live
  /\ live # Nothing /\ approved # Nothing => Better(approved, live)

LEMMA QueueInitially == AutopilotInit => QueueInv
BY DEF AutopilotInit, QueueInv, Recommended, Nothing

\* What betters the better of two betters the other.
LEMMA BetterChains ==
  ASSUME NEW a \in Int, NEW b \in Nat, NEW c \in Int, Better(b, a), Better(c, b)
  PROVE  Better(c, a)
<1> DEFINE floorOfC == b * (100 + ImprovementPct)
           floorOfB == a * (100 + ImprovementPct)
<1>1. b * ImprovementPct \in Nat
  BY AutopilotAssumption
<1>2. floorOfC = b * 100 + b * ImprovementPct
  BY AutopilotAssumption
<1>3. floorOfB \in Int /\ b * 100 >= floorOfB /\ c * 100 >= floorOfC
  BY AutopilotAssumption DEF Better
<1> HIDE DEF floorOfB, floorOfC
<1>4. c * 100 >= floorOfB
  BY <1>1, <1>2, <1>3
<1>5. QED BY <1>4 DEF Better, floorOfB

\* A candidate that beats an incumbent betters it by the margin.
LEMMA PassingBetters ==
  ASSUME QueueInv, NEW sharpe \in Sharpes, NEW sound \in BOOLEAN, Passes(sharpe, sound)
  PROVE  /\ sharpe \in Int /\ sharpe >= Floor /\ sharpe # Nothing
         /\ incumbent # Nothing => Better(sharpe, incumbent)
<1>1. sharpe \in Int /\ sharpe >= Floor /\ Beats(sharpe)
  BY AutopilotAssumption DEF Passes
<1>2. incumbent # Nothing => incumbent \in Int /\ incumbent > 0
  BY AutopilotAssumption DEF QueueInv, Recommended
<1>3. incumbent # Nothing => Better(sharpe, incumbent)
  BY <1>1, <1>2 DEF Beats, Better
<1>4. QED BY <1>1, <1>3, AutopilotAssumption DEF Nothing

\* What goes live betters what it replaces.
Improves ==
  live' # live /\ live # Nothing /\ restarts' = restarts => Better(live', live)

LEMMA AppliedKeeps ==
  ASSUME QueueInv, Applied, UNCHANGED <<incumbent, restarts>>
  PROVE  QueueInv' /\ Improves
<1>1. CASE approved # Nothing /\ ~believed
  <2>1. live' = approved /\ approved' = Nothing
    BY <1>1 DEF Applied
  <2>2. QED BY <1>1, <2>1 DEF QueueInv, Recommended, Improves, Better, Nothing
<1>2. CASE ~(approved # Nothing /\ ~believed)
  <2>1. live' = live /\ approved' = approved
    BY <1>2 DEF Applied
  <2>2. QED BY <2>1 DEF QueueInv, Recommended, Improves, Better
<1>3. QED BY <1>1, <1>2

LEMMA RoundKeeps ==
  ASSUME QueueInv, NEW sharpe \in Sharpes, NEW sound \in BOOLEAN, NEW usable \in BOOLEAN,
         RoundEnds(sharpe, sound, usable)
  PROVE  QueueInv' /\ Improves
<1>1. CASE Passes(sharpe, sound) /\ usable
  <2>1. /\ sharpe \in Int /\ sharpe >= Floor /\ sharpe # Nothing
        /\ incumbent # Nothing => Better(sharpe, incumbent)
    BY <1>1, PassingBetters
  <2>2. live # Nothing => Better(sharpe, live)
    <3>1. CASE live # Nothing /\ approved = Nothing
      BY <2>1, <3>1 DEF QueueInv
    <3>2. CASE live # Nothing /\ approved # Nothing
      <4>1. approved \in Nat /\ live \in Int
        BY <3>2, AutopilotAssumption DEF QueueInv, Recommended
      <4>2. Better(approved, live) /\ Better(sharpe, approved)
        BY <2>1, <3>2 DEF QueueInv
      <4>3. QED BY <2>1, <4>1, <4>2, BetterChains
    <3>3. QED BY <3>1, <3>2
  <2>3. incumbent' = sharpe /\ restarts' = restarts
    BY <1>1 DEF RoundEnds
  <2>4. CASE believed
    <3>1. approved' = sharpe /\ live' = live
      BY <1>1, <2>4 DEF RoundEnds
    <3>2. QED BY <2>1, <2>2, <2>3, <3>1 DEF QueueInv, Recommended, Improves, Better
  <2>5. CASE ~believed
    <3>1. approved' = Nothing /\ live' = sharpe
      BY <1>1, <2>5 DEF RoundEnds
    <3>2. QED BY <2>1, <2>2, <2>3, <3>1 DEF QueueInv, Recommended, Improves, Better, Nothing
  <2>6. QED BY <2>4, <2>5
<1>2. CASE ~(Passes(sharpe, sound) /\ usable)
  BY <1>2, AppliedKeeps DEF RoundEnds
<1>3. QED BY <1>1, <1>2

LEMMA QueueStep == QueueInv /\ [AutopilotNext]_autopilotVars => QueueInv' /\ Improves
<1> SUFFICES ASSUME QueueInv, [AutopilotNext]_autopilotVars
             PROVE  QueueInv' /\ Improves
  OBVIOUS
<1>1. CASE UNCHANGED <<incumbent, approved, live, restarts>>
  BY <1>1 DEF QueueInv, Recommended, Improves, Better
<1>2. CASE PollIdle
  BY <1>2, AppliedKeeps DEF PollIdle
<1>3. CASE PollSearch \/ RoundRaises \/ Clock \/ Measure \/ EngineTrades
  BY <1>1, <1>3 DEF PollSearch, RoundRaises, Clock, Measure, EngineTrades
<1>4. CASE Restart
  <2>1. incumbent' = Nothing /\ approved' = Nothing /\ live' = Nothing
    BY <1>4 DEF Restart
  <2>2. restarts' = restarts + 1
    BY <1>4 DEF Restart
  <2>3. QED BY <2>1, <2>2 DEF QueueInv, Recommended, Improves, Nothing
<1>5. CASE \E sharpe \in Sharpes, sound, usable \in BOOLEAN : RoundEnds(sharpe, sound, usable)
  BY <1>5, RoundKeeps
<1>6. CASE UNCHANGED autopilotVars
  BY <1>1, <1>6 DEF autopilotVars
<1>7. QED BY <1>2, <1>3, <1>4, <1>5, <1>6 DEF AutopilotNext

\* While a process lives, every configuration that goes live betters the one it
\* replaces by the required margin, whatever the results of the rounds and however
\* many of them are approved before the book is flat: the bar is the configuration
\* approved last, and one waiting betters what it will replace.
THEOREM LiveOnlyImproves == AutopilotSpec => LiveImproves
<1>1. Improves => (live' # live /\ live # Nothing /\ restarts' = restarts
                     => live' * 100 >= live * (100 + ImprovementPct))
  BY DEF Improves, Better
<1>2. QED
  BY QueueInitially, QueueStep, <1>1, PTL DEF AutopilotSpec, LiveImproves

--------------------------------------------------------------------------------
(* The store of the keys, while requests come one at a time *)

Stores == [Keys -> Levels]
WriterStates ==
  [pc : {"idle", "changed", "composed", "opened", "written"}, kind : Kinds \cup {"none"},
   key : Keys \cup {"none"}, level : Levels, image : Stores, inode : Inodes \cup {None}]

CredentialTypes ==
  /\ mem \in Stores /\ content \in [Inodes -> Stores \cup {Unreadable}]
  /\ file \in Inodes \cup {None} /\ temp \in Inodes \cup {None}
  /\ writer \in [Writers -> WriterStates] /\ revoked \subseteq Keys

\* How far a save has come, and what it has left to do.
SaveInOrder(w) ==
  /\ writer[w].key \in Keys
  /\ writer[w].pc \in {"changed", "composed"} => writer[w].inode = None
  /\ writer[w].pc \in {"composed", "opened", "written"} => writer[w].image = mem
  /\ writer[w].pc \in {"opened", "written"} => temp # None /\ writer[w].inode = temp
  /\ writer[w].pc = "opened" => content[temp] = Unreadable
  /\ writer[w].pc = "written" => content[temp] = mem
  /\ writer[w].kind # "secret" /\ writer[w].level # "trading" =>
       mem[writer[w].key] = writer[w].level

OneSaving ==
  /\ CredentialTypes
  /\ \A v, w \in Busy : v = w
  /\ \A w \in Busy : SaveInOrder(w)
  /\ temp # None => temp # file
  /\ file # None => content[file] # Unreadable
  /\ \A k \in revoked : mem[k] # "trading" /\ OnDisk[k] # "trading"

CredentialsInv == ~overlapped => OneSaving

LEMMA TwoInodes == Inodes \subseteq Nat /\ 1 \in Inodes /\ 2 \in Inodes /\ None \notin Inodes
<1>1. Cardinality(Writers) \in Nat
  BY CredentialsAssumption, FS_CardinalityType
<1>2. QED
  BY <1>1 DEF Inodes, None

LEMMA StoreIsReadable ==
  ASSUME NEW key \in Keys
  PROVE  Unreadable \notin Stores
  BY DEF Unreadable, Stores, Levels

\* The temporary file of the only save is not the file there is.
LEMMA FreshIsNew ==
  ASSUME OneSaving, NEW w \in Busy, writer[w].pc = "composed"
  PROVE  temp = None => Fresh \in Inodes /\ Fresh # file
<1>1. {writer[v].inode : v \in Busy} = {None}
  BY DEF OneSaving, SaveInOrder
<1>2. SUFFICES ASSUME temp = None
               PROVE  Fresh \in Inodes /\ Fresh # file
  OBVIOUS
<1>3. \E i \in Inodes : i \notin {file, temp} \cup {writer[v].inode : v \in Busy}
  BY <1>1, <1>2, TwoInodes
<1>4. QED
  BY <1>3 DEF Fresh

\* A step of one writer, while no other saves.
LEMMA WriterMoves ==
  ASSUME OneSaving, NEW w \in Writers, \A v \in Busy : v = w,
         NEW state \in WriterStates, writer' = [writer EXCEPT ![w] = state]
  PROVE  /\ writer' \in [Writers -> WriterStates] /\ writer'[w] = state
         /\ \A v \in Busy' : v = w
         /\ state.pc = "idle" => Busy' = {}
  BY DEF OneSaving, CredentialTypes, Busy

LEMMA RequestKeepsStore ==
  ASSUME OneSaving, NEW w \in Writers, NEW kind \in Kinds, NEW key \in Keys,
         NEW level \in Levels, Request(w, kind, key, level), ~overlapped'
  PROVE  OneSaving'
<1> DEFINE state == [Idle EXCEPT !.pc = "changed", !.kind = kind, !.key = key, !.level = level]
<1>1. /\ Busy = {} /\ UNCHANGED <<file, temp, content>>
      /\ writer' = [writer EXCEPT ![w] = state]
      /\ mem' = IF kind = "secret" THEN mem ELSE [mem EXCEPT ![key] = level]
      /\ revoked' = IF level = "trading" THEN revoked \ {key} ELSE revoked
      /\ kind = "secret" => level = "absent"
  BY DEF Request
<1>2. /\ state.pc = "changed" /\ state.kind = kind /\ state.key = key /\ state.level = level
      /\ state.inode = None /\ state \in WriterStates
  BY DEF Idle, WriterStates, Stores, Empty, Levels, Kinds
<1> HIDE DEF state
<1>3. writer' \in [Writers -> WriterStates] /\ writer'[w] = state /\ \A v \in Busy' : v = w
  BY <1>1, <1>2, WriterMoves
<1>4. mem' \in Stores /\ \A k \in Keys : mem'[k] = IF kind # "secret" /\ k = key THEN level ELSE mem[k]
  BY <1>1 DEF OneSaving, CredentialTypes, Stores
<1>5. CredentialTypes'
  BY <1>1, <1>3, <1>4 DEF OneSaving, CredentialTypes
<1>6. SaveInOrder(w)'
  BY <1>2, <1>3, <1>4 DEF SaveInOrder
<1>7. OnDisk' = OnDisk
  BY <1>1 DEF OnDisk
<1>8. \A k \in revoked' : mem'[k] # "trading" /\ OnDisk'[k] # "trading"
  BY <1>1, <1>4, <1>7 DEF OneSaving, CredentialTypes
<1>9. QED
  BY <1>1, <1>3, <1>5, <1>6, <1>8 DEF OneSaving

\* A save begins, or it fails: the files are as they were.
LEMMA SaveBeginsOrFails ==
  ASSUME OneSaving, NEW w \in Writers, Snapshot(w) \/ SaveFails(w)
  PROVE  OneSaving'
<1>1. UNCHANGED <<mem, file, temp, content, revoked>> /\ w \in Busy
  BY DEF Snapshot, SaveFails, Busy
<1>2. \A v \in Busy : v = w
  BY <1>1 DEF OneSaving
<1>3. OnDisk' = OnDisk
  BY <1>1 DEF OnDisk
<1>4. CASE Snapshot(w)
  <2> DEFINE state == [writer[w] EXCEPT !.pc = "composed", !.image = mem]
  <2>1. writer' = [writer EXCEPT ![w] = state] /\ writer[w].pc = "changed"
    BY <1>4 DEF Snapshot, Image
  <2>2. writer[w] \in WriterStates /\ mem \in Stores
    BY DEF OneSaving, CredentialTypes
  <2>3. /\ state.pc = "composed" /\ state.image = mem /\ state.inode = writer[w].inode
        /\ state.key = writer[w].key /\ state.kind = writer[w].kind
        /\ state.level = writer[w].level /\ state \in WriterStates
    BY <2>2 DEF WriterStates
  <2> HIDE DEF state
  <2>4. writer' \in [Writers -> WriterStates] /\ writer'[w] = state /\ \A v \in Busy' : v = w
    BY <1>2, <2>1, <2>3, WriterMoves
  <2>5. SaveInOrder(w)'
    BY <1>1, <2>1, <2>3, <2>4 DEF OneSaving, SaveInOrder
  <2>6. QED
    BY <1>1, <1>3, <2>4, <2>5 DEF OneSaving, CredentialTypes
<1>5. CASE SaveFails(w)
  <2>1. writer' = [writer EXCEPT ![w] = Idle]
    BY <1>5 DEF SaveFails, Ended
  <2>2. Idle \in WriterStates /\ Idle.pc = "idle"
    BY DEF Idle, WriterStates, Stores, Empty, Levels
  <2>3. writer' \in [Writers -> WriterStates] /\ Busy' = {}
    BY <1>2, <2>1, <2>2, WriterMoves
  <2>4. QED
    BY <1>1, <1>3, <2>3 DEF OneSaving, CredentialTypes
<1>6. QED
  BY <1>4, <1>5

LEMMA OpenKeepsStore ==
  ASSUME OneSaving, NEW w \in Writers, Open(w)
  PROVE  OneSaving'
<1> DEFINE state == [writer[w] EXCEPT !.pc = "opened", !.inode = Target]
<1>1. /\ UNCHANGED <<mem, file, revoked>> /\ w \in Busy /\ writer[w].pc = "composed"
      /\ temp' = Target /\ content' = [content EXCEPT ![Target] = Unreadable]
      /\ writer' = [writer EXCEPT ![w] = state]
  BY DEF Open, Busy
<1>2. \A v \in Busy : v = w
  BY <1>1 DEF OneSaving
<1>3. Target \in Inodes /\ Target # file /\ Target # None
  BY <1>1, FreshIsNew, TwoInodes DEF OneSaving, CredentialTypes, Target
<1>4. writer[w] \in WriterStates
  BY DEF OneSaving, CredentialTypes
<1>5. /\ state.pc = "opened" /\ state.image = writer[w].image /\ state.inode = Target
      /\ state.key = writer[w].key /\ state.kind = writer[w].kind
      /\ state.level = writer[w].level /\ state \in WriterStates
  BY <1>3, <1>4 DEF WriterStates
<1> HIDE DEF state
<1>6. writer' \in [Writers -> WriterStates] /\ writer'[w] = state /\ \A v \in Busy' : v = w
  BY <1>1, <1>2, <1>5, WriterMoves
<1>7. CredentialTypes'
  BY <1>1, <1>3, <1>6 DEF OneSaving, CredentialTypes
<1>8. SaveInOrder(w)'
  <2>1. content'[Target] = Unreadable
    BY <1>1, <1>3 DEF OneSaving, CredentialTypes
  <2>2. SaveInOrder(w)
    BY <1>1 DEF OneSaving
  <2>3. temp' = Target /\ mem' = mem /\ Target # None /\ writer'[w] = state
    BY <1>1, <1>3, <1>6
  <2>4. state.pc = "opened" /\ writer[w].pc = "composed"
    BY <1>1, <1>5
  <2>5. QED
    BY <1>5, <2>1, <2>2, <2>3, <2>4 DEF SaveInOrder
<1>9. (file # None => content'[file] = content[file]) /\ OnDisk' = OnDisk
  BY <1>1, <1>3 DEF OneSaving, CredentialTypes, OnDisk
<1>10. QED
  BY <1>1, <1>3, <1>6, <1>7, <1>8, <1>9 DEF OneSaving

LEMMA WriteKeepsStore ==
  ASSUME OneSaving, NEW w \in Writers, Write(w)
  PROVE  OneSaving'
<1> DEFINE state == [writer[w] EXCEPT !.pc = "written"]
<1>1. /\ UNCHANGED <<mem, file, temp, revoked>> /\ w \in Busy /\ writer[w].pc = "opened"
      /\ writer' = [writer EXCEPT ![w] = state]
  BY DEF Write, Busy
<1>2. \A v \in Busy : v = w
  BY <1>1 DEF OneSaving
<1>3. SaveInOrder(w) /\ writer[w] \in WriterStates
  BY <1>1 DEF OneSaving, CredentialTypes
<1>4. temp \in Inodes /\ temp # file /\ writer[w].inode = temp /\ writer[w].image = mem
  BY <1>1, <1>3 DEF OneSaving, CredentialTypes, SaveInOrder
<1>5. content' = [content EXCEPT ![temp] = mem]
  BY <1>1, <1>3, <1>4 DEF Write, SaveInOrder
<1>6. state.pc = "written" /\ state.image = mem /\ state.inode = temp
      /\ state.key = writer[w].key /\ state.kind = writer[w].kind
      /\ state.level = writer[w].level /\ state \in WriterStates
  BY <1>3, <1>4 DEF WriterStates
<1> HIDE DEF state
<1>7. writer' \in [Writers -> WriterStates] /\ writer'[w] = state /\ \A v \in Busy' : v = w
  BY <1>1, <1>2, <1>6, WriterMoves
<1>8. CredentialTypes'
  BY <1>1, <1>5, <1>7 DEF OneSaving, CredentialTypes
<1>9. SaveInOrder(w)'
  <2>1. content'[temp] = mem
    BY <1>4, <1>5 DEF OneSaving, CredentialTypes
  <2>2. temp # None
    BY <1>1, <1>3 DEF SaveInOrder
  <2>3. QED
    BY <1>1, <1>3, <1>6, <1>7, <2>1, <2>2 DEF SaveInOrder
<1>10. (file # None => content'[file] = content[file]) /\ OnDisk' = OnDisk
  BY <1>1, <1>4, <1>5 DEF OneSaving, CredentialTypes, OnDisk
<1>11. QED
  BY <1>1, <1>4, <1>7, <1>8, <1>9, <1>10 DEF OneSaving

LEMMA ReplaceKeepsStore ==
  ASSUME OneSaving, NEW w \in Writers, Replace(w)
  PROVE  OneSaving'
<1>1. /\ UNCHANGED <<mem, content>> /\ w \in Busy /\ writer[w].pc = "written"
      /\ writer' = [writer EXCEPT ![w] = Idle] /\ temp' = None
  BY DEF Replace, Busy, Ended
<1>2. \A v \in Busy : v = w
  BY <1>1 DEF OneSaving
<1>3. SaveInOrder(w)
  BY <1>1 DEF OneSaving
<1>4. temp # None /\ file' = temp /\ content[temp] = mem
      /\ revoked' = IF writer[w].level # "trading" /\ writer[w].kind # "secret"
                    THEN revoked \cup {writer[w].key} ELSE revoked
  BY <1>1, <1>3 DEF Replace, SaveInOrder
<1>5. Idle \in WriterStates /\ Idle.pc = "idle"
  BY DEF Idle, WriterStates, Stores, Empty, Levels
<1>6. writer' \in [Writers -> WriterStates] /\ Busy' = {}
  BY <1>1, <1>2, <1>5, WriterMoves
<1>7. writer[w].key \in Keys /\ temp \in Inodes
  BY <1>3, <1>4 DEF OneSaving, CredentialTypes, SaveInOrder
<1>8. CredentialTypes'
  BY <1>1, <1>4, <1>6, <1>7 DEF OneSaving, CredentialTypes
<1>9. content'[file'] = mem /\ mem # Unreadable
  BY <1>1, <1>4, <1>7, StoreIsReadable DEF OneSaving, CredentialTypes
<1>10. OnDisk' = mem
  BY <1>1, <1>4, <1>9 DEF OnDisk
<1>11. \A k \in revoked' : mem'[k] # "trading" /\ OnDisk'[k] # "trading"
  <2>1. \A k \in revoked : mem[k] # "trading"
    BY DEF OneSaving
  <2>2. writer[w].level # "trading" /\ writer[w].kind # "secret" => mem[writer[w].key] # "trading"
    BY <1>3 DEF SaveInOrder
  <2>3. QED
    BY <1>1, <1>4, <1>10, <2>1, <2>2
<1>12. QED
  BY <1>1, <1>6, <1>8, <1>9, <1>11 DEF OneSaving

LEMMA KillKeepsStore ==
  ASSUME OneSaving, KillRestart
  PROVE  OneSaving'
<1>1. /\ UNCHANGED <<file, temp, content, revoked>> /\ mem' = OnDisk
      /\ writer' = [w \in Writers |-> Idle]
  BY DEF KillRestart
<1>2. OnDisk' = OnDisk
  BY <1>1 DEF OnDisk
<1>3. OnDisk \in Stores
  BY DEF OneSaving, CredentialTypes, OnDisk, Empty, Stores, Levels
<1>4. Idle \in WriterStates /\ Idle.pc = "idle"
  BY DEF Idle, WriterStates, Stores, Empty, Levels
<1>5. writer' \in [Writers -> WriterStates] /\ Busy' = {}
  BY <1>1, <1>4 DEF Busy
<1>6. QED
  BY <1>1, <1>2, <1>3, <1>5 DEF OneSaving, CredentialTypes

LEMMA CredentialsStep ==
  CredentialsInv /\ [CredentialsNext]_credentialVars => CredentialsInv'
<1> SUFFICES ASSUME CredentialsInv, [CredentialsNext]_credentialVars, ~overlapped'
             PROVE  OneSaving'
  BY DEF CredentialsInv
<1>1. OneSaving
  BY DEF CredentialsInv, CredentialsNext, credentialVars, Request, Snapshot, Open, Write, Replace,
         SaveFails, KillRestart
<1>2. CASE UNCHANGED credentialVars
  BY <1>1, <1>2
     DEF credentialVars, OneSaving, CredentialTypes, Busy, SaveInOrder, OnDisk
<1>3. QED
  BY <1>1, <1>2, RequestKeepsStore, SaveBeginsOrFails, OpenKeepsStore, WriteKeepsStore,
     ReplaceKeepsStore, KillKeepsStore DEF CredentialsNext

LEMMA CredentialsInvInit == CredentialsInit => CredentialsInv
<1> SUFFICES ASSUME CredentialsInit
             PROVE  OneSaving
  BY DEF CredentialsInv
<1>1. Idle \in WriterStates /\ Idle.pc = "idle"
  BY DEF Idle, WriterStates, Stores, Empty, Levels
<1>2. Busy = {} /\ writer \in [Writers -> WriterStates]
  BY <1>1 DEF CredentialsInit, Busy
<1>3. mem \in Stores
  BY DEF CredentialsInit, Empty, Stores, Levels
<1>4. CredentialTypes
  BY <1>2, <1>3 DEF CredentialsInit, CredentialTypes
<1>5. QED
  BY <1>2, <1>4 DEF CredentialsInit, OneSaving

\* While requests come one at a time, credentials.json can always be read (save
\* writes a temporary file and replaces the old one with it), whichever save fails
\* and whenever the process is killed.
THEOREM FileStaysWhole == CredentialsSpec => []FileIsWhole
<1>1. CredentialsInit => CredentialsInv
  BY CredentialsInvInit
<1>2. CredentialsInv /\ [CredentialsNext]_credentialVars => CredentialsInv'
  BY CredentialsStep
<1>3. CredentialsInv => FileIsWhole
  BY DEF CredentialsInv, OneSaving, FileIsWhole
<1>4. QED
  BY <1>1, <1>2, <1>3, PTL DEF CredentialsSpec

\* Nor does a key whose revocation or removal was answered come back, in memory or
\* from the file after a restart, among those that tradeable picks from.
THEOREM RevokedStaysRevoked == CredentialsSpec => []RevocationSurvives
<1>1. CredentialsInit => CredentialsInv
  BY CredentialsInvInit
<1>2. CredentialsInv /\ [CredentialsNext]_credentialVars => CredentialsInv'
  BY CredentialsStep
<1>3. CredentialsInv => RevocationSurvives
  BY DEF CredentialsInv, OneSaving, RevocationSurvives, Tradeable
<1>4. QED
  BY <1>1, <1>2, <1>3, PTL DEF CredentialsSpec

--------------------------------------------------------------------------------
(* Records: the lines of a file and the entries a reader finds in them *)

LineSet(E) == {Garbled} \cup {Line(e) : e \in E}
LogSet(E) == [lines : Seq(LineSet(E)), open : BOOLEAN]

\* A file of entries of E; only a file with a line can end in one that is not closed.
IsLog(log, E) == log \in LogSet(E) /\ (log.open => log.lines # <<>>)

\* The entries among the first k lines.
KeptIn(lines, k) == {lines[i].entry : i \in {j \in 1..k : ~lines[j].garbled}}
Kept(log) == KeptIn(log.lines, Len(log.lines))

\* What a reader has found after one more line.
ReadOn(read, l) == IF l.garbled THEN read ELSE Append(read, l.entry)

\* f[k] is what a reader has found after the first k lines.
ReadingUpTo(f, lines) ==
  /\ f[0] = <<>>
  /\ \A k \in 0..(Len(lines) - 1) : f[k + 1] = ReadOn(f[k], lines[k + 1])

LEMMA LinesAre ==
  ASSUME NEW E, NEW l \in LineSet(E)
  PROVE  /\ l.garbled \in BOOLEAN
         /\ ~l.garbled => l.entry \in E /\ l = Line(l.entry)
         /\ l.garbled => l = Garbled
<1>1. CASE l = Garbled
  BY <1>1 DEF Garbled
<1>2. CASE l # Garbled
  <2>1. PICK e \in E : l = Line(e) BY <1>2 DEF LineSet
  <2>2. l.garbled = FALSE /\ l.entry = e BY <2>1 DEF Line
  <2>3. QED BY <2>1, <2>2
<1>3. QED
  BY <1>1, <1>2

LEMMA ReadingIsStepwise ==
  ASSUME NEW E, NEW lines \in Seq(LineSet(E)), NEW log, log.lines = lines
  PROVE  \E f : ReadingUpTo(f, lines) /\ Entries(log) = f[Len(lines)]
<1> DEFINE n == Len(lines)
           V == Seq(E)
           H == [i \in 1..n |-> [v \in V |-> ReadOn(v, lines[i])]]
           Fold(g) == g = [T \in SUBSET (1..n) |->
                             IF T = {} THEN <<>>
                             ELSE ReadOn(g[T \ {LastOf(T)}], lines[LastOf(T)])]
           g0 == CHOOSE g : Fold(g)
<1>1. n \in Nat /\ <<>> \in V /\ DOMAIN lines = 1..n
  OBVIOUS
<1>2. ASSUME NEW i \in 1..n, NEW v \in V
      PROVE  H[i][v] = ReadOn(v, lines[i]) /\ H[i][v] \in V
  <2>1. lines[i] \in LineSet(E) OBVIOUS
  <2>2. ~lines[i].garbled => lines[i].entry \in E
    BY <2>1, LinesAre
  <2>3. ReadOn(v, lines[i]) \in V BY <2>2 DEF ReadOn
  <2>4. QED BY <2>3
<1>3. \E g : FoldSolution(g, n, V, <<>>, H)
  <2>1. IsFold(n, V, <<>>, H)
    BY <1>1, <1>2 DEF IsFold
  <2> HIDE DEF n, V, H
  <2>2. QED BY <2>1, FoldExists
<1>4. \E g : Fold(g)
  <2>1. PICK g \in [SUBSET (1..n) -> V] : \A T \in SUBSET (1..n) :
               g[T] = IF T = {} THEN <<>> ELSE H[LastOf(T)][g[T \ {LastOf(T)}]]
    BY <1>3 DEF FoldSolution
  <2>2. ASSUME NEW T \in SUBSET (1..n), T # {}
        PROVE  g[T] = ReadOn(g[T \ {LastOf(T)}], lines[LastOf(T)])
    <3>1. LastOf(T) \in 1..n
      <4>1. LastOf(T) \in T BY <1>1, <2>2, LastIsThere
      <4>2. QED BY <4>1
    <3>2. g[T \ {LastOf(T)}] \in V BY <2>1
    <3>3. g[T] = H[LastOf(T)][g[T \ {LastOf(T)}]] BY <2>1, <2>2
    <3>4. QED
      <4> HIDE DEF H, V, n
      <4> QED BY <1>2, <3>1, <3>2, <3>3
  <2>3. Fold(g)
    <3> HIDE DEF H, V, n
    <3> QED BY <2>1, <2>2
  <2>4. QED BY <2>3
<1>5. Fold(g0)
  <2> HIDE DEF Fold
  <2> QED BY <1>4
<1>6. Entries(log) = g0[1..n]
  BY <1>1 DEF Entries, FoldLeft, MapThenFoldSet, Max, LastOf, ReadOn
<1> DEFINE f == [k \in 0..n |-> g0[1..k]]
<1>7. f[0] = <<>>
  <2>1. 1..0 = {} /\ {} \in SUBSET (1..n) OBVIOUS
  <2>2. g0[{}] = <<>> BY <1>5
  <2>3. QED BY <1>1, <2>1, <2>2
<1>8. ASSUME NEW k \in 0..(n - 1) PROVE f[k + 1] = ReadOn(f[k], lines[k + 1])
  <2>1. /\ k \in Nat /\ k \in 0..n /\ k + 1 \in 0..n
        /\ 1..(k + 1) \in SUBSET (1..n) /\ 1..(k + 1) # {}
    <3> HIDE DEF n, f
    <3>1. k \in Nat /\ k \in 0..n /\ k + 1 \in 0..n BY <1>1
    <3>2. 1 \in 1..(k + 1) BY <3>1
    <3>3. \A i \in 1..(k + 1) : i \in 1..n BY <1>1, <3>1
    <3>4. QED BY <3>1, <3>2, <3>3
  <2>2. LastOf(1..(k + 1)) = k + 1 /\ (1..(k + 1)) \ {k + 1} = 1..k
    BY <2>1, LastOfPrefix
  <2>3. g0[1..(k + 1)] = ReadOn(g0[(1..(k + 1)) \ {LastOf(1..(k + 1))}],
                                lines[LastOf(1..(k + 1))])
    <3> HIDE DEF n, g0
    <3> QED BY <1>5, <2>1
  <2>4. QED
    <3> HIDE DEF n, g0
    <3> QED BY <2>1, <2>2, <2>3
<1>9. f[n] = g0[1..n]
  BY <1>1
<1>10. ReadingUpTo(f, lines) /\ Entries(log) = f[Len(lines)]
  <2> HIDE DEF f, g0
  <2> QED BY <1>6, <1>7, <1>8, <1>9 DEF ReadingUpTo
<1>11. QED
  <2> HIDE DEF f
  <2> QED BY <1>10

\* A reader that skips what it cannot parse finds every entry that a line holds.
LEMMA EntriesAreKept ==
  ASSUME NEW E, NEW log, IsLog(log, E)
  PROVE  /\ Entries(log) \in Seq(E)
         /\ ToSetOf(Entries(log)) = Kept(log)
<1> DEFINE lines == log.lines
<1>1. lines \in Seq(LineSet(E)) /\ Len(lines) \in Nat
  BY DEF IsLog, LogSet
<1>2. PICK f : ReadingUpTo(f, lines) /\ Entries(log) = f[Len(lines)]
  <2> HIDE DEF lines
  <2>1. log.lines = lines BY DEF lines
  <2>2. QED BY <1>1, <2>1, ReadingIsStepwise
<1> DEFINE Found(k) == f[k] \in Seq(E) /\ ToSetOf(f[k]) = KeptIn(lines, k)
           T == {k \in Nat : k <= Len(lines) => Found(k)}
<1> HIDE DEF lines
<1>3. 0 \in T
  <2>1. f[0] = <<>> BY <1>2 DEF ReadingUpTo
  <2>2. <<>> \in Seq(E) /\ ToSetOf(<<>>) = {} BY DEF ToSetOf
  <2>3. KeptIn(lines, 0) = {} BY DEF KeptIn
  <2>4. QED BY <2>1, <2>2, <2>3
<1>4. ASSUME NEW k \in Nat, k \in T PROVE k + 1 \in T
  <2>1. SUFFICES ASSUME k + 1 <= Len(lines) PROVE Found(k + 1)
    OBVIOUS
  <2>2. k \in 0..(Len(lines) - 1) /\ k <= Len(lines) /\ k + 1 \in 1..Len(lines)
    BY <1>1, <2>1
  <2>3. f[k] \in Seq(E) /\ ToSetOf(f[k]) = KeptIn(lines, k)
    BY <1>4, <2>2
  <2> DEFINE l == lines[k + 1]
             read == f[k]
  <2>4. l \in LineSet(E)
    BY <1>1, <2>2
  <2>5. f[k + 1] = ReadOn(read, l)
    BY <1>2, <2>2 DEF ReadingUpTo
  <2>6. \A i : i \in 1..(k + 1) <=> i \in 1..k \/ i = k + 1
    OBVIOUS
  <2>7. CASE l.garbled
    <3>1. KeptIn(lines, k + 1) = KeptIn(lines, k)
      BY <2>6, <2>7 DEF KeptIn
    <3>2. f[k + 1] = f[k] BY <2>5, <2>7 DEF ReadOn
    <3>3. QED BY <2>3, <3>1, <3>2
  <2>8. CASE ~l.garbled
    <3>1. KeptIn(lines, k + 1) = KeptIn(lines, k) \cup {l.entry}
      BY <2>6, <2>8 DEF KeptIn
    <3>2. f[k + 1] = Append(read, l.entry) BY <2>5, <2>8 DEF ReadOn
    <3>3. l.entry \in E BY <2>4, <2>8, LinesAre
    <3> HIDE DEF l, read
    <3>4. read \in Seq(E) BY <2>3 DEF read
    <3>5. ToSetOf(Append(read, l.entry)) = ToSetOf(read) \cup {l.entry}
      <4>1. ASSUME NEW s \in Seq(E), NEW e \in E
            PROVE  ToSetOf(Append(s, e)) = ToSetOf(s) \cup {e}
        <5>1. /\ DOMAIN s = 1..Len(s) /\ Len(s) \in Nat
              /\ DOMAIN Append(s, e) = 1..(Len(s) + 1)
              /\ Append(s, e)[Len(s) + 1] = e
              /\ \A i \in 1..Len(s) : Append(s, e)[i] = s[i]
          OBVIOUS
        <5>2. \A i : i \in 1..(Len(s) + 1) <=> i \in 1..Len(s) \/ i = Len(s) + 1
          BY <5>1
        <5>3. QED BY <5>1, <5>2 DEF ToSetOf
      <4>2. QED BY <3>3, <3>4, <4>1
    <3>6. Append(read, l.entry) \in Seq(E) BY <3>3, <3>4
    <3>7. QED BY <2>3, <3>1, <3>2, <3>5, <3>6 DEF read
  <2>9. QED
    BY <2>7, <2>8
<1>5. Nat \subseteq T
  <2> HIDE DEF T
  <2> QED BY <1>3, <1>4, SetOfAllNaturals
<1>6. Found(Len(lines))
  BY <1>1, <1>5
<1>7. QED
  BY <1>2, <1>6 DEF Kept, lines

--------------------------------------------------------------------------------
\* The entry of a line that has not been closed, if that line can be read: it was
\* never answered for, and the next entry to land there takes it along.
Tip(log) ==
  IF log.open /\ ~Last(log.lines).garbled THEN {Last(log.lines).entry} ELSE {}

LEMMA KeptOneLonger ==
  ASSUME NEW E, NEW lines \in Seq(LineSet(E)), NEW l \in LineSet(E)
  PROVE  /\ Append(lines, l) \in Seq(LineSet(E))
         /\ Append(lines, l) # <<>>
         /\ Last(Append(lines, l)) = l
         /\ KeptIn(Append(lines, l), Len(Append(lines, l))) =
              KeptIn(lines, Len(lines)) \cup (IF l.garbled THEN {} ELSE {l.entry})
<1> DEFINE n == Len(lines)
           more == Append(lines, l)
<1>1. /\ n \in Nat /\ more \in Seq(LineSet(E)) /\ Len(more) = n + 1
      /\ more[n + 1] = l /\ \A i \in 1..n : more[i] = lines[i]
  OBVIOUS
<1>2. more # <<>>
  BY <1>1
<1>3. Last(more) = l
  BY <1>1 DEF Last
<1> HIDE DEF more, n
<1>4. \A i : i \in 1..(n + 1) <=> i \in 1..n \/ i = n + 1
  BY <1>1
<1>5. KeptIn(more, n + 1) = KeptIn(lines, n) \cup (IF l.garbled THEN {} ELSE {l.entry})
  BY <1>1, <1>4 DEF KeptIn
<1>6. QED
  BY <1>1, <1>2, <1>3, <1>5 DEF more, n

\* What lands on a line that is open leaves the lines before it as they are.
LEMMA KeptOneShorter ==
  ASSUME NEW E, NEW log, IsLog(log, E), log.open
  PROVE  /\ Front(log.lines) \in Seq(LineSet(E))
         /\ Kept(log) = KeptIn(Front(log.lines), Len(Front(log.lines))) \cup Tip(log)
<1> DEFINE lines == log.lines
           l == Last(lines)
           n == Len(lines) - 1
           front == Front(lines)
<1>1. lines \in Seq(LineSet(E)) /\ lines # <<>>
  BY DEF IsLog, LogSet
<1>2. /\ n \in Nat /\ Len(lines) = n + 1 /\ l = lines[n + 1]
      /\ front \in Seq(LineSet(E)) /\ Len(front) = n
      /\ \A i \in 1..n : front[i] = lines[i]
  <2> HIDE DEF lines
  <2>1. Len(lines) \in Nat \ {0} BY <1>1
  <2>2. n \in Nat /\ Len(lines) = n + 1 BY <2>1
  <2>3. front = SubSeq(lines, 1, n) /\ l = lines[n + 1] BY <2>1 DEF Front, Last
  <2>4. ASSUME NEW s \in Seq(LineSet(E)), NEW m \in Nat, Len(s) = m + 1
        PROVE  /\ SubSeq(s, 1, m) \in Seq(LineSet(E)) /\ Len(SubSeq(s, 1, m)) = m
               /\ \A i \in 1..m : SubSeq(s, 1, m)[i] = s[i]
    BY <2>4
  <2> HIDE DEF front, l, n
  <2>5. QED BY <1>1, <2>2, <2>3, <2>4
<1>3. Tip(log) = IF l.garbled THEN {} ELSE {l.entry}
  BY DEF Tip
<1> HIDE DEF front, n, l, lines
<1>4. \A i : i \in 1..(n + 1) <=> i \in 1..n \/ i = n + 1
  BY <1>2
<1>5. KeptIn(lines, n + 1) = KeptIn(front, n) \cup (IF l.garbled THEN {} ELSE {l.entry})
  BY <1>2, <1>4 DEF KeptIn
<1>6. Kept(log) = KeptIn(lines, n + 1)
  BY <1>2 DEF Kept, lines
<1>7. QED
  BY <1>2, <1>3, <1>5, <1>6 DEF front, lines

\* An entry joins what is kept, unless the line was open: then it is lost, and so is
\* what that line held.
LEMMA AppendKeeps ==
  ASSUME NEW E, NEW log, IsLog(log, E), NEW e \in E
  PROVE  /\ IsLog(Appended(log, e), E)
         /\ Appended(log, e).open = FALSE /\ Tip(Appended(log, e)) = {}
         /\ ~log.open => Kept(Appended(log, e)) = Kept(log) \cup {e}
         /\ log.open => /\ Kept(Appended(log, e)) \subseteq Kept(log)
                        /\ Kept(log) \ Tip(log) \subseteq Kept(Appended(log, e))
<1> DEFINE base == IF log.open THEN Front(log.lines) ELSE log.lines
           l == IF log.open THEN Garbled ELSE Line(e)
<1>1. Appended(log, e) = [lines |-> Append(base, l), open |-> FALSE]
  BY DEF Appended
<1>2. log.lines \in Seq(LineSet(E)) /\ log.open \in BOOLEAN
  BY DEF IsLog, LogSet
<1>3. base \in Seq(LineSet(E))
  BY <1>2, KeptOneShorter
<1>4. l \in LineSet(E) /\ l.garbled = log.open /\ (~log.open => l.entry = e)
  BY <1>2 DEF LineSet, Garbled, Line
<1> DEFINE safe == KeptIn(base, Len(base))
<1>5. Kept(log) = IF log.open THEN safe \cup Tip(log) ELSE safe
  BY <1>2, KeptOneShorter DEF Kept
<1> HIDE DEF base, l
<1>6. /\ Append(base, l) \in Seq(LineSet(E))
      /\ Kept(Appended(log, e)) = safe \cup (IF l.garbled THEN {} ELSE {l.entry})
  BY <1>1, <1>3, <1>4, KeptOneLonger DEF Kept
<1>7. IsLog(Appended(log, e), E)
  BY <1>1, <1>6 DEF IsLog, LogSet
<1>8. Appended(log, e).open = FALSE /\ Tip(Appended(log, e)) = {}
  BY <1>1 DEF Tip
<1> HIDE DEF safe
<1>9. QED
  BY <1>4, <1>5, <1>6, <1>7, <1>8

\* A kill in the middle of the append leaves what was kept, except for the open line.
LEMMA TornKeeps ==
  ASSUME NEW E, NEW log, IsLog(log, E), NEW e \in E, NEW torn \in Torn(log, e)
  PROVE  /\ IsLog(torn, E)
         /\ Kept(log) \ Tip(log) \subseteq Kept(torn)
         /\ Kept(torn) \subseteq Kept(log) \cup {e}
         /\ Tip(torn) \subseteq Tip(log) \cup {e}
<1>1. CASE torn = log
  BY <1>1
<1>2. CASE torn = Appended(log, e)
  <2>1. log.open \in BOOLEAN BY DEF IsLog, LogSet
  <2>2. QED BY <1>2, <2>1, AppendKeeps
<1>3. CASE torn # log /\ torn # Appended(log, e)
  <2> DEFINE base == IF log.open THEN Front(log.lines) ELSE log.lines
  <2>1. PICK l \in {Garbled} \cup (IF log.open THEN {} ELSE {Line(e)}) :
          torn = [lines |-> Append(base, l), open |-> TRUE]
    BY <1>3 DEF Torn
  <2>2. log.lines \in Seq(LineSet(E)) /\ log.open \in BOOLEAN
    BY DEF IsLog, LogSet
  <2>3. base \in Seq(LineSet(E))
    BY <2>2, KeptOneShorter
  <2>4. l \in LineSet(E) /\ (~l.garbled => l.entry = e)
    BY DEF LineSet, Garbled, Line
  <2> DEFINE safe == KeptIn(base, Len(base))
  <2>5. Kept(log) = IF log.open THEN safe \cup Tip(log) ELSE safe
    BY <2>2, KeptOneShorter DEF Kept
  <2> HIDE DEF base
  <2>6. /\ Append(base, l) \in Seq(LineSet(E)) /\ Append(base, l) # <<>>
        /\ Last(Append(base, l)) = l
        /\ Kept(torn) = safe \cup (IF l.garbled THEN {} ELSE {l.entry})
    BY <2>1, <2>3, <2>4, KeptOneLonger DEF Kept
  <2>7. IsLog(torn, E)
    BY <2>1, <2>6 DEF IsLog, LogSet
  <2>8. Tip(torn) = IF l.garbled THEN {} ELSE {l.entry}
    BY <2>1, <2>6 DEF Tip
  <2> HIDE DEF safe
  <2>9. QED
    BY <2>4, <2>5, <2>6, <2>7, <2>8
<1>4. QED
  BY <1>1, <1>2, <1>3

--------------------------------------------------------------------------------
(* The evidence of Records *)

Trades == [id : Nat, day : Nat]
Summaries == [day : Nat, trades : SUBSET Trades]

\* What a kill has cost one file, or will: the entries written that cannot be read,
\* and the one that will land on the line left open.
Lost(log, written) == Cardinality(written \ Kept(log)) + (IF log.open THEN 1 ELSE 0)

\* Written entries are numbered in order, and none of them is on an open line.
WrittenInv(log, written, last) ==
  /\ IsLog(log, Trades)
  /\ written \subseteq Trades /\ IsFiniteSet(written)
  /\ \A t \in written : t.id <= last
  /\ Tip(log) \cap written = {}

TradesIn(log, d) == {t \in Kept(log) : t.day = d}

RecordsInv ==
  /\ day \in Nat /\ currentDay \in Nat /\ closed \in Nat /\ kills \in Nat
  /\ currentDay <= day
  /\ WrittenInv(journal, journalled, closed) /\ WrittenInv(forward, recorded, closed)
  /\ Lost(journal, journalled) + Lost(forward, recorded) <= kills
  /\ IsLog(summaries, Summaries)
  \* A day is summarised when it is over, and its trades only become fewer.
  /\ \A s \in Kept(summaries) : s.day < day /\ TradesIn(journal, s.day) \subseteq s.trades

LEMMA KeptAreEntries ==
  ASSUME NEW E, NEW log, IsLog(log, E)
  PROVE  Kept(log) \subseteq E
<1>1. Entries(log) \in Seq(E) /\ ToSetOf(Entries(log)) = Kept(log)
  BY EntriesAreKept
<1>2. \A s \in Seq(E) : ToSetOf(s) \subseteq E
  BY DEF ToSetOf
<1>3. QED
  BY <1>1, <1>2

LEMMA TradeIsNew ==
  ASSUME RecordsInv
  PROVE  Trade \in Trades /\ Trade.day = day /\ Trade \notin journalled /\ Trade \notin recorded
<1>1. Trade \in Trades /\ Trade.id = closed + 1 /\ Trade.day = day
  BY DEF RecordsInv, Trade, Trades
<1>2. \A t \in journalled \cup recorded : t.id <= closed
  BY DEF RecordsInv, WrittenInv
<1>3. closed \in Nat
  BY DEF RecordsInv
<1>4. QED
  BY <1>1, <1>2, <1>3

LEMMA EmptyIsLog == \A E : IsLog(EmptyLog, E) /\ Kept(EmptyLog) = {} /\ Tip(EmptyLog) = {}
BY DEF IsLog, LogSet, EmptyLog, Kept, KeptIn, Tip

LEMMA LostIsNat ==
  ASSUME NEW log, NEW written, IsFiniteSet(written)
  PROVE  Lost(log, written) \in Nat
<1>1. Cardinality(written \ Kept(log)) \in Nat
  BY FS_Difference, FS_CardinalityType
<1>2. QED
  BY <1>1 DEF Lost

\* An entry that is written costs nothing, unless it lands on a line whose price
\* has been counted.
LEMMA AppendLosesNoMore ==
  ASSUME NEW log, NEW written, NEW last, WrittenInv(log, written, last),
         NEW e \in Trades, e \notin written
  PROVE  Lost(Appended(log, e), written \cup {e}) <= Lost(log, written)
<1> DEFINE after == Appended(log, e)
           before == written \ Kept(log)
           missing == (written \cup {e}) \ Kept(after)
<1>1. log.open \in BOOLEAN /\ IsLog(log, Trades)
  BY DEF WrittenInv, IsLog, LogSet
<1>2. /\ after.open = FALSE
      /\ ~log.open => Kept(after) = Kept(log) \cup {e}
      /\ log.open => Kept(log) \ Tip(log) \subseteq Kept(after)
  <2>1. /\ IsLog(Appended(log, e), Trades)
        /\ Appended(log, e).open = FALSE /\ Tip(Appended(log, e)) = {}
        /\ ~log.open => Kept(Appended(log, e)) = Kept(log) \cup {e}
        /\ log.open => /\ Kept(Appended(log, e)) \subseteq Kept(log)
                       /\ Kept(log) \ Tip(log) \subseteq Kept(Appended(log, e))
    <3> HIDE DEF after, before, missing
    <3>1. QED BY <1>1, AppendKeeps, Zenon
  <2>2. QED BY <2>1
<1>3. Tip(log) \cap written = {} /\ IsFiniteSet(written)
  BY DEF WrittenInv
<1> HIDE DEF after
<1>4. IsFiniteSet(before) /\ Cardinality(before) \in Nat
  BY <1>3, FS_Difference, FS_CardinalityType
<1>5. IsFiniteSet(before \cup {e}) /\ Cardinality(before \cup {e}) <= Cardinality(before) + 1
  <2> HIDE DEF before
  <2>1. IsFiniteSet(before \cup {e}) BY <1>4, FS_AddElement
  <2>2. Cardinality(before \cup {e}) \in {Cardinality(before), Cardinality(before) + 1}
    BY <1>4, FS_AddElement
  <2>3. QED BY <1>4, <2>1, <2>2
<1>6. CASE ~log.open
  <2>1. missing \subseteq before BY <1>2, <1>6
  <2>2. Cardinality(missing) <= Cardinality(before) /\ Cardinality(missing) \in Nat
    BY <1>4, <2>1, FS_Subset, FS_CardinalityType
  <2>3. Lost(after, written \cup {e}) = Cardinality(missing) + 0
        /\ Lost(log, written) = Cardinality(before) + 0
    BY <1>2, <1>6 DEF Lost
  <2>4. QED
    <3> HIDE DEF missing, before
    <3>1. QED BY <1>4, <2>2, <2>3 DEF after
<1>7. CASE log.open
  <2>1. missing \subseteq before \cup {e} BY <1>2, <1>3, <1>7
  <2>2. Cardinality(missing) <= Cardinality(before) + 1
    <3>1. Cardinality(missing) <= Cardinality(before \cup {e}) BY <1>5, <2>1, FS_Subset
    <3>2. Cardinality(missing) \in Nat /\ Cardinality(before \cup {e}) \in Nat
      BY <1>5, <2>1, FS_Subset, FS_CardinalityType
    <3> HIDE DEF missing, before
    <3>3. QED BY <1>4, <1>5, <3>1, <3>2
  <2>3. Lost(after, written \cup {e}) = Cardinality(missing)
    <3>1. Cardinality(missing) \in Nat
      BY <1>5, <2>1, FS_Subset, FS_CardinalityType
    <3>2. QED BY <1>2, <3>1 DEF Lost
  <2>4. Lost(log, written) = Cardinality(before) + 1
    BY <1>7 DEF Lost
  <2>5. QED BY <2>2, <2>3, <2>4 DEF after
<1>8. QED
  BY <1>1, <1>6, <1>7

\* A kill costs at most one entry.
LEMMA TearLosesOne ==
  ASSUME NEW log, NEW written, NEW last, WrittenInv(log, written, last),
         NEW e \in Trades, NEW torn \in Torn(log, e)
  PROVE  Lost(torn, written) <= Lost(log, written) + 1
<1> DEFINE before == written \ Kept(log)
           missing == written \ Kept(torn)
<1>1. IsLog(log, Trades) /\ log.open \in BOOLEAN
  BY DEF WrittenInv, IsLog, LogSet
<1>2. Kept(log) \ Tip(log) \subseteq Kept(torn)
  BY <1>1, TornKeeps
<1>3. Tip(log) \cap written = {} /\ IsFiniteSet(written)
  BY DEF WrittenInv
<1>4. missing \subseteq before
  BY <1>2, <1>3
<1>5. IsFiniteSet(before) /\ Cardinality(before) \in Nat
  BY <1>3, FS_Difference, FS_CardinalityType
<1>6. Cardinality(missing) <= Cardinality(before) /\ Cardinality(missing) \in Nat
  BY <1>4, <1>5, FS_Subset, FS_CardinalityType
<1>7. /\ Lost(torn, written) = Cardinality(missing) + (IF torn.open THEN 1 ELSE 0)
      /\ Lost(log, written) = Cardinality(before) + (IF log.open THEN 1 ELSE 0)
  BY DEF Lost
<1> HIDE DEF missing, before
<1>8. QED
  BY <1>5, <1>6, <1>7

LEMMA RecordsInitially == RecordsInit => RecordsInv
<1> SUFFICES ASSUME RecordsInit PROVE RecordsInv
  OBVIOUS
<1>1. /\ journalled = {} /\ recorded = {} /\ journal = EmptyLog /\ forward = EmptyLog
      /\ summaries = EmptyLog /\ day = 1 /\ currentDay = 0 /\ closed = 0 /\ kills = 0
  BY DEF RecordsInit
<1>2. IsFiniteSet({}) /\ Cardinality({}) = 0
  BY FS_EmptySet
<1>3. WrittenInv(EmptyLog, {}, 0)
  BY <1>2, EmptyIsLog DEF WrittenInv
<1>4. Lost(EmptyLog, {}) = 0
  <2>1. {} \ Kept(EmptyLog) = {} /\ EmptyLog.open = FALSE BY DEF EmptyLog
  <2>2. QED BY <1>2, <2>1 DEF Lost
<1>5. QED
  BY <1>1, <1>3, <1>4, EmptyIsLog DEF RecordsInv

\* A file that is not written to stays what it was.
LEMMA WrittenStays ==
  ASSUME NEW log, NEW written, NEW last \in Nat, WrittenInv(log, written, last),
         NEW next \in Nat, last <= next
  PROVE  WrittenInv(log, written, next)
<1>1. ASSUME NEW t \in written PROVE t.id <= next
  <2>1. t.id \in Nat /\ t.id <= last BY DEF WrittenInv, Trades
  <2>2. QED BY <2>1
<1>2. QED
  BY <1>1 DEF WrittenInv

LEMMA WrittenGrows ==
  ASSUME NEW log, NEW written, NEW last \in Nat, WrittenInv(log, written, last),
         NEW e \in Trades, e.id = last + 1
  PROVE  WrittenInv(Appended(log, e), written \cup {e}, last + 1)
<1>1. IsLog(Appended(log, e), Trades) /\ Tip(Appended(log, e)) = {}
  BY AppendKeeps, Zenon DEF WrittenInv
<1>2. ASSUME NEW t \in written \cup {e} PROVE t.id <= last + 1
  <2>1. CASE t \in written
    <3>1. t.id \in Nat /\ t.id <= last BY <2>1 DEF WrittenInv, Trades
    <3>2. QED BY <3>1
  <2>2. CASE t = e
    BY <2>2
  <2>3. QED BY <2>1, <2>2
<1>3. IsFiniteSet(written \cup {e})
  BY FS_AddElement DEF WrittenInv
<1>4. QED
  BY <1>1, <1>2, <1>3 DEF WrittenInv

LEMMA WrittenSurvives ==
  ASSUME NEW log, NEW written, NEW last \in Nat, WrittenInv(log, written, last),
         NEW e \in Trades, e.id = last + 1, NEW torn \in Torn(log, e)
  PROVE  WrittenInv(torn, written, last + 1)
<1>1. IsLog(torn, Trades) /\ Tip(torn) \subseteq Tip(log) \cup {e}
  BY TornKeeps, Zenon DEF WrittenInv
<1>2. ASSUME NEW t \in written PROVE t.id <= last + 1 /\ t # e
  <2>1. t.id \in Nat /\ t.id <= last BY DEF WrittenInv, Trades
  <2>2. QED BY <2>1
<1>3. QED
  BY <1>1, <1>2 DEF WrittenInv

LEMMA EvidenceIsWritten ==
  ASSUME RecordsInv, RecordTrade \/ RecordDay
  PROVE  RecordsInv'
<1>1. /\ day \in Nat /\ currentDay \in Nat /\ closed \in Nat /\ kills \in Nat
      /\ currentDay <= day
      /\ WrittenInv(journal, journalled, closed) /\ WrittenInv(forward, recorded, closed)
      /\ Lost(journal, journalled) + Lost(forward, recorded) <= kills
      /\ IsLog(summaries, Summaries) /\ IsLog(journal, Trades)
      /\ IsFiniteSet(journalled) /\ IsFiniteSet(recorded)
      /\ \A s \in Kept(summaries) : s.day < day /\ TradesIn(journal, s.day) \subseteq s.trades
  BY DEF RecordsInv, WrittenInv
<1>2. /\ Trade \in Trades /\ Trade.id = closed + 1 /\ Trade.day = day
      /\ Trade \notin journalled /\ Trade \notin recorded
  BY TradeIsNew DEF Trade
<1>3. Lost(journal, journalled) \in Nat /\ Lost(forward, recorded) \in Nat
  BY <1>1, LostIsNat
<1>4. closed + 1 \in Nat /\ closed <= closed + 1
  BY <1>1
<1>5. /\ closed' = closed + 1
      /\ UNCHANGED <<day, summaries, currentDay, kills>>
  BY DEF RecordTrade, RecordDay
<1>6. CASE RecordTrade
  <2>1. /\ journal' = Appended(journal, Trade) /\ journalled' = journalled \cup {Trade}
        /\ UNCHANGED <<forward, recorded>>
    BY <1>6 DEF RecordTrade
  <2>2. WrittenInv(Appended(journal, Trade), journalled \cup {Trade}, closed + 1)
    BY <1>1, <1>2, WrittenGrows
  <2>3. WrittenInv(forward, recorded, closed + 1)
    BY <1>1, <1>4, WrittenStays
  <2>4. Lost(Appended(journal, Trade), journalled \cup {Trade}) <= Lost(journal, journalled)
    BY <1>1, <1>2, AppendLosesNoMore
  <2>5. Lost(Appended(journal, Trade), journalled \cup {Trade}) \in Nat
    <3>1. IsFiniteSet(journalled \cup {Trade}) BY <2>2 DEF WrittenInv
    <3>2. QED BY <3>1, LostIsNat
  <2>6. Lost(journal', journalled') + Lost(forward', recorded') <= kills'
    BY <1>1, <1>3, <1>5, <2>1, <2>4, <2>5
  <2>7. Kept(Appended(journal, Trade)) \subseteq Kept(journal) \cup {Trade}
    <3>1. journal.open \in BOOLEAN BY <1>1 DEF IsLog, LogSet
    <3>2. QED BY <1>1, <1>2, <3>1, AppendKeeps
  <2>8. ASSUME NEW s \in Kept(summaries)
        PROVE  s.day < day /\ TradesIn(Appended(journal, Trade), s.day) \subseteq s.trades
    <3>1. s.day < day /\ TradesIn(journal, s.day) \subseteq s.trades BY <1>1
    <3>2. s.day # Trade.day
      <4>1. day \in Nat /\ Trade.day = day BY <1>1, <1>2
      <4>2. s.day \in Nat /\ s.day < day
        <5>1. s \in Summaries BY <1>1, KeptAreEntries
        <5>2. QED BY <3>1, <5>1 DEF Summaries
      <4>3. QED BY <4>1, <4>2
    <3>3. QED BY <2>7, <3>1, <3>2 DEF TradesIn
  <2>9. QED
    BY <1>1, <1>4, <1>5, <2>1, <2>2, <2>3, <2>6, <2>8 DEF RecordsInv, TradesIn
<1>7. CASE RecordDay
  <2>1. /\ forward' = Appended(forward, Trade) /\ recorded' = recorded \cup {Trade}
        /\ UNCHANGED <<journal, journalled>>
    BY <1>7 DEF RecordDay
  <2>2. WrittenInv(Appended(forward, Trade), recorded \cup {Trade}, closed + 1)
    BY <1>1, <1>2, WrittenGrows
  <2>3. WrittenInv(journal, journalled, closed + 1)
    BY <1>1, <1>4, WrittenStays
  <2>4. Lost(Appended(forward, Trade), recorded \cup {Trade}) <= Lost(forward, recorded)
    BY <1>1, <1>2, AppendLosesNoMore
  <2>5. Lost(Appended(forward, Trade), recorded \cup {Trade}) \in Nat
    <3>1. IsFiniteSet(recorded \cup {Trade}) BY <2>2 DEF WrittenInv
    <3>2. QED BY <3>1, LostIsNat
  <2>6. Lost(journal', journalled') + Lost(forward', recorded') <= kills'
    BY <1>1, <1>3, <1>5, <2>1, <2>4, <2>5
  <2>7. QED
    BY <1>1, <1>4, <1>5, <2>1, <2>2, <2>3, <2>6 DEF RecordsInv, TradesIn
<1>8. QED
  BY <1>6, <1>7

\* summarise finds the trades that the journal holds.
LEMMA TradesOfIsKept ==
  ASSUME RecordsInv
  PROVE  \A d : TradesOf(d) = TradesIn(journal, d)
<1>1. ToSetOf(Entries(journal)) = Kept(journal)
  BY EntriesAreKept DEF RecordsInv, WrittenInv
<1>2. {Entries(journal)[i] : i \in DOMAIN Entries(journal)} = Kept(journal)
  BY <1>1 DEF ToSetOf
<1>3. QED
  BY <1>2 DEF TradesOf, TradesIn

\* The summary of a day that is over.
LEMMA SummaryOfAPastDay ==
  ASSUME RecordsInv, currentDay # day,
         NEW e, e = [day |-> currentDay, trades |-> TradesOf(currentDay)]
  PROVE  e \in Summaries /\ e.day < day /\ TradesIn(journal, e.day) \subseteq e.trades
<1>1. currentDay \in Nat /\ day \in Nat /\ currentDay <= day
  BY DEF RecordsInv
<1>2. TradesOf(currentDay) = TradesIn(journal, currentDay)
  BY TradesOfIsKept
<1>3. TradesIn(journal, currentDay) \subseteq Trades
  <2>1. Kept(journal) \subseteq Trades BY KeptAreEntries DEF RecordsInv, WrittenInv
  <2>2. QED BY <2>1 DEF TradesIn
<1>4. e.day = currentDay /\ e.trades = TradesIn(journal, currentDay)
  BY <1>2
<1>5. e \in Summaries
  BY <1>1, <1>2, <1>3 DEF Summaries
<1>6. currentDay < day
  BY <1>1
<1>7. QED
  BY <1>4, <1>5, <1>6

LEMMA DayIsSummarised ==
  ASSUME RecordsInv, Rollover
  PROVE  RecordsInv'
<1> DEFINE e == [day |-> currentDay, trades |-> TradesOf(currentDay)]
<1>1. /\ currentDay # day /\ currentDay' = day
      /\ summaries' = IF currentDay = 0 THEN summaries ELSE Appended(summaries, e)
      /\ UNCHANGED <<day, journal, forward, closed, kills, journalled, recorded>>
  BY DEF Rollover
<1>2. e \in Summaries /\ e.day < day /\ TradesIn(journal, e.day) \subseteq e.trades
  BY <1>1, SummaryOfAPastDay
<1> HIDE DEF e
<1>3. /\ IsLog(summaries, Summaries)
      /\ \A s \in Kept(summaries) : s.day < day /\ TradesIn(journal, s.day) \subseteq s.trades
      /\ day \in Nat
  BY DEF RecordsInv
<1>4. IsLog(summaries', Summaries) /\ Kept(summaries') \subseteq Kept(summaries) \cup {e}
  <2>1. /\ IsLog(Appended(summaries, e), Summaries)
        /\ Kept(Appended(summaries, e)) \subseteq Kept(summaries) \cup {e}
    <3>1. summaries.open \in BOOLEAN BY <1>3 DEF IsLog, LogSet
    <3>2. QED BY <1>2, <1>3, <3>1, AppendKeeps
  <2>2. QED BY <1>1, <1>3, <2>1
<1>5. \A s \in Kept(summaries') : s.day < day /\ TradesIn(journal, s.day) \subseteq s.trades
  BY <1>2, <1>3, <1>4
<1>6. day <= day
  BY <1>3
<1>7. QED
  BY <1>1, <1>4, <1>5, <1>6 DEF RecordsInv, TradesIn

LEMMA DayPasses ==
  ASSUME RecordsInv, Midnight
  PROVE  RecordsInv'
<1>1. /\ day' = day + 1
      /\ UNCHANGED <<journal, summaries, currentDay, forward, closed, kills,
                     journalled, recorded>>
  BY DEF Midnight
<1>2. /\ day \in Nat /\ currentDay \in Nat /\ currentDay <= day
      /\ IsLog(summaries, Summaries)
      /\ \A s \in Kept(summaries) : s.day < day /\ TradesIn(journal, s.day) \subseteq s.trades
  BY DEF RecordsInv
<1>3. ASSUME NEW s \in Kept(summaries)
      PROVE  s.day < day + 1 /\ TradesIn(journal, s.day) \subseteq s.trades
  <2>1. s.day \in Nat
    <3>1. s \in Summaries BY <1>2, KeptAreEntries
    <3>2. QED BY <3>1 DEF Summaries
  <2>2. s.day < day /\ day \in Nat /\ TradesIn(journal, s.day) \subseteq s.trades BY <1>2
  <2>3. QED BY <2>1, <2>2
<1>4. day + 1 \in Nat /\ currentDay <= day + 1
  BY <1>2
<1>5. QED
  BY <1>1, <1>3, <1>4 DEF RecordsInv, TradesIn

LEMMA EvidenceSurvivesAKill ==
  ASSUME RecordsInv, Killed
  PROVE  RecordsInv'
<1>1. /\ day \in Nat /\ currentDay \in Nat /\ closed \in Nat /\ kills \in Nat
      /\ currentDay <= day
      /\ WrittenInv(journal, journalled, closed) /\ WrittenInv(forward, recorded, closed)
      /\ Lost(journal, journalled) + Lost(forward, recorded) <= kills
      /\ IsLog(summaries, Summaries) /\ IsLog(journal, Trades) /\ IsLog(forward, Trades)
      /\ IsFiniteSet(journalled) /\ IsFiniteSet(recorded)
      /\ \A s \in Kept(summaries) : s.day < day /\ TradesIn(journal, s.day) \subseteq s.trades
  BY DEF RecordsInv, WrittenInv
<1>2. Trade \in Trades /\ Trade.id = closed + 1 /\ Trade.day = day
  BY TradeIsNew DEF Trade
<1>3. Lost(journal, journalled) \in Nat /\ Lost(forward, recorded) \in Nat
  BY <1>1, LostIsNat
<1>4. /\ closed + 1 \in Nat /\ closed <= closed + 1 /\ kills + 1 \in Nat /\ 0 <= day
  BY <1>1
<1>5. /\ kills' = kills + 1 /\ currentDay' = 0 /\ 0 \in Nat
      /\ UNCHANGED <<day, journalled, recorded>>
  BY DEF Killed
<1>6. ASSUME NEW torn \in Torn(journal, Trade), journal' = torn, closed' = closed + 1,
             UNCHANGED <<forward, summaries>>
      PROVE  RecordsInv'
  <2>1. WrittenInv(torn, journalled, closed + 1)
    BY <1>1, <1>2, WrittenSurvives
  <2>2. WrittenInv(forward, recorded, closed + 1)
    BY <1>1, <1>4, WrittenStays
  <2>3. Lost(torn, journalled) <= Lost(journal, journalled) + 1 /\ Lost(torn, journalled) \in Nat
    BY <1>1, <1>2, TearLosesOne, LostIsNat
  <2>4. Lost(journal', journalled') + Lost(forward', recorded') <= kills'
    BY <1>1, <1>3, <1>5, <1>6, <2>3
  <2>5. Kept(torn) \subseteq Kept(journal) \cup {Trade}
    BY <1>1, <1>2, TornKeeps
  <2>6. ASSUME NEW s \in Kept(summaries)
        PROVE  s.day < day /\ TradesIn(torn, s.day) \subseteq s.trades
    <3>1. s.day < day /\ TradesIn(journal, s.day) \subseteq s.trades BY <1>1
    <3>2. s.day # Trade.day
      <4>1. day \in Nat /\ Trade.day = day BY <1>1, <1>2
      <4>2. s.day \in Nat /\ s.day < day
        <5>1. s \in Summaries BY <1>1, KeptAreEntries
        <5>2. QED BY <3>1, <5>1 DEF Summaries
      <4>3. QED BY <4>1, <4>2
    <3>3. QED BY <2>5, <3>1, <3>2 DEF TradesIn
  <2>7. QED
    BY <1>1, <1>4, <1>5, <1>6, <2>1, <2>2, <2>4, <2>6 DEF RecordsInv, TradesIn
<1>7. ASSUME NEW torn \in Torn(forward, Trade), forward' = torn, closed' = closed + 1,
             UNCHANGED <<journal, summaries>>
      PROVE  RecordsInv'
  <2>1. WrittenInv(torn, recorded, closed + 1)
    BY <1>1, <1>2, WrittenSurvives
  <2>2. WrittenInv(journal, journalled, closed + 1)
    BY <1>1, <1>4, WrittenStays
  <2>3. Lost(torn, recorded) <= Lost(forward, recorded) + 1 /\ Lost(torn, recorded) \in Nat
    BY <1>1, <1>2, TearLosesOne, LostIsNat
  <2>4. Lost(journal', journalled') + Lost(forward', recorded') <= kills'
    BY <1>1, <1>3, <1>5, <1>7, <2>3
  <2>5. QED
    BY <1>1, <1>4, <1>5, <1>7, <2>1, <2>2, <2>4 DEF RecordsInv, TradesIn
<1>8. ASSUME UNCHANGED <<journal, forward, closed>>,
             IsLog(summaries', Summaries),
             \A s \in Kept(summaries') : s.day < day /\ TradesIn(journal, s.day) \subseteq s.trades
      PROVE  RecordsInv'
  <2>1. Lost(journal', journalled') + Lost(forward', recorded') <= kills'
    BY <1>1, <1>3, <1>5, <1>8
  <2>2. QED
    BY <1>1, <1>4, <1>5, <1>8, <2>1 DEF RecordsInv, TradesIn
<1>9. ASSUME currentDay \notin {0, day}, UNCHANGED <<journal, forward, closed>>,
             NEW torn \in Torn(summaries, [day |-> currentDay, trades |-> TradesOf(currentDay)]),
             summaries' = torn
      PROVE  RecordsInv'
  <2> DEFINE e == [day |-> currentDay, trades |-> TradesOf(currentDay)]
  <2>1. e \in Summaries /\ e.day < day /\ TradesIn(journal, e.day) \subseteq e.trades
    BY <1>9, SummaryOfAPastDay
  <2>2. torn \in Torn(summaries, e)
    BY <1>9
  <2> HIDE DEF e
  <2>3. IsLog(torn, Summaries) /\ Kept(torn) \subseteq Kept(summaries) \cup {e}
    BY <1>1, <2>1, <2>2, TornKeeps
  <2>4. QED
    BY <1>1, <1>8, <1>9, <2>1, <2>3
<1>10. \/ /\ closed' = closed + 1 /\ UNCHANGED summaries
          /\ \/ journal' \in Torn(journal, Trade) /\ UNCHANGED forward
             \/ forward' \in Torn(forward, Trade) /\ UNCHANGED journal
       \/ /\ UNCHANGED <<journal, forward, closed>>
          /\ \/ summaries' = summaries
             \/ /\ currentDay \notin {0, day}
                /\ summaries' \in Torn(summaries, [day |-> currentDay,
                                                   trades |-> TradesOf(currentDay)])
  BY DEF Killed
<1>11. CASE UNCHANGED <<journal, forward, closed>> /\ summaries' = summaries
  BY <1>1, <1>8, <1>11
<1>12. QED
  BY <1>6, <1>7, <1>9, <1>10, <1>11

LEMMA RecordsStep == RecordsInv /\ [RecordsNext]_recordVars => RecordsInv'
<1> SUFFICES ASSUME RecordsInv, [RecordsNext]_recordVars PROVE RecordsInv'
  OBVIOUS
<1>1. CASE UNCHANGED recordVars
  BY <1>1 DEF recordVars, RecordsInv, TradesIn
<1>2. QED
  BY <1>1, EvidenceIsWritten, DayIsSummarised, DayPasses, EvidenceSurvivesAKill DEF RecordsNext

\* A kill costs at most one entry that had been written, in the journal and the
\* forward record together, for every number of days, trades and kills.
THEOREM OneKillLosesOneEntry == RecordsSpec => []KillLosesOne
<1>1. ASSUME RecordsInv PROVE KillLosesOne
  <2>1. /\ ToSetOf(Entries(journal)) = Kept(journal)
        /\ ToSetOf(Entries(forward)) = Kept(forward)
    BY <1>1, EntriesAreKept DEF RecordsInv, WrittenInv
  <2>2. IsFiniteSet(journalled) /\ IsFiniteSet(recorded)
    BY <1>1 DEF RecordsInv, WrittenInv
  <2> DEFINE m == Cardinality(journalled \ Kept(journal))
             n == Cardinality(recorded \ Kept(forward))
  <2>3. m \in Nat /\ n \in Nat
    BY <2>2, FS_Difference, FS_CardinalityType
  <2>4. Lost(journal, journalled) = m + (IF journal.open THEN 1 ELSE 0)
        /\ Lost(forward, recorded) = n + (IF forward.open THEN 1 ELSE 0)
    BY DEF Lost
  <2>5. kills \in Nat /\ Lost(journal, journalled) + Lost(forward, recorded) <= kills
    BY <1>1 DEF RecordsInv
  <2>6. m + n <= kills
    <3> HIDE DEF m, n
    <3>1. QED BY <2>3, <2>4, <2>5
  <2>7. QED
    BY <2>1, <2>6 DEF KillLosesOne
<1>2. QED
  BY RecordsInitially, RecordsStep, <1>1, PTL DEF RecordsSpec

\* The summary of a day names every trade of that day that the journal still holds,
\* however often the process was killed since.
THEOREM SummariesStayWhole == RecordsSpec => []SummaryIsWhole
<1>1. ASSUME RecordsInv PROVE SummaryIsWhole
  <2>1. ToSetOf(Entries(summaries)) = Kept(summaries)
    BY <1>1, EntriesAreKept DEF RecordsInv
  <2>2. \A i \in DOMAIN Entries(summaries) : Entries(summaries)[i] \in Kept(summaries)
    BY <2>1 DEF ToSetOf
  <2>3. \A s \in Kept(summaries) : TradesOf(s.day) \subseteq s.trades
    BY <1>1, TradesOfIsKept DEF RecordsInv
  <2>4. QED
    BY <2>2, <2>3 DEF SummaryIsWhole
<1>2. QED
  BY RecordsInitially, RecordsStep, <1>1, PTL DEF RecordsSpec

================================================================================
