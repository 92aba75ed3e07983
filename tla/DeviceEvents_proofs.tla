------------------------ MODULE DeviceEvents_proofs ------------------------
(***************************************************************************)
(* What is proved of the events the device is given: by a horde of any     *)
(* size, depth and length of run (Hordes), and by a user who posts any     *)
(* number of them anywhere on the screen (SessionEvents).                  *)
(***************************************************************************)
EXTENDS Hordes, SessionEvents, SequenceTheorems, WellFoundedInduction, TLAPS

GremlinSet == [inited : BOOLEAN, counter : Nat, until : Int, finalUntil : Int, generated : Nat]
DeviceSet == [of : Nat, count : Nat]
StateSet == [gremlin : GremlinSet, device : DeviceSet, on : BOOLEAN]
Recordings == [last : Nat, intact : BOOLEAN]
FileSet == [root : StateSet, suspended : [Numbers -> StateSet], events : [Numbers -> Recordings]]

HordeTypes ==
  /\ range \in [first : Numbers, last : Numbers]
  /\ gCurrentGremlin \in Members
  /\ gSwitchDepth \in Int /\ gMaxDepth \in Int /\ gCurrentDepth \in Int
  /\ halted \subseteq Numbers
  /\ gIsOn \in BOOLEAN /\ ended \in BOOLEAN
  /\ gTheGremlin \in GremlinSet
  /\ device \in DeviceSet
  /\ fgEvents \in Recordings
  /\ files \in FileSet
  /\ reached \in [Numbers -> Nat]

\* What the device has been sent is what Gremlin g has generated.
Owns(dev, gremlin, g) ==
  /\ dev.count = gremlin.generated
  /\ dev.count > 0 => dev.of = g

\* No state is due to be loaded before the Gremlin goes on.
Loaded == scheduled \subseteq {"saveSuspended"}

\* Until the horde is over, each state is the one of the Gremlin it is kept for.
OwnStates ==
  ~ended =>
    /\ scheduled \in {{}, {"saveSuspended"}, {"fromRoot"}, {"fromSuspended"}}
    /\ files.root.device = NoEvents
    /\ \A g \in Numbers : Owns(files.suspended[g].device, files.suspended[g].gremlin, g)
    /\ gCurrentGremlin \notin halted
    /\ Loaded => Owns(device, gTheGremlin, gCurrentGremlin)

HInv == HordeTypes /\ OwnStates

\* The barrier at the end of depth d - 1, and the depth Gremlin g is due to run next.
Barrier(d) == Least(gSwitchDepth * d, gMaxDepth)
Due(g) == IF g < gCurrentGremlin THEN gCurrentDepth + 1 ELSE gCurrentDepth
Bounded == gMaxDepth # Forever

\* A horde is started once, and its root state can be run again.
Started ==
  /\ ~gTheGremlin.inited => ~gIsOn /\ scheduled = {} /\ ~ended
  /\ gTheGremlin.inited =>
       /\ Bounded => gSwitchDepth >= 1 /\ gMaxDepth >= 1
       /\ gCurrentDepth >= 0
       /\ gTheGremlin.finalUntil = gMaxDepth
       /\ files.root.gremlin.inited /\ ~files.root.on
       /\ files.root.gremlin.finalUntil = gMaxDepth
  /\ \A g \in Numbers : files.suspended[g].gremlin.inited =>
       gTheGremlin.inited /\ files.suspended[g].gremlin.finalUntil = gMaxDepth

\* A Gremlin that has not crashed has run to its last barrier, and can be resumed there.
Progress(g) ==
  /\ Bounded => reached[g] >= Barrier(Due(g))
  /\ Due(g) >= 1 => files.suspended[g].gremlin.inited

\* The Gremlin that runs stops at the next barrier, or later, and is put away before.
OnItsWay ==
  /\ Bounded => /\ gTheGremlin.until >= Barrier(gCurrentDepth + 1)
                /\ gTheGremlin.until <= gMaxDepth
  /\ Limited /\ gTheGremlin.counter >= gTheGremlin.until =>
       files.suspended[gCurrentGremlin].gremlin.inited \/ scheduled = {"saveSuspended"}

Rounds ==
  gTheGremlin.inited /\ ~ended =>
    /\ ~BeyondMaxDepth(gCurrentDepth)
    /\ \A g \in Members \ halted : Progress(g)
    /\ Loaded => OnItsWay
    /\ scheduled = {"fromRoot"} => gCurrentDepth = 0
    /\ scheduled = {"fromSuspended"} => files.suspended[gCurrentGremlin].gremlin.inited

Finished ==
  ended => /\ ~gIsOn /\ scheduled \subseteq {"loadRoot"}
           /\ \A g \in Members : g \in halted \/ (Bounded /\ reached[g] >= gMaxDepth)

Stages == Started /\ Rounds /\ Finished

\* A horde with a ZeroSwitch never has a Gremlin to load: it is over whenever another is proposed.
Zero ==
  /\ ZeroSwitch /\ gMaxDepth >= 1 /\ gCurrentDepth >= 0
  /\ gTheGremlin.inited /\ files.root.gremlin.inited
  /\ scheduled \subseteq {"saveSuspended", "loadRoot"}

-----------------------------------------------------------------------------
(***************************************************************************)
(* Records.                                                                *)
(***************************************************************************)
LEMMA UntilUpdate ==
  ASSUME NEW g \in GremlinSet, NEW u \in Int
  PROVE  LET n == [g EXCEPT !.until = u]
         IN  /\ n \in GremlinSet /\ n.until = u
             /\ n.inited = g.inited /\ n.counter = g.counter
             /\ n.finalUntil = g.finalUntil /\ n.generated = g.generated
BY DEF GremlinSet

LEMMA CounterUpdate ==
  ASSUME NEW g \in GremlinSet, NEW b \in {0, 1}
  PROVE  LET n == [g EXCEPT !.counter = @ + 1, !.generated = @ + b]
         IN  /\ n \in GremlinSet /\ n.counter = g.counter + 1 /\ n.generated = g.generated + b
             /\ n.inited = g.inited /\ n.until = g.until /\ n.finalUntil = g.finalUntil
<1> DEFINE m == [g EXCEPT !.counter = @ + 1]
<1>1. /\ m \in GremlinSet /\ m.counter = g.counter + 1 /\ m.generated = g.generated
      /\ m.inited = g.inited /\ m.until = g.until /\ m.finalUntil = g.finalUntil
  BY DEF GremlinSet
<1>2. g.generated + b \in Nat
  BY DEF GremlinSet
<1> DEFINE k == g.generated + b
<1>3. [g EXCEPT !.counter = @ + 1, !.generated = @ + b] = [m EXCEPT !.generated = k]
  OBVIOUS
<1> HIDE DEF m, k
<1>4. LET n == [m EXCEPT !.generated = k]
      IN  /\ n \in GremlinSet /\ n.counter = m.counter /\ n.generated = k
          /\ n.inited = m.inited /\ n.until = m.until /\ n.finalUntil = m.finalUntil
  BY <1>1, <1>2 DEF GremlinSet, k
<1> QED
  BY <1>1, <1>3, <1>4, Zenon DEF k

LEMMA GremlinFields ==
  ASSUME NEW g \in GremlinSet
  PROVE  /\ g.inited \in BOOLEAN /\ g.counter \in Nat /\ g.until \in Int
         /\ g.finalUntil \in Int /\ g.generated \in Nat
BY DEF GremlinSet

LEMMA StateFields ==
  ASSUME NEW s \in StateSet
  PROVE  s.gremlin \in GremlinSet /\ s.device \in DeviceSet /\ s.on \in BOOLEAN
BY DEF StateSet

LEMMA NewGremlin ==
  ASSUME NEW u \in Int, NEW f \in Int, NEW i \in BOOLEAN
  PROVE  LET n == [inited |-> i, counter |-> 0, until |-> u, finalUntil |-> f, generated |-> 0]
         IN  /\ n \in GremlinSet /\ n.inited = i /\ n.counter = 0 /\ n.until = u
             /\ n.finalUntil = f /\ n.generated = 0
BY DEF GremlinSet

LEMMA NewState ==
  ASSUME NEW g \in GremlinSet, NEW d \in DeviceSet, NEW o \in BOOLEAN
  PROVE  LET n == [gremlin |-> g, device |-> d, on |-> o]
         IN  n \in StateSet /\ n.gremlin = g /\ n.device = d /\ n.on = o
BY DEF StateSet

LEMMA NewDevice ==
  /\ NoEvents \in DeviceSet /\ NoEvents.count = 0
  /\ \A g \in Nat, c \in Nat :
       LET n == [of |-> g, count |-> c] IN n \in DeviceSet /\ n.of = g /\ n.count = c
BY DEF DeviceSet, NoEvents

LEMMA NewRecording ==
  /\ Nothing \in Recordings
  /\ \A r \in Recordings, n \in Nat : Recorded(r, n) \in Recordings
BY DEF Recordings, Nothing, Recorded

LEMMA BlankState ==
  /\ Blank \in StateSet /\ Blank.device = NoEvents /\ Blank.on = FALSE
  /\ Blank.gremlin \in GremlinSet /\ Blank.gremlin.inited = FALSE /\ Blank.gremlin.generated = 0
<1> DEFINE g == [inited |-> FALSE, counter |-> 0, until |-> 0, finalUntil |-> 0, generated |-> 0]
<1>1. g \in GremlinSet /\ g.inited = FALSE /\ g.generated = 0
  <2>1. 0 \in Int /\ FALSE \in BOOLEAN
    OBVIOUS
  <2> QED
    BY <2>1, NewGremlin, Zenon
<1>2. Blank = [gremlin |-> g, device |-> NoEvents, on |-> FALSE]
  BY DEF Blank
<1> HIDE DEF g
<1>3. NoEvents \in DeviceSet /\ FALSE \in BOOLEAN
  BY NewDevice
<1> QED
  BY <1>1, <1>2, <1>3, NewState

LEMMA FileFields ==
  ASSUME NEW f \in FileSet
  PROVE  /\ f.root \in StateSet /\ f.suspended \in [Numbers -> StateSet]
         /\ f.events \in [Numbers -> Recordings]
BY DEF FileSet

LEMMA FileUpdates ==
  ASSUME NEW f \in FileSet, NEW g \in Numbers
  PROVE  /\ \A s \in StateSet :
              LET n == [f EXCEPT !.root = s]
              IN  n \in FileSet /\ n.root = s /\ n.suspended = f.suspended
         /\ \A r \in Recordings :
              LET n == [f EXCEPT !.events[g] = r]
              IN  n \in FileSet /\ n.root = f.root /\ n.suspended = f.suspended
         /\ \A s \in StateSet :
              LET n == [f EXCEPT !.suspended[g] = s]
              IN  n \in FileSet /\ n.root = f.root /\ n.suspended = [f.suspended EXCEPT ![g] = s]
BY DEF FileSet

LEMMA NewFiles ==
  LET n == [root |-> Blank, suspended |-> [g \in Numbers |-> Blank],
            events |-> [g \in Numbers |-> Nothing]]
  IN  n \in FileSet /\ n.root = Blank /\ \A g \in Numbers : n.suspended[g] = Blank
BY BlankState, NewRecording DEF FileSet

LEMMA NumbersAreNaturals ==
  /\ 0 \in Numbers
  /\ \A n \in Numbers : n \in Nat
BY HordesAssumption DEF Numbers

LEMMA RangeFields ==
  ASSUME NEW r \in [first : Numbers, last : Numbers]
  PROVE  r.first \in Numbers /\ r.last \in Numbers
OBVIOUS

LEMMA MemberTypes ==
  ASSUME HordeTypes
  PROVE  /\ range.first \in Nat /\ range.last \in Nat /\ gCurrentGremlin \in Nat
         /\ range.first <= gCurrentGremlin /\ gCurrentGremlin <= range.last
         /\ gCurrentGremlin \in Numbers
         /\ Size \in Nat /\ Size >= 1
         /\ \A g \in Members : g \in Numbers /\ g \in Nat
<1>1. range.first \in Numbers /\ range.last \in Numbers
  BY RangeFields DEF HordeTypes
<1>2. /\ range.first \in Int /\ range.last \in Int /\ 0 <= range.first /\ range.last <= MaxStop
      /\ MaxStop \in Int
  BY <1>1, HordesAssumption DEF Numbers
<1>3. gCurrentGremlin \in range.first .. range.last
  BY DEF HordeTypes, Members
<1>4. \A g \in range.first .. range.last : g \in 0 .. MaxStop /\ g \in Nat
  BY <1>2
<1> QED
  BY <1>2, <1>3, <1>4 DEF Members, Size, Numbers

-----------------------------------------------------------------------------

(***************************************************************************)
(* The flags of the session, and the search for the next Gremlin.          *)
(***************************************************************************)
LEMMA OnlyFlag ==
  ASSUME NEW f \in {"saveSuspended", "loadRoot", "fromRoot", "fromSuspended"}, scheduled = {f},
         NEW flag, Do(flag)
  PROVE  flag = f /\ scheduled' = {}
<1> DEFINE P(i) == Order[i] \in scheduled /\ \A j \in 1 .. (i - 1) : Order[j] \notin scheduled
<1>1. DOMAIN Order = 1 .. 4 /\ Order[1] = "saveSuspended" /\ Order[2] = "loadRoot"
      /\ Order[3] = "fromRoot" /\ Order[4] = "fromSuspended"
  BY DEF Order
<1>2. \E i \in DOMAIN Order : P(i)
  <2>1. CASE f = "saveSuspended"
    BY <1>1, <2>1
  <2>2. CASE f = "loadRoot"
    BY <1>1, <2>2
  <2>3. CASE f = "fromRoot"
    BY <1>1, <2>3
  <2>4. CASE f = "fromSuspended"
    BY <1>1, <2>4
  <2> QED
    BY <2>1, <2>2, <2>3, <2>4
<1>3. PICK c \in DOMAIN Order : c = (CHOOSE i \in DOMAIN Order : P(i)) /\ P(c)
  BY <1>2, Zenon
<1>4. First = Order[c]
  BY <1>3, Zenon DEF First
<1>5. First = f
  BY <1>3, <1>4
<1> QED
  BY <1>5 DEF Do

LEMMA FollowingFields ==
  ASSUME HordeTypes, NEW i \in 1 .. Size
  PROVE  /\ Following(i).gremlin \in Members
         /\ Following(i).depth \in Int
         /\ \/ /\ gCurrentGremlin + i <= range.last
               /\ Following(i).gremlin = gCurrentGremlin + i
               /\ Following(i).depth = gCurrentDepth
            \/ /\ gCurrentGremlin + i > range.last
               /\ Following(i).gremlin = gCurrentGremlin + i - Size
               /\ Following(i).depth = IF gCurrentDepth >= 0 THEN gCurrentDepth + 1 ELSE gCurrentDepth
<1>1. /\ range.first \in Nat /\ range.last \in Nat /\ gCurrentGremlin \in Nat
      /\ range.first <= gCurrentGremlin /\ gCurrentGremlin <= range.last
      /\ Size \in Nat /\ i \in Nat /\ 1 <= i /\ i <= Size /\ gCurrentDepth \in Int
  BY MemberTypes DEF HordeTypes
<1>2. Size = range.last - range.first + 1
  BY DEF Size
<1>3. CASE gCurrentGremlin + i <= range.last
  <2>1. Following(i) = [gremlin |-> gCurrentGremlin + i, depth |-> gCurrentDepth]
    BY <1>3 DEF Following
  <2>2. gCurrentGremlin + i \in range.first .. range.last
    BY <1>1, <1>3
  <2> QED
    BY <1>1, <1>3, <2>1, <2>2 DEF Members
<1>4. CASE ~(gCurrentGremlin + i <= range.last)
  <2> DEFINE d == IF gCurrentDepth >= 0 THEN gCurrentDepth + 1 ELSE gCurrentDepth
  <2>1. Following(i) = [gremlin |-> gCurrentGremlin + i - Size, depth |-> d]
    BY <1>4 DEF Following
  <2>2. gCurrentGremlin + i - Size \in range.first .. range.last
    BY <1>1, <1>2, <1>4
  <2>3. d \in Int
    BY <1>1
  <2>4. gCurrentGremlin + i > range.last
    BY <1>1, <1>4
  <2> HIDE DEF d
  <2>5. Following(i).gremlin = gCurrentGremlin + i - Size /\ Following(i).depth = d
    BY <2>1
  <2> QED
    BY <2>2, <2>3, <2>4, <2>5 DEF Members, d
<1> QED
  BY <1>3, <1>4

\* Each Gremlin of the horde is proposed once.
LEMMA EachIsProposed ==
  ASSUME HordeTypes, NEW g \in Members
  PROVE  LET i == IF g > gCurrentGremlin THEN g - gCurrentGremlin ELSE g - gCurrentGremlin + Size
         IN  i \in 1 .. Size /\ Following(i).gremlin = g
<1>1. /\ range.first \in Nat /\ range.last \in Nat /\ gCurrentGremlin \in Nat
      /\ range.first <= gCurrentGremlin /\ gCurrentGremlin <= range.last
      /\ g \in Nat /\ range.first <= g /\ g <= range.last
      /\ Size = range.last - range.first + 1
  BY MemberTypes DEF Members, Size
<1>2. CASE g > gCurrentGremlin
  <2>1. g - gCurrentGremlin \in 1 .. Size
    BY <1>1, <1>2
  <2>2. Following(g - gCurrentGremlin).gremlin = g
    BY <1>1, <2>1, FollowingFields
  <2> QED
    BY <1>2, <2>1, <2>2
<1>3. CASE ~(g > gCurrentGremlin)
  <2>1. g - gCurrentGremlin + Size \in 1 .. Size
    BY <1>1, <1>3
  <2>2. Following(g - gCurrentGremlin + Size).gremlin = g
    BY <1>1, <2>1, FollowingFields
  <2> QED
    BY <1>3, <2>1, <2>2
<1> QED
  BY <1>2, <1>3

\* Those that were passed over have halted.
LEMMA SearchOrder ==
  ASSUME HordeTypes, NEW h, NEW next \in Search(h)
  PROVE  /\ next.gremlin \in Members /\ next.gremlin \notin h /\ next.depth \in Int
         /\ \/ /\ next.depth = gCurrentDepth /\ next.gremlin > gCurrentGremlin
               /\ \A g \in Members : gCurrentGremlin < g /\ g < next.gremlin => g \in h
            \/ /\ next.depth = IF gCurrentDepth >= 0 THEN gCurrentDepth + 1 ELSE gCurrentDepth
               /\ next.gremlin <= gCurrentGremlin
               /\ \A g \in Members : g > gCurrentGremlin \/ g < next.gremlin => g \in h
<1>1. PICK n \in 1 .. Size : /\ next = Following(n) /\ Following(n).gremlin \notin h
                             /\ \A j \in 1 .. (n - 1) : Following(j).gremlin \in h
  BY DEF Search
<1>2. /\ range.first \in Nat /\ range.last \in Nat /\ gCurrentGremlin \in Nat
      /\ range.first <= gCurrentGremlin /\ gCurrentGremlin <= range.last
      /\ Size = range.last - range.first + 1 /\ n \in Nat /\ Size \in Nat /\ 1 <= n /\ n <= Size
  BY MemberTypes DEF Size
<1>3. ASSUME NEW g \in Members
      PROVE  LET i == IF g > gCurrentGremlin THEN g - gCurrentGremlin ELSE g - gCurrentGremlin + Size
             IN  i < n => g \in h
  <2> DEFINE i == IF g > gCurrentGremlin THEN g - gCurrentGremlin ELSE g - gCurrentGremlin + Size
  <2>1. i \in 1 .. Size /\ Following(i).gremlin = g
    BY EachIsProposed
  <2> HIDE DEF i
  <2>2. i < n => i \in 1 .. (n - 1)
    BY <1>2, <2>1
  <2>3. i < n => g \in h
    BY <1>1, <2>1, <2>2
  <2> QED
    BY <2>3 DEF i
<1>4. \A g \in Members : g \in Nat /\ range.first <= g /\ g <= range.last
  BY <1>2 DEF Members
<1>5. next.gremlin \in Members /\ next.gremlin \notin h /\ next.depth \in Int
  BY <1>1, FollowingFields
<1>6. CASE gCurrentGremlin + n <= range.last
  <2>1. next.gremlin = gCurrentGremlin + n /\ next.depth = gCurrentDepth
    BY <1>1, <1>2, <1>6, FollowingFields
  <2>2. ASSUME NEW g \in Members, gCurrentGremlin < g, g < next.gremlin PROVE g \in h
    BY <1>2, <1>3, <1>4, <2>1, <2>2
  <2> QED
    BY <1>2, <1>5, <2>1, <2>2
<1>7. CASE ~(gCurrentGremlin + n <= range.last)
  <2>1. /\ next.gremlin = gCurrentGremlin + n - Size
        /\ next.depth = IF gCurrentDepth >= 0 THEN gCurrentDepth + 1 ELSE gCurrentDepth
    BY <1>1, <1>2, <1>7, FollowingFields
  <2>2. ASSUME NEW g \in Members, g > gCurrentGremlin \/ g < next.gremlin PROVE g \in h
    <3>1. CASE g > gCurrentGremlin
      BY <1>2, <1>3, <1>4, <1>7, <3>1
    <3>2. CASE ~(g > gCurrentGremlin) /\ g < next.gremlin
      BY <1>2, <1>3, <1>4, <2>1, <3>2
    <3> QED
      BY <2>2, <3>1, <3>2
  <2> QED
    BY <1>2, <1>5, <2>1, <2>2
<1> QED
  BY <1>6, <1>7

\* When none is found, all have halted.
LEMMA SearchFails ==
  ASSUME HordeTypes, NEW h, Search(h) = {}
  PROVE  Members \subseteq h
<1> DEFINE Left == {i \in 1 .. Size : Following(i).gremlin \notin h}
<1>1. SUFFICES ASSUME NEW g \in Members, g \notin h PROVE FALSE
  OBVIOUS
<1>2. Left # {} /\ Left \subseteq Nat
  <2>1. \E i \in 1 .. Size : Following(i).gremlin = g
    BY EachIsProposed
  <2> QED
    BY <1>1, <2>1, MemberTypes
<1>3. PICK n \in Left : \A j \in Left : ~(<<j, n>> \in OpToRel(<, Nat))
  BY <1>2, NatLessThanWellFounded, WFMin
<1>4. \A j \in Left : ~(j < n)
  BY <1>2, <1>3 DEF OpToRel
<1>5. \A j \in 1 .. (n - 1) : j \in 1 .. Size /\ j < n
  BY MemberTypes
<1>6. Following(n) \in Search(h)
  BY <1>4, <1>5 DEF Search
<1> QED
  BY <1>6

(***************************************************************************)
(* Moving on.                                                              *)
(***************************************************************************)
LEMMA NextGremlinFacts ==
  ASSUME HordeTypes, Running, NEW h \in SUBSET Numbers, NextGremlin(h)
  PROVE  /\ halted' = h /\ gIsOn' = FALSE /\ ended' \in BOOLEAN
         /\ UNCHANGED <<range, gSwitchDepth, gMaxDepth, gTheGremlin, device>>
         /\ fgEvents' \in Recordings
         /\ gCurrentGremlin' \in Members /\ gCurrentDepth' \in Int
         /\ \/ Members \subseteq h /\ ended' /\ scheduled' \subseteq {"loadRoot"}
            \/ \E next \in Search(h) :
                 /\ gCurrentGremlin' = next.gremlin /\ gCurrentDepth' = next.depth
                 /\ BeyondMaxDepth(next.depth) => ended' /\ scheduled' \subseteq {"loadRoot"}
                 /\ ~BeyondMaxDepth(next.depth) =>
                      /\ ended' = ended
                      /\ scheduled' = {IF next.depth = 0 THEN "fromRoot" ELSE "fromSuspended"}
<1>1. /\ halted' = h /\ gIsOn' = FALSE
      /\ UNCHANGED <<range, gSwitchDepth, gMaxDepth, gTheGremlin, device>>
  BY DEF NextGremlin
<1>2. scheduled = {} /\ ended \in BOOLEAN /\ fgEvents \in Recordings /\ Nothing \in Recordings
  BY NewRecording DEF HordeTypes, Running
<1> DEFINE over == Search(h) = {} \/ BeyondMaxDepth(gCurrentDepth')
<1>3. /\ fgEvents' = IF over THEN Nothing ELSE fgEvents
      /\ over => scheduled' \subseteq {"loadRoot"}
      /\ ~over => scheduled' = {IF gCurrentDepth' = 0 THEN "fromRoot" ELSE "fromSuspended"}
  BY <1>2 DEF NextGremlin
<1>4. fgEvents' \in Recordings
  BY <1>2, <1>3
<1>5. CASE /\ Search(h) = {}
           /\ UNCHANGED <<gCurrentGremlin, gCurrentDepth>>
           /\ ended' = TRUE
  <2>1. Members \subseteq h
    BY <1>5, SearchFails
  <2>2. gCurrentGremlin' \in Members /\ gCurrentDepth' \in Int
    BY <1>5 DEF HordeTypes
  <2> QED
    BY <1>1, <1>3, <1>4, <1>5, <2>1, <2>2
<1>6. ASSUME NEW next \in Search(h),
             gCurrentGremlin' = next.gremlin, gCurrentDepth' = next.depth,
             ended' = (ended \/ BeyondMaxDepth(next.depth))
      PROVE  /\ gCurrentGremlin' \in Members /\ gCurrentDepth' \in Int /\ ended' \in BOOLEAN
             /\ BeyondMaxDepth(next.depth) => ended' /\ scheduled' \subseteq {"loadRoot"}
             /\ ~BeyondMaxDepth(next.depth) =>
                  /\ ended' = ended
                  /\ scheduled' = {IF next.depth = 0 THEN "fromRoot" ELSE "fromSuspended"}
  <2>1. next.gremlin \in Members /\ next.depth \in Int
    BY <1>6, SearchOrder
  <2>2. BeyondMaxDepth(gCurrentDepth') <=> BeyondMaxDepth(next.depth)
    BY <1>6
  <2>3. ended' \in BOOLEAN /\ (BeyondMaxDepth(next.depth) => ended')
        /\ (~BeyondMaxDepth(next.depth) => ended' = ended)
    BY <1>2, <1>6, Zenon
  <2>4. Search(h) # {}
    BY <1>6
  <2>5. over <=> BeyondMaxDepth(next.depth)
    BY <2>2, <2>4
  <2> HIDE DEF over
  <2> QED
    BY <1>3, <1>6, <2>1, <2>3, <2>5
<1>7. \/ Search(h) = {} /\ UNCHANGED <<gCurrentGremlin, gCurrentDepth>> /\ ended' = TRUE
      \/ \E next \in Search(h) :
           /\ gCurrentGremlin' = next.gremlin /\ gCurrentDepth' = next.depth
           /\ ended' = (ended \/ BeyondMaxDepth(next.depth))
  BY Zenon DEF NextGremlin
<1>8. CASE \E next \in Search(h) :
             /\ gCurrentGremlin' = next.gremlin /\ gCurrentDepth' = next.depth
             /\ ended' = (ended \/ BeyondMaxDepth(next.depth))
  BY <1>1, <1>4, <1>6, <1>8
<1> QED
  BY <1>5, <1>7, <1>8, Zenon

\* The next Gremlin has its own state, wherever it will be loaded from.
LEMMA NextGremlinOwns ==
  ASSUME HInv, Running, NEW h \in SUBSET Numbers, NextGremlin(h),
         files' \in FileSet, files'.root = files.root, files'.suspended = files.suspended,
         reached' \in [Numbers -> Nat]
  PROVE  HInv'
<1>1. HordeTypes'
  <2>1. /\ halted' \subseteq Numbers /\ gIsOn' = FALSE /\ ended' \in BOOLEAN
        /\ UNCHANGED <<range, gSwitchDepth, gMaxDepth, gTheGremlin, device>>
        /\ fgEvents' \in Recordings
        /\ gCurrentGremlin' \in Members /\ gCurrentDepth' \in Int
    BY NextGremlinFacts DEF HInv
  <2> QED
    BY <2>1 DEF HordeTypes, Members, HInv
<1>2. OwnStates'
  <2>1. SUFFICES ASSUME ~ended' PROVE OwnStates!2'
    BY DEF OwnStates
  <2>2. PICK next \in Search(h) :
          /\ gCurrentGremlin' = next.gremlin /\ ended' = ended
          /\ scheduled' = {IF next.depth = 0 THEN "fromRoot" ELSE "fromSuspended"}
    BY <2>1, NextGremlinFacts DEF HInv
  <2>3. next.gremlin \notin h /\ halted' = h
    BY NextGremlinFacts, SearchOrder DEF HInv
  <2>4. scheduled' \in {{"fromRoot"}, {"fromSuspended"}} /\ ~Loaded'
    BY <2>2 DEF Loaded
  <2>5. files.root.device = NoEvents
        /\ \A g \in Numbers : Owns(files.suspended[g].device, files.suspended[g].gremlin, g)
    BY <2>1, <2>2 DEF HInv, OwnStates
  <2> QED
    BY <2>2, <2>3, <2>4, <2>5 DEF Owns
<1> QED
  BY <1>1, <1>2 DEF HInv

(***************************************************************************)
(* The steps.                                                              *)
(***************************************************************************)
LEMMA FreshType ==
  ASSUME NEW u \in Int, gMaxDepth' \in Int
  PROVE  /\ Fresh(u) \in GremlinSet /\ Fresh(u).inited /\ Fresh(u).counter = 0 /\ Fresh(u).until = u
         /\ Fresh(u).finalUntil = gMaxDepth' /\ Fresh(u).generated = 0
<1>1. TRUE \in BOOLEAN
  OBVIOUS
<1> QED
  BY <1>1, NewGremlin, Zenon DEF Fresh

LEMMA LeastType ==
  ASSUME NEW a \in Int, NEW b \in Int
  PROVE  /\ Least(a, b) \in Int /\ Least(a, b) <= a /\ Least(a, b) <= b
         /\ Least(a, b) = a \/ Least(a, b) = b
BY DEF Least

\* What New does, to a horde of any size and depth.
LEMMA NewFacts ==
  ASSUME HordeTypes, NEW last \in Numbers, NEW switch \in Int, NEW max \in Int, New(last, switch, max)
  PROVE  /\ HordeTypes'
         /\ range'.first = 0 /\ range'.last = last
         /\ gMaxDepth' = Depth(max) /\ gSwitchDepth' \in {Depth(max), Depth(switch)}
         /\ gCurrentDepth' = 0 /\ gCurrentGremlin' = 0 /\ halted' = {} /\ gIsOn' = TRUE
         /\ gTheGremlin'.inited /\ gTheGremlin'.counter = 0 /\ gTheGremlin'.generated = 0
         /\ gTheGremlin'.finalUntil = gMaxDepth'
         /\ gTheGremlin'.until = IF gMaxDepth' = Forever THEN gSwitchDepth' ELSE Least(gSwitchDepth', gMaxDepth')
         /\ device' = NoEvents
         /\ files'.root.gremlin = gTheGremlin' /\ files'.root.device = NoEvents /\ ~files'.root.on
         /\ files'.suspended = files.suspended
         /\ UNCHANGED <<scheduled, reached, ended>>
<1> DEFINE u == IF gMaxDepth' = Forever THEN gSwitchDepth' ELSE Least(gSwitchDepth', gMaxDepth')
           s == [gremlin |-> gTheGremlin', device |-> NoEvents, on |-> FALSE]
<1>1. /\ range' = [first |-> 0, last |-> last]
      /\ gMaxDepth' = Depth(max) /\ gSwitchDepth' \in {Depth(max), Depth(switch)}
      /\ gCurrentDepth' = 0 /\ gCurrentGremlin' = 0 /\ halted' = {} /\ gIsOn' = TRUE
      /\ gTheGremlin' = Fresh(u) /\ device' = NoEvents /\ fgEvents' = Nothing
      /\ files' = [files EXCEPT !.root = s]
      /\ UNCHANGED <<scheduled, reached, ended>>
  BY DEF New
<1>2. gMaxDepth' \in Int /\ gSwitchDepth' \in Int
  BY <1>1 DEF Depth, Forever
<1>3. u \in Int
  BY <1>1, <1>2, LeastType
<1> HIDE DEF u
<1>4. /\ gTheGremlin' \in GremlinSet /\ gTheGremlin'.inited /\ gTheGremlin'.counter = 0
      /\ gTheGremlin'.until = u /\ gTheGremlin'.finalUntil = gMaxDepth' /\ gTheGremlin'.generated = 0
  BY <1>1, <1>2, <1>3, FreshType
<1>5. s \in StateSet /\ s.gremlin = gTheGremlin' /\ s.device = NoEvents /\ s.on = FALSE
  <2>1. FALSE \in BOOLEAN
    OBVIOUS
  <2> QED
    BY <1>4, <2>1, NewDevice, NewState, Zenon
<1> HIDE DEF s
<1>6. files' \in FileSet /\ files'.root = s /\ files'.suspended = files.suspended
  BY <1>1, <1>5, FileUpdates, NumbersAreNaturals DEF HordeTypes
<1>7. range' \in [first : Numbers, last : Numbers] /\ range'.first = 0 /\ range'.last = last
  BY <1>1, NumbersAreNaturals
<1>8. gCurrentGremlin' \in Members'
  BY <1>1, <1>7, NumbersAreNaturals DEF Members
<1>9. HordeTypes'
  BY <1>1, <1>2, <1>4, <1>6, <1>7, <1>8, NewDevice, NewRecording DEF HordeTypes
<1> QED
  BY <1>1, <1>4, <1>5, <1>6, <1>7, <1>9 DEF u

LEMMA StartTypes ==
  ASSUME NEW d \in {Forever} \union 0 .. MaxRounds
  PROVE  d \in Int /\ Depth(d) \in Int /\ (Depth(d) = Forever \/ Depth(d) >= 1)
BY HordesAssumption DEF Depth, Forever

LEMMA StartHordeStep ==
  ASSUME HInv, StartHorde
  PROVE  HInv'
<1>1. PICK last \in Numbers, switch, max \in {Forever} \union 0 .. MaxRounds :
        New(last, switch, max)
  BY DEF StartHorde
<1>2. switch \in Int /\ max \in Int
  BY StartTypes
<1>3. /\ HordeTypes'
      /\ gCurrentGremlin' = 0 /\ halted' = {} /\ gTheGremlin'.generated = 0 /\ device' = NoEvents
      /\ files'.root.device = NoEvents /\ files'.suspended = files.suspended
      /\ UNCHANGED <<scheduled, ended>>
  BY <1>1, <1>2, NewFacts DEF HInv
<1>4. OwnStates'
  BY <1>3, NewDevice DEF HInv, OwnStates, Owns, Loaded
<1> QED
  BY <1>3, <1>4 DEF HInv

LEMMA StopStep ==
  ASSUME HInv, Stop
  PROVE  HInv'
BY DEF Stop, HInv, HordeTypes, OwnStates, Loaded, Members, Owns, horde

LEMMA ResumeStep ==
  ASSUME HInv, Resume
  PROVE  HInv'
<1>1. /\ gIsOn' = TRUE /\ gTheGremlin' = [gTheGremlin EXCEPT !.until = gTheGremlin.finalUntil]
      /\ UNCHANGED <<range, gSwitchDepth, gMaxDepth, gCurrentDepth, gCurrentGremlin, halted,
                     scheduled, device, fgEvents, files, reached, ended>>
  BY DEF Resume, horde
<1>2. gTheGremlin \in GremlinSet /\ gTheGremlin.finalUntil \in Int
  BY GremlinFields DEF HInv, HordeTypes
<1>3. gTheGremlin' \in GremlinSet /\ gTheGremlin'.generated = gTheGremlin.generated
  BY <1>1, <1>2, UntilUpdate
<1>4. HordeTypes'
  BY <1>1, <1>3 DEF HInv, HordeTypes, Members
<1>5. OwnStates'
  BY <1>1, <1>3 DEF HInv, OwnStates, Owns, Loaded
<1> QED
  BY <1>4, <1>5 DEF HInv

LEMMA StepStep ==
  ASSUME HInv, Step
  PROVE  HInv'
<1>1. /\ gIsOn' = TRUE /\ gCurrentDepth' = gMaxDepth
      /\ range' = [first |-> gCurrentGremlin, last |-> gCurrentGremlin]
      /\ gTheGremlin' = [gTheGremlin EXCEPT !.until = gTheGremlin.counter + 1]
      /\ UNCHANGED <<gSwitchDepth, gMaxDepth, gCurrentGremlin, halted, scheduled, device, fgEvents,
                     files, reached, ended>>
  BY DEF Step
<1>2. gTheGremlin \in GremlinSet /\ gTheGremlin.counter + 1 \in Int
  BY GremlinFields DEF HInv, HordeTypes
<1>3. gTheGremlin' \in GremlinSet /\ gTheGremlin'.generated = gTheGremlin.generated
  BY <1>1, <1>2, UntilUpdate
<1>4. /\ range' \in [first : Numbers, last : Numbers]
      /\ range'.first = gCurrentGremlin /\ range'.last = gCurrentGremlin
      /\ gCurrentGremlin \in Nat
  BY <1>1, MemberTypes DEF HInv
<1>5. gCurrentGremlin' \in Members'
  BY <1>1, <1>4 DEF Members
<1>6. HordeTypes'
  BY <1>1, <1>3, <1>4, <1>5 DEF HInv, HordeTypes
<1>7. OwnStates'
  BY <1>1, <1>3 DEF HInv, OwnStates, Owns, Loaded
<1> QED
  BY <1>6, <1>7 DEF HInv

\* An event posted: the Gremlin and the device count it together.
LEMMA GenerateFacts ==
  ASSUME HordeTypes, Running, NEW generates \in BOOLEAN, Generate(generates)
  PROVE  /\ gTheGremlin' \in GremlinSet /\ gTheGremlin'.counter = gTheGremlin.counter + 1
         /\ gTheGremlin'.inited = gTheGremlin.inited /\ gTheGremlin'.until = gTheGremlin.until
         /\ gTheGremlin'.finalUntil = gTheGremlin.finalUntil
         /\ fgEvents' \in Recordings
         /\ device' \in DeviceSet /\ device'.of = gCurrentGremlin
         /\ device'.count = gTheGremlin'.generated
         /\ scheduled = {}
         /\ scheduled' = IF Limited /\ gTheGremlin.until = gTheGremlin.counter + 1
                         THEN {"saveSuspended"} ELSE {}
         /\ UNCHANGED <<range, gSwitchDepth, gMaxDepth, gCurrentDepth, gCurrentGremlin, halted,
                        gIsOn, files, reached, ended>>
<1> DEFINE b == IF generates THEN 1 ELSE 0
<1>1. /\ gTheGremlin' = [gTheGremlin EXCEPT !.counter = @ + 1, !.generated = @ + b]
      /\ fgEvents' = IF generates THEN Recorded(fgEvents, gTheGremlin'.generated) ELSE fgEvents
      /\ device' = [of |-> gCurrentGremlin, count |-> gTheGremlin'.generated]
      /\ scheduled' = IF Limited /\ gTheGremlin.until = gTheGremlin'.counter
                      THEN scheduled \union {"saveSuspended"} ELSE scheduled
      /\ UNCHANGED <<range, gSwitchDepth, gMaxDepth, gCurrentDepth, gCurrentGremlin, halted,
                     gIsOn, files, reached, ended>>
  BY DEF Generate, horde
<1>2. b \in {0, 1}
  OBVIOUS
<1> HIDE DEF b
<1>3. /\ gTheGremlin' \in GremlinSet /\ gTheGremlin'.counter = gTheGremlin.counter + 1
      /\ gTheGremlin'.inited = gTheGremlin.inited /\ gTheGremlin'.until = gTheGremlin.until
      /\ gTheGremlin'.finalUntil = gTheGremlin.finalUntil
  BY <1>1, <1>2, CounterUpdate DEF HordeTypes
<1>4. gTheGremlin'.generated \in Nat /\ gCurrentGremlin \in Nat
  BY <1>3, GremlinFields, MemberTypes
<1>5. fgEvents' \in Recordings
  BY <1>1, <1>4, NewRecording DEF HordeTypes
<1>6. device' \in DeviceSet /\ device'.of = gCurrentGremlin /\ device'.count = gTheGremlin'.generated
  BY <1>1, <1>4, NewDevice
<1>7. scheduled = {}
  BY DEF Running
<1> QED
  BY <1>1, <1>3, <1>5, <1>6, <1>7

LEMMA GenerateStep ==
  ASSUME HInv, Running, NEW generates \in BOOLEAN, Generate(generates)
  PROVE  HInv'
<1>1. /\ gTheGremlin' \in GremlinSet /\ fgEvents' \in Recordings
      /\ device' \in DeviceSet /\ device'.of = gCurrentGremlin
      /\ device'.count = gTheGremlin'.generated
      /\ scheduled' \in {{}, {"saveSuspended"}}
      /\ UNCHANGED <<range, gSwitchDepth, gMaxDepth, gCurrentDepth, gCurrentGremlin, halted,
                     gIsOn, files, reached, ended>>
  BY GenerateFacts DEF HInv
<1>2. HordeTypes'
  BY <1>1 DEF HInv, HordeTypes, Members
<1>3. OwnStates'
  BY <1>1 DEF HInv, OwnStates, Owns
<1> QED
  BY <1>2, <1>3 DEF HInv

LEMMA SavedFacts ==
  ASSUME HordeTypes
  PROVE  Saved \in FileSet /\ Saved.root = files.root /\ Saved.suspended = files.suspended
BY FileUpdates, MemberTypes DEF HordeTypes, Saved

\* A Gremlin that stops at its limit has reached it.
LEMMA StopEventFacts ==
  ASSUME HordeTypes, StopEventReached
  PROVE  /\ Running /\ gTheGremlin.until > 0 /\ gTheGremlin.counter > gTheGremlin.until
         /\ NextGremlin(halted)
         /\ files' \in FileSet /\ files'.root = files.root /\ files'.suspended = files.suspended
         /\ reached' \in [Numbers -> Nat]
         /\ reached'[gCurrentGremlin] >= gTheGremlin.until
         /\ \A g \in Numbers : reached'[g] >= reached[g]
<1>1. /\ Running /\ gTheGremlin.until > 0 /\ gTheGremlin.counter > gTheGremlin.until
      /\ NextGremlin(halted)
      /\ reached' = [reached EXCEPT ![gCurrentGremlin] =
                       IF reached[gCurrentGremlin] < gTheGremlin.until THEN gTheGremlin.until
                       ELSE reached[gCurrentGremlin]]
      /\ files' = Saved
  BY DEF StopEventReached, PastLimit, Limited
<1>2. gTheGremlin.until \in Nat
  BY <1>1, GremlinFields DEF HordeTypes
<1>3. gCurrentGremlin \in Numbers /\ reached \in [Numbers -> Nat]
  BY MemberTypes DEF HordeTypes
<1> QED
  BY <1>1, <1>2, <1>3, SavedFacts

LEMMA StopEventStep ==
  ASSUME HInv, StopEventReached
  PROVE  HInv'
<1>1. halted \in SUBSET Numbers
  BY DEF HInv, HordeTypes
<1> QED
  BY <1>1, StopEventFacts, NextGremlinOwns DEF HInv

LEMMA ErrorFacts ==
  ASSUME HordeTypes, ErrorEncountered
  PROVE  /\ Running /\ halted \union {gCurrentGremlin} \in SUBSET Numbers
         /\ NextGremlin(halted \union {gCurrentGremlin})
         /\ files' \in FileSet /\ files'.root = files.root /\ files'.suspended = files.suspended
         /\ reached' = reached
<1>1. /\ Running /\ NextGremlin(halted \union {gCurrentGremlin})
      /\ files' = Saved /\ reached' = reached
  BY DEF ErrorEncountered
<1>2. halted \union {gCurrentGremlin} \in SUBSET Numbers
  BY MemberTypes DEF HordeTypes
<1> QED
  BY <1>1, <1>2, SavedFacts

LEMMA ErrorStep ==
  ASSUME HInv, ErrorEncountered
  PROVE  HInv'
<1>1. reached \in [Numbers -> Nat]
  BY DEF HInv, HordeTypes
<1> QED
  BY <1>1, ErrorFacts, NextGremlinOwns DEF HInv

(***************************************************************************)
(* EmSession::ExecuteSpecial.                                              *)
(***************************************************************************)
LEMMA SaveFacts ==
  ASSUME HordeTypes, SaveSuspendedState
  PROVE  LET s == [gremlin |-> gTheGremlin, device |-> device, on |-> gIsOn]
         IN  /\ Do("saveSuspended")
             /\ s.gremlin = gTheGremlin /\ s.device = device
             /\ files' \in FileSet /\ files'.root = files.root
             /\ files'.suspended[gCurrentGremlin] = s
             /\ \A g \in Numbers \ {gCurrentGremlin} : files'.suspended[g] = files.suspended[g]
             /\ UNCHANGED <<range, gSwitchDepth, gMaxDepth, gCurrentDepth, gCurrentGremlin, halted,
                            gIsOn, gTheGremlin, device, fgEvents, reached, ended>>
<1> DEFINE s == [gremlin |-> gTheGremlin, device |-> device, on |-> gIsOn]
<1>1. s \in StateSet /\ s.gremlin = gTheGremlin /\ s.device = device
  BY NewState DEF HordeTypes
<1>2. /\ Do("saveSuspended")
      /\ files' = [Saved EXCEPT !.suspended[gCurrentGremlin] = s]
      /\ UNCHANGED <<range, gSwitchDepth, gMaxDepth, gCurrentDepth, gCurrentGremlin, halted,
                     gIsOn, gTheGremlin, device, fgEvents, reached, ended>>
  BY DEF SaveSuspendedState, horde
<1> HIDE DEF s
<1>3. gCurrentGremlin \in Numbers
  BY MemberTypes
<1>4. /\ Saved \in FileSet /\ Saved.root = files.root /\ Saved.suspended = files.suspended
  BY SavedFacts
<1>5. /\ files' \in FileSet /\ files'.root = files.root
      /\ files'.suspended = [files.suspended EXCEPT ![gCurrentGremlin] = s]
  BY <1>1, <1>2, <1>3, <1>4, FileUpdates
<1>6. files.suspended \in [Numbers -> StateSet]
  BY FileFields DEF HordeTypes
<1>7. /\ files'.suspended[gCurrentGremlin] = s
      /\ \A g \in Numbers \ {gCurrentGremlin} : files'.suspended[g] = files.suspended[g]
  BY <1>3, <1>5, <1>6
<1> QED
  BY <1>1, <1>2, <1>5, <1>7 DEF s

LEMMA SaveStep ==
  ASSUME HInv, SaveSuspendedState
  PROVE  HInv'
<1>1. /\ Do("saveSuspended")
      /\ files' \in FileSet /\ files'.root = files.root
      /\ files'.suspended[gCurrentGremlin].gremlin = gTheGremlin
      /\ files'.suspended[gCurrentGremlin].device = device
      /\ \A g \in Numbers \ {gCurrentGremlin} : files'.suspended[g] = files.suspended[g]
      /\ UNCHANGED <<range, gSwitchDepth, gMaxDepth, gCurrentDepth, gCurrentGremlin, halted,
                     gIsOn, gTheGremlin, device, fgEvents, reached, ended>>
  BY SaveFacts DEF HInv
<1>2. HordeTypes'
  BY <1>1 DEF HInv, HordeTypes, Members
<1>3. OwnStates'
  <2>1. SUFFICES ASSUME ~ended PROVE OwnStates!2'
    BY <1>1 DEF OwnStates
  <2>2. scheduled = {"saveSuspended"} /\ scheduled' = {}
    <3>1. scheduled # {}
      BY <1>1 DEF Do
    <3>2. scheduled \in {{"saveSuspended"}, {"fromRoot"}, {"fromSuspended"}}
      BY <2>1, <3>1 DEF HInv, OwnStates
    <3>3. PICK f \in {"saveSuspended", "fromRoot", "fromSuspended"} : scheduled = {f}
      BY <3>2
    <3>4. "saveSuspended" = f /\ scheduled' = {}
      BY <1>1, <3>3, OnlyFlag
    <3> QED
      BY <3>3, <3>4
  <2>3. Owns(device, gTheGremlin, gCurrentGremlin)
    BY <2>1, <2>2 DEF HInv, OwnStates, Loaded
  <2>4. \A g \in Numbers : Owns(files'.suspended[g].device, files'.suspended[g].gremlin, g)
    <3>1. TAKE g \in Numbers
    <3>2. CASE g = gCurrentGremlin
      BY <1>1, <2>3, <3>2 DEF Owns
    <3>3. CASE g # gCurrentGremlin
      BY <1>1, <2>1, <3>3 DEF HInv, OwnStates
    <3> QED
      BY <3>2, <3>3
  <2> QED
    BY <1>1, <2>1, <2>2, <2>3, <2>4 DEF HInv, OwnStates, Owns
<1> QED
  BY <1>2, <1>3 DEF HInv

LEMMA LoadRootFacts ==
  ASSUME HordeTypes, LoadRootState
  PROVE  /\ Do("loadRoot")
         /\ gTheGremlin' \in GremlinSet /\ gTheGremlin'.inited = files.root.gremlin.inited
         /\ gTheGremlin'.finalUntil = files.root.gremlin.finalUntil
         /\ gIsOn' = files.root.on /\ gIsOn' \in BOOLEAN /\ device' \in DeviceSet /\ fgEvents' \in Recordings
         /\ UNCHANGED <<range, gSwitchDepth, gMaxDepth, gCurrentDepth, gCurrentGremlin, halted,
                        files, reached, ended>>
<1> DEFINE r == files.root
<1>1. /\ r \in StateSet /\ r.gremlin \in GremlinSet /\ r.device \in DeviceSet /\ r.on \in BOOLEAN
      /\ r.gremlin.finalUntil \in Int
  BY FileFields, StateFields, GremlinFields DEF HordeTypes
<1>2. /\ Do("loadRoot") /\ device' = r.device /\ gIsOn' = r.on /\ fgEvents' = Nothing
      /\ gTheGremlin' = [r.gremlin EXCEPT !.until = r.gremlin.finalUntil]
      /\ UNCHANGED <<range, gSwitchDepth, gMaxDepth, gCurrentDepth, gCurrentGremlin, halted,
                     files, reached, ended>>
  BY DEF LoadRootState, LoadState, horde
<1>3. /\ gTheGremlin' \in GremlinSet /\ gTheGremlin'.inited = r.gremlin.inited
      /\ gTheGremlin'.finalUntil = r.gremlin.finalUntil
  BY <1>1, <1>2, UntilUpdate
<1> QED
  BY <1>1, <1>2, <1>3, NewRecording

LEMMA LoadRootStep ==
  ASSUME HInv, LoadRootState
  PROVE  HInv'
<1>1. /\ Do("loadRoot")
      /\ gTheGremlin' \in GremlinSet /\ gIsOn' \in BOOLEAN
      /\ device' \in DeviceSet /\ fgEvents' \in Recordings
      /\ UNCHANGED <<range, gSwitchDepth, gMaxDepth, gCurrentDepth, gCurrentGremlin, halted,
                     files, reached, ended>>
  BY LoadRootFacts DEF HInv
<1>2. HordeTypes'
  BY <1>1 DEF HInv, HordeTypes, Members
<1>3. ended
  <2>1. SUFFICES ASSUME ~ended PROVE FALSE
    OBVIOUS
  <2>2. scheduled \in {{"saveSuspended"}, {"fromRoot"}, {"fromSuspended"}}
    BY <1>1, <2>1 DEF HInv, OwnStates, Do
  <2>3. PICK f \in {"saveSuspended", "fromRoot", "fromSuspended"} : scheduled = {f}
    BY <2>2
  <2>4. "loadRoot" = f
    BY <1>1, <2>3, OnlyFlag
  <2> QED
    BY <2>4
<1> QED
  BY <1>1, <1>2, <1>3 DEF HInv, OwnStates

LEMMA FromRootFacts ==
  ASSUME HordeTypes, StartGremlinFromLoadedRootState
  PROVE  /\ Do("fromRoot")
         /\ gTheGremlin' \in GremlinSet /\ gTheGremlin'.inited /\ gTheGremlin'.counter = 0
         /\ gTheGremlin'.generated = 0 /\ gTheGremlin'.finalUntil = gMaxDepth
         /\ gTheGremlin'.until =
              IF gMaxDepth = Forever THEN gSwitchDepth ELSE Least(gSwitchDepth, gMaxDepth)
         /\ device' = files.root.device /\ device' \in DeviceSet /\ fgEvents' \in Recordings
         /\ gIsOn' = TRUE
         /\ UNCHANGED <<range, gSwitchDepth, gMaxDepth, gCurrentDepth, gCurrentGremlin, halted,
                        files, reached, ended>>
<1> DEFINE u == IF gMaxDepth = Forever THEN gSwitchDepth ELSE Least(gSwitchDepth, gMaxDepth)
<1>1. /\ Do("fromRoot") /\ device' = files.root.device /\ fgEvents' = Nothing
      /\ gTheGremlin' = Fresh(u) /\ gIsOn' = TRUE
      /\ UNCHANGED <<range, gSwitchDepth, gMaxDepth, gCurrentDepth, gCurrentGremlin, halted,
                     files, reached, ended>>
  BY DEF StartGremlinFromLoadedRootState
<1>2. u \in Int /\ gMaxDepth' \in Int
  BY <1>1, LeastType DEF HordeTypes
<1>3. device' \in DeviceSet
  BY <1>1, FileFields, StateFields DEF HordeTypes
<1> HIDE DEF u
<1>4. /\ gTheGremlin' \in GremlinSet /\ gTheGremlin'.inited /\ gTheGremlin'.counter = 0
      /\ gTheGremlin'.generated = 0 /\ gTheGremlin'.finalUntil = gMaxDepth /\ gTheGremlin'.until = u
  BY <1>1, <1>2, FreshType
<1> QED
  BY <1>1, <1>3, <1>4, NewRecording DEF u

LEMMA FromRootStep ==
  ASSUME HInv, StartGremlinFromLoadedRootState
  PROVE  HInv'
<1>1. /\ Do("fromRoot")
      /\ gTheGremlin' \in GremlinSet /\ gTheGremlin'.generated = 0
      /\ device' = files.root.device /\ device' \in DeviceSet /\ fgEvents' \in Recordings
      /\ gIsOn' = TRUE
      /\ UNCHANGED <<range, gSwitchDepth, gMaxDepth, gCurrentDepth, gCurrentGremlin, halted,
                     files, reached, ended>>
  BY FromRootFacts DEF HInv
<1>2. HordeTypes'
  BY <1>1 DEF HInv, HordeTypes, Members
<1>3. OwnStates'
  <2>1. SUFFICES ASSUME ~ended PROVE OwnStates!2'
    BY <1>1 DEF OwnStates
  <2>2. scheduled' = {}
    <3>1. scheduled \in {{"saveSuspended"}, {"fromRoot"}, {"fromSuspended"}}
      BY <1>1, <2>1 DEF HInv, OwnStates, Do
    <3>2. PICK f \in {"saveSuspended", "fromRoot", "fromSuspended"} : scheduled = {f}
      BY <3>1
    <3> QED
      BY <1>1, <3>2, OnlyFlag
  <2>3. device' = NoEvents
    BY <1>1, <2>1 DEF HInv, OwnStates
  <2> QED
    BY <1>1, <2>1, <2>2, <2>3, NewDevice DEF HInv, OwnStates, Owns
<1> QED
  BY <1>2, <1>3 DEF HInv

LEMMA NextBarrierFacts ==
  ASSUME HordeTypes
  PROVE  /\ NextBarrier \in Int
         /\ Bounded => NextBarrier = Barrier(gCurrentDepth + 1)
<1>1. gSwitchDepth * (gCurrentDepth + 1) \in Int /\ gMaxDepth \in Int
  BY DEF HordeTypes
<1> QED
  BY <1>1, LeastType DEF NextBarrier, Bounded, Barrier

LEMMA FromSuspendedFacts ==
  ASSUME HordeTypes, StartGremlinFromLoadedSuspendedState
  PROVE  LET s == files.suspended[gCurrentGremlin]
         IN  /\ Do("fromSuspended")
             /\ gTheGremlin' \in GremlinSet /\ gTheGremlin'.inited = s.gremlin.inited
             /\ gTheGremlin'.counter = s.gremlin.counter
             /\ gTheGremlin'.generated = s.gremlin.generated
             /\ gTheGremlin'.finalUntil = s.gremlin.finalUntil
             /\ gTheGremlin'.until = NextBarrier
             /\ device' = s.device /\ device' \in DeviceSet /\ fgEvents' \in Recordings
             /\ gIsOn' = TRUE
             /\ UNCHANGED <<range, gSwitchDepth, gMaxDepth, gCurrentDepth, gCurrentGremlin, halted,
                            files, reached, ended>>
<1> DEFINE s == files.suspended[gCurrentGremlin]
<1>1. /\ Do("fromSuspended") /\ device' = s.device
      /\ gTheGremlin' = [s.gremlin EXCEPT !.until = NextBarrier]
      /\ fgEvents' = files.events[gCurrentGremlin] /\ gIsOn' = TRUE
      /\ UNCHANGED <<range, gSwitchDepth, gMaxDepth, gCurrentDepth, gCurrentGremlin, halted,
                     files, reached, ended>>
  BY DEF StartGremlinFromLoadedSuspendedState, horde
<1>2. gCurrentGremlin \in Numbers
  BY MemberTypes
<1>3. /\ files.suspended \in [Numbers -> StateSet]
      /\ files.events \in [Numbers -> Recordings]
  BY FileFields DEF HordeTypes
<1>4. s \in StateSet /\ files.events[gCurrentGremlin] \in Recordings
  BY <1>2, <1>3
<1> HIDE DEF s
<1>5. s.gremlin \in GremlinSet /\ s.device \in DeviceSet
  BY <1>4, StateFields
<1>6. /\ gTheGremlin' \in GremlinSet /\ gTheGremlin'.inited = s.gremlin.inited
      /\ gTheGremlin'.counter = s.gremlin.counter
      /\ gTheGremlin'.generated = s.gremlin.generated
      /\ gTheGremlin'.finalUntil = s.gremlin.finalUntil
      /\ gTheGremlin'.until = NextBarrier
  BY <1>1, <1>5, NextBarrierFacts, UntilUpdate
<1> QED
  BY <1>1, <1>4, <1>5, <1>6 DEF s

LEMMA FromSuspendedStep ==
  ASSUME HInv, StartGremlinFromLoadedSuspendedState
  PROVE  HInv'
<1> DEFINE s == files.suspended[gCurrentGremlin]
<1>1. /\ Do("fromSuspended")
      /\ gTheGremlin' \in GremlinSet /\ gTheGremlin'.generated = s.gremlin.generated
      /\ device' = s.device /\ device' \in DeviceSet /\ fgEvents' \in Recordings
      /\ gIsOn' = TRUE
      /\ UNCHANGED <<range, gSwitchDepth, gMaxDepth, gCurrentDepth, gCurrentGremlin, halted,
                     files, reached, ended>>
  BY FromSuspendedFacts DEF HInv
<1>2. HordeTypes'
  BY <1>1 DEF HInv, HordeTypes, Members
<1>3. OwnStates'
  <2>1. SUFFICES ASSUME ~ended PROVE OwnStates!2'
    BY <1>1 DEF OwnStates
  <2>2. scheduled' = {}
    <3>1. scheduled \in {{"saveSuspended"}, {"fromRoot"}, {"fromSuspended"}}
      BY <1>1, <2>1 DEF HInv, OwnStates, Do
    <3>2. PICK f \in {"saveSuspended", "fromRoot", "fromSuspended"} : scheduled = {f}
      BY <3>1
    <3> QED
      BY <1>1, <3>2, OnlyFlag
  <2>3. Owns(s.device, s.gremlin, gCurrentGremlin)
    BY <2>1, MemberTypes DEF HInv, OwnStates
  <2> QED
    BY <1>1, <2>1, <2>2, <2>3 DEF HInv, OwnStates, Owns
<1> QED
  BY <1>2, <1>3 DEF HInv

-----------------------------------------------------------------------------
LEMMA HordeInitially ==
  ASSUME HordesInit
  PROVE  HInv
<1>1. /\ range = [first |-> 0, last |-> 0] /\ gSwitchDepth = Forever /\ gMaxDepth = Forever
      /\ gCurrentDepth = 0 /\ gCurrentGremlin = 0 /\ halted = {}
      /\ gIsOn = FALSE /\ gTheGremlin = Blank.gremlin /\ scheduled = {}
      /\ device = NoEvents /\ fgEvents = Nothing
      /\ reached = [g \in Numbers |-> 0] /\ ended = FALSE
  BY DEF HordesInit
<1>2. files \in FileSet /\ files.root = Blank /\ \A g \in Numbers : files.suspended[g] = Blank
  BY NewFiles DEF HordesInit
<1>3. range \in [first : Numbers, last : Numbers] /\ gCurrentGremlin \in Members
  BY <1>1, NumbersAreNaturals DEF Members
<1>4. Forever \in Int
  BY DEF Forever
<1>5. HordeTypes
  <2>1. gTheGremlin \in GremlinSet /\ device \in DeviceSet /\ fgEvents \in Recordings
    BY <1>1, BlankState, NewDevice, NewRecording, Zenon
  <2>2. reached \in [Numbers -> Nat] /\ gCurrentDepth \in Int /\ halted \subseteq Numbers
    BY <1>1
  <2>3. gSwitchDepth \in Int /\ gMaxDepth \in Int /\ gIsOn \in BOOLEAN /\ ended \in BOOLEAN
    BY <1>1, <1>4, Zenon
  <2> QED
    BY <1>2, <1>3, <2>1, <2>2, <2>3, Zenon DEF HordeTypes
<1>6. OwnStates
  BY <1>1, <1>2, BlankState, NewDevice DEF OwnStates, Owns
<1> QED
  BY <1>5, <1>6 DEF HInv

LEMMA HordeStep ==
  ASSUME HInv, [HordesNext]_hordesVars
  PROVE  HInv'
<1>1. CASE StartHorde \/ Stop \/ Resume \/ Step
  BY <1>1, StartHordeStep, StopStep, ResumeStep, StepStep
<1>2. CASE RunGremlin
  <2>1. CASE PostFakeEvent
    BY <2>1, GenerateStep DEF PostFakeEvent
  <2>2. CASE PostFakePenEvent
    BY <2>2, GenerateStep DEF PostFakePenEvent
  <2> QED
    BY <1>2, <2>1, <2>2, StopEventStep DEF RunGremlin
<1>3. CASE ErrorEncountered
  BY <1>3, ErrorStep
<1>4. CASE ExecuteSpecial
  BY <1>4, SaveStep, LoadRootStep, FromRootStep, FromSuspendedStep DEF ExecuteSpecial
<1>5. CASE UNCHANGED hordesVars
  BY <1>5 DEF hordesVars, HInv, HordeTypes, OwnStates, Owns, Loaded, Members
<1> QED
  BY <1>1, <1>2, <1>3, <1>4, <1>5 DEF HordesNext

\* Whatever its size, depth and errors, and with Step pressed at any moment, a horde runs each
\* Gremlin on the device that this Gremlin left (Hordes::NextGremlin, EmSession::ExecuteSpecial).
THEOREM EachInItsOwnState == HordesSpec => []RunsInItsOwnState
<1>1. HordesInit => HInv
  BY HordeInitially
<1>2. HInv /\ [HordesNext]_hordesVars => HInv'
  BY HordeStep
<1>3. HInv => RunsInItsOwnState
  BY DEF HInv, OwnStates, RunsInItsOwnState, Running, Owns, Loaded
<1> QED
  BY <1>1, <1>2, <1>3, PTL DEF HordesSpec

(***************************************************************************)
(* Barriers.                                                               *)
(***************************************************************************)
LEMMA Multiples ==
  ASSUME NEW s \in Nat, NEW q \in Nat, NEW m \in Nat, m > q
  PROVE  s * m >= s * q + s
<1>1. PICK d \in Nat : m = q + 1 + d
  <2>1. m - q - 1 \in Nat /\ m = q + 1 + (m - q - 1)
    OBVIOUS
  <2> QED
    BY <2>1
<1>2. s * m = s * q + s + s * d
  BY <1>1
<1>3. s * d \in Nat /\ s * q \in Nat /\ s * m \in Nat
  OBVIOUS
<1> QED
  BY <1>2, <1>3

\* The test of NextGremlin on gMaxDepth / gSwitchDepth, which need not divide.
LEMMA BeyondArithmetic ==
  ASSUME NEW s \in Int, NEW k \in Int, s >= 1, k >= 1, NEW m \in Nat
  PROVE  /\ m > k \div s \/ (m = k \div s /\ k % s = 0) => s * m >= k
         /\ ~(0 > k \div s \/ (0 = k \div s /\ k % s = 0))
         /\ s * m \in Nat
         /\ m >= 1 => s * m >= s
<1>1. s \in Nat /\ k \in Nat
  OBVIOUS
<1>2. /\ k \div s \in Nat /\ k % s \in Nat /\ k % s < s
      /\ k = (s * (k \div s)) + (k % s)
  BY <1>1
<1> DEFINE q == k \div s
           r == k % s
<1>3. q \in Nat /\ r \in Nat /\ r < s /\ k = s * q + r
  BY <1>2
<1> HIDE DEF q, r
<1>4. s * q \in Nat /\ s * m \in Nat
  BY <1>1, <1>3
<1>5. m > q => s * m >= s * q + s
  BY <1>1, <1>3, Multiples
<1>6. m > q \/ (m = q /\ r = 0) => s * m >= k
  <2>1. CASE m > q
    BY <1>1, <1>3, <1>4, <1>5, <2>1
  <2>2. CASE m = q /\ r = 0
    BY <1>3, <1>4, <2>2
  <2> QED
    BY <2>1, <2>2
<1>7. ~(0 > q \/ (0 = q /\ r = 0))
  BY <1>3
<1>8. m >= 1 => s * m >= s
  <2>1. m > 0 => s * m >= s * 0 + s
    BY <1>1, Multiples
  <2>2. s * 0 = 0
    BY <1>1
  <2> QED
    BY <1>1, <1>4, <2>1, <2>2
<1> QED
  BY <1>4, <1>6, <1>7, <1>8 DEF q, r

LEMMA Barriers ==
  ASSUME gSwitchDepth \in Int, gMaxDepth \in Int, gSwitchDepth >= 1, gMaxDepth >= 1
  PROVE  /\ Barrier(0) = 0
         /\ Barrier(1) = Least(gSwitchDepth, gMaxDepth)
         /\ \A d \in Nat : /\ Barrier(d) \in Int /\ Barrier(d) <= gMaxDepth
                           /\ d >= 1 => Barrier(d) >= 1
                           /\ BeyondMaxDepth(d) => Barrier(d) = gMaxDepth
<1>1. gSwitchDepth * 0 = 0 /\ gSwitchDepth * 1 = gSwitchDepth
  OBVIOUS
<1>2. \A d \in Nat : /\ gSwitchDepth * d \in Nat
                     /\ d >= 1 => gSwitchDepth * d >= gSwitchDepth
                     /\ BeyondMaxDepth(d) => gSwitchDepth * d >= gMaxDepth
  BY BeyondArithmetic DEF BeyondMaxDepth, LastRound, Rest, Forever
<1>3. ASSUME NEW d \in Nat
      PROVE  /\ Barrier(d) \in Int /\ Barrier(d) <= gMaxDepth
             /\ d >= 1 => Barrier(d) >= 1
             /\ BeyondMaxDepth(d) => Barrier(d) = gMaxDepth
  BY <1>2 DEF Barrier, Least
<1>4. Barrier(0) = 0
  BY <1>1 DEF Barrier, Least
<1>5. Barrier(1) = Least(gSwitchDepth, gMaxDepth)
  BY <1>1 DEF Barrier
<1> QED
  BY <1>3, <1>4, <1>5

(***************************************************************************)
(* Rounds.                                                                 *)
(***************************************************************************)
\* One flag at a time: only the end of the horde loads the root state.
LEMMA SingleFlag ==
  ASSUME HInv, Stages, NEW flag, Do(flag)
  PROVE  /\ scheduled = {flag} /\ scheduled' = {} /\ gTheGremlin.inited
         /\ ended <=> flag = "loadRoot"
<1>1. scheduled # {}
  BY DEF Do
<1>2. \/ ended /\ scheduled = {"loadRoot"}
      \/ ~ended /\ scheduled \in {{"saveSuspended"}, {"fromRoot"}, {"fromSuspended"}}
  BY <1>1 DEF Stages, Finished, HInv, OwnStates
<1>3. PICK f \in {"saveSuspended", "loadRoot", "fromRoot", "fromSuspended"} :
        scheduled = {f} /\ (ended <=> f = "loadRoot")
  BY <1>2
<1>4. flag = f /\ scheduled' = {}
  BY <1>3, OnlyFlag
<1> QED
  BY <1>1, <1>3, <1>4 DEF Stages, Started

LEMMA StartHordeStage ==
  ASSUME HInv, Stages, StartHorde
  PROVE  (Zero \/ Stages)'
<1>1. PICK last \in Numbers, switch, max \in {Forever} \union 0 .. MaxRounds :
        New(last, switch, max)
  BY DEF StartHorde
<1>2. switch \in Int /\ max \in Int
  BY StartTypes
<1>3. ~gTheGremlin.inited /\ scheduled = {} /\ ~ended
      /\ \A g \in Numbers : ~files.suspended[g].gremlin.inited
  BY DEF StartHorde, Stages, Started
<1>4. /\ HordeTypes'
      /\ range'.first = 0
      /\ gMaxDepth' = Depth(max) /\ gSwitchDepth' \in {Depth(max), Depth(switch)}
      /\ gCurrentDepth' = 0 /\ gCurrentGremlin' = 0
      /\ gTheGremlin'.inited /\ gTheGremlin'.counter = 0 /\ gTheGremlin'.finalUntil = gMaxDepth'
      /\ gTheGremlin'.until = IF gMaxDepth' = Forever THEN gSwitchDepth' ELSE Least(gSwitchDepth', gMaxDepth')
      /\ files'.root.gremlin = gTheGremlin' /\ ~files'.root.on
      /\ files'.suspended = files.suspended
      /\ UNCHANGED <<scheduled, reached, ended>>
  BY <1>1, <1>2, NewFacts DEF HInv
<1>13. /\ gSwitchDepth' \in Int /\ gMaxDepth' \in Int
       /\ gSwitchDepth' = Forever \/ gSwitchDepth' >= 1
       /\ gMaxDepth' = Forever \/ gMaxDepth' >= 1
  BY <1>4, StartTypes
<1>14. CASE ZeroSwitch'
  BY <1>3, <1>4, <1>13, <1>14 DEF Zero, ZeroSwitch
<1> SUFFICES ASSUME ~ZeroSwitch' PROVE Stages'
  BY <1>14
<1>5. Bounded' => /\ gSwitchDepth' >= 1 /\ gMaxDepth' >= 1
                  /\ gSwitchDepth' \in Int /\ gMaxDepth' \in Int
  BY <1>13 DEF Bounded, ZeroSwitch
<1>6. Started'
  BY <1>3, <1>4, <1>5 DEF Started
<1>7. Finished'
  BY <1>3, <1>4 DEF Finished
<1>8. ~BeyondMaxDepth(gCurrentDepth)'
  BY <1>4, <1>5, BeyondArithmetic DEF BeyondMaxDepth, LastRound, Rest, Bounded, Forever
<1>9. Bounded' => /\ Least(gSwitchDepth' * 0, gMaxDepth') = 0
                  /\ Least(gSwitchDepth' * 1, gMaxDepth') = Least(gSwitchDepth', gMaxDepth')
  BY <1>5 DEF Least
<1>10. \A g \in (Members \ halted)' : Progress(g)'
  <2>1. SUFFICES ASSUME NEW g \in Members' PROVE Progress(g)'
    OBVIOUS
  <2>2. g \in Nat /\ g \in Numbers
    <3>1. range' \in [first : Numbers, last : Numbers]
      BY <1>4 DEF HordeTypes
    <3>2. range'.last \in Numbers
      BY <3>1, RangeFields
    <3>3. g \in range'.first .. range'.last
      BY DEF Members
    <3> QED
      BY <1>4, <3>2, <3>3, HordesAssumption DEF Numbers
  <2>3. Due(g)' = 0
    BY <1>4, <2>2 DEF Due
  <2>4. reached'[g] \in Nat
    BY <1>4, <2>2 DEF HordeTypes
  <2>5. Bounded' => Barrier(Due(g))' = 0
    BY <1>9, <2>3 DEF Barrier
  <2> QED
    BY <2>3, <2>4, <2>5 DEF Progress
<1>11. OnItsWay'
  <2>1. Bounded' => gTheGremlin'.until = Barrier(gCurrentDepth + 1)' /\ gTheGremlin'.until <= gMaxDepth'
    <3>1. SUFFICES ASSUME Bounded'
                   PROVE  gTheGremlin'.until = Barrier(gCurrentDepth + 1)' /\ gTheGremlin'.until <= gMaxDepth'
      OBVIOUS
    <3>2. gTheGremlin'.until = Least(gSwitchDepth', gMaxDepth') /\ gCurrentDepth' + 1 = 1
      BY <1>4, <3>1 DEF Bounded
    <3>3. gTheGremlin'.until <= gMaxDepth'
      BY <1>5, <3>1, <3>2, LeastType
    <3> QED
      BY <1>9, <3>1, <3>2, <3>3 DEF Barrier
  <2>2. gTheGremlin'.until \in Int
    BY <1>4, <1>13, LeastType
  <2> QED
    BY <1>4, <2>1, <2>2 DEF OnItsWay, Limited, Barrier
<1>12. Rounds'
  BY <1>3, <1>4, <1>8, <1>10, <1>11 DEF Rounds
<1> QED
  BY <1>6, <1>7, <1>12 DEF Stages

LEMMA StopStage ==
  ASSUME HInv, Stages, Stop
  PROVE  Stages'
<1>1. /\ gIsOn' = FALSE
      /\ UNCHANGED <<range, gSwitchDepth, gMaxDepth, gCurrentDepth, gCurrentGremlin, halted,
                     gTheGremlin, scheduled, device, fgEvents, files, reached, ended>>
  BY DEF Stop, horde
<1>2. Started'
  BY <1>1 DEF Stages, Started, Bounded
<1>3. Finished'
  BY <1>1 DEF Stages, Finished, Bounded, Members
<1>4. Rounds'
  BY <1>1 DEF Stages, Rounds, OnItsWay, Progress, Due, Barrier, Bounded, Limited, Loaded,
              Members, BeyondMaxDepth, LastRound, Rest
<1> QED
  BY <1>2, <1>3, <1>4 DEF Stages

LEMMA ResumeStage ==
  ASSUME HInv, Stages, Resume
  PROVE  Stages'
<1>1. /\ gIsOn' = TRUE /\ gTheGremlin' = [gTheGremlin EXCEPT !.until = gTheGremlin.finalUntil]
      /\ UNCHANGED <<range, gSwitchDepth, gMaxDepth, gCurrentDepth, gCurrentGremlin, halted,
                     scheduled, device, fgEvents, files, reached, ended>>
      /\ gTheGremlin.inited /\ scheduled = {} /\ ~ended
  BY DEF Resume, CanResume, horde
<1>2. gTheGremlin \in GremlinSet /\ gTheGremlin.finalUntil \in Int
  BY GremlinFields DEF HInv, HordeTypes
<1>3. /\ gTheGremlin'.inited /\ gTheGremlin'.counter = gTheGremlin.counter
      /\ gTheGremlin'.finalUntil = gTheGremlin.finalUntil
      /\ gTheGremlin'.until = gTheGremlin.finalUntil
  BY <1>1, <1>2, UntilUpdate
<1>4. gTheGremlin.finalUntil = gMaxDepth /\ gCurrentDepth >= 0
  BY <1>1 DEF Stages, Started
<1>5. Started'
  BY <1>1, <1>3 DEF Stages, Started, Bounded
<1>6. Finished'
  BY <1>1 DEF Finished
<1>7. OnItsWay'
  <2>1. OnItsWay
    BY <1>1 DEF Stages, Rounds, Loaded
  <2>2. CASE Bounded
    <3>1. /\ gSwitchDepth \in Int /\ gMaxDepth \in Int /\ gSwitchDepth >= 1 /\ gMaxDepth >= 1
          /\ gCurrentDepth + 1 \in Nat /\ gCurrentDepth + 1 >= 1
      BY <1>1, <1>4, <2>2 DEF Stages, Started, HInv, HordeTypes
    <3>2. /\ Barrier(gCurrentDepth + 1) <= gMaxDepth /\ Barrier(gCurrentDepth + 1) >= 1
          /\ Barrier(gCurrentDepth + 1) \in Int
      BY <3>1, Barriers
    <3>3. Barrier(gCurrentDepth + 1)' = Barrier(gCurrentDepth + 1)
      BY <1>1 DEF Barrier
    <3>4. gTheGremlin.counter \in Nat /\ gTheGremlin.until \in Int
      BY <1>2, GremlinFields
    <3>5. gTheGremlin.until >= Barrier(gCurrentDepth + 1) /\ gTheGremlin.until <= gMaxDepth
      BY <2>1, <2>2 DEF OnItsWay
    <3>6. gTheGremlin.counter >= gMaxDepth => Limited /\ gTheGremlin.counter >= gTheGremlin.until
      BY <3>1, <3>2, <3>4, <3>5 DEF Limited
    <3>7. gTheGremlin.counter >= gMaxDepth =>
            files.suspended[gCurrentGremlin].gremlin.inited \/ scheduled = {"saveSuspended"}
      BY <2>1, <3>6 DEF OnItsWay
    <3> QED
      BY <1>1, <1>3, <1>4, <3>1, <3>2, <3>3, <3>7 DEF OnItsWay
  <2>3. CASE ~Bounded
    BY <1>1, <1>3, <1>4, <2>3 DEF OnItsWay, Bounded, Limited, Forever
  <2> QED
    BY <2>2, <2>3
<1>8. Rounds'
  <2>1. \A g \in Members \ halted : Progress(g)
    BY <1>1 DEF Stages, Rounds
  <2>2. ~BeyondMaxDepth(gCurrentDepth)
    BY <1>1 DEF Stages, Rounds
  <2> QED
    BY <1>1, <1>7, <2>1, <2>2 DEF Rounds, Progress, Due, Barrier, Bounded, Members, BeyondMaxDepth, LastRound, Rest
<1> QED
  BY <1>5, <1>6, <1>8 DEF Stages

LEMMA GenerateStage ==
  ASSUME HInv, Stages, Running, NEW generates \in BOOLEAN, Generate(generates)
  PROVE  Stages'
<1>1. /\ gTheGremlin'.counter = gTheGremlin.counter + 1
      /\ gTheGremlin'.inited = gTheGremlin.inited /\ gTheGremlin'.until = gTheGremlin.until
      /\ gTheGremlin'.finalUntil = gTheGremlin.finalUntil
      /\ scheduled = {}
      /\ scheduled' = IF Limited /\ gTheGremlin.until = gTheGremlin.counter + 1
                      THEN {"saveSuspended"} ELSE {}
      /\ UNCHANGED <<range, gSwitchDepth, gMaxDepth, gCurrentDepth, gCurrentGremlin, halted,
                     gIsOn, files, reached, ended>>
  BY GenerateFacts DEF HInv
<1>2. gIsOn /\ gTheGremlin.inited /\ ~ended
  BY DEF Running, Stages, Started, Finished
<1>3. Started'
  BY <1>1, <1>2 DEF Stages, Started, Bounded
<1>4. Finished'
  BY <1>1, <1>2 DEF Finished
<1>5. OnItsWay'
  <2>1. OnItsWay
    BY <1>1, <1>2 DEF Stages, Rounds, Loaded
  <2>2. gTheGremlin.counter \in Nat /\ gTheGremlin.until \in Int
    BY GremlinFields DEF HInv, HordeTypes
  <2>3. Limited' <=> Limited
    BY <1>1 DEF Limited
  <2>4. Limited /\ gTheGremlin.counter + 1 >= gTheGremlin.until =>
          files.suspended[gCurrentGremlin].gremlin.inited \/ scheduled' = {"saveSuspended"}
    <3>1. CASE gTheGremlin.counter >= gTheGremlin.until
      BY <1>1, <2>1, <3>1 DEF OnItsWay
    <3>2. CASE ~(gTheGremlin.counter >= gTheGremlin.until)
      BY <1>1, <2>2, <3>2
    <3> QED
      BY <3>1, <3>2
  <2>5. Bounded' => /\ gTheGremlin'.until >= Barrier(gCurrentDepth + 1)'
                    /\ gTheGremlin'.until <= gMaxDepth'
    BY <1>1, <2>1 DEF OnItsWay, Barrier, Bounded
  <2> QED
    BY <1>1, <2>3, <2>4, <2>5 DEF OnItsWay
<1>6. Rounds'
  <2>1. /\ \A g \in Members \ halted : Progress(g)
        /\ ~BeyondMaxDepth(gCurrentDepth)
    BY <1>2 DEF Stages, Rounds
  <2>2. scheduled' # {"fromRoot"} /\ scheduled' # {"fromSuspended"}
    BY <1>1
  <2> QED
    BY <1>1, <1>5, <2>1, <2>2 DEF Rounds, Progress, Due, Barrier, Bounded, Members, BeyondMaxDepth, LastRound, Rest
<1> QED
  BY <1>3, <1>4, <1>6 DEF Stages

\* The round goes on: the Gremlins passed over have halted, and the one that stops has had its share.
LEMMA NextGremlinStage ==
  ASSUME HInv, Stages, Running, NEW h \in SUBSET Numbers, halted \subseteq h, NextGremlin(h),
         files'.root = files.root, files'.suspended = files.suspended,
         reached' \in [Numbers -> Nat], \A g \in Numbers : reached'[g] >= reached[g],
         gCurrentGremlin \notin h =>
           /\ Bounded => reached'[gCurrentGremlin] >= Barrier(gCurrentDepth + 1)
           /\ files.suspended[gCurrentGremlin].gremlin.inited
  PROVE  Stages'
<1>1. /\ halted' = h /\ gIsOn' = FALSE
      /\ UNCHANGED <<range, gSwitchDepth, gMaxDepth, gTheGremlin, device>>
      /\ gCurrentGremlin' \in Members /\ gCurrentDepth' \in Int
      /\ \/ Members \subseteq h /\ ended' /\ scheduled' \subseteq {"loadRoot"}
         \/ \E next \in Search(h) :
              /\ gCurrentGremlin' = next.gremlin /\ gCurrentDepth' = next.depth
              /\ BeyondMaxDepth(next.depth) => ended' /\ scheduled' \subseteq {"loadRoot"}
              /\ ~BeyondMaxDepth(next.depth) =>
                   /\ ended' = ended
                   /\ scheduled' = {IF next.depth = 0 THEN "fromRoot" ELSE "fromSuspended"}
  BY NextGremlinFacts DEF HInv
<1>2. gIsOn /\ gTheGremlin.inited /\ ~ended
  BY DEF Running, Stages, Started, Finished
<1>3. /\ Bounded => gSwitchDepth >= 1 /\ gMaxDepth >= 1
      /\ gCurrentDepth >= 0 /\ gCurrentDepth \in Int /\ gSwitchDepth \in Int /\ gMaxDepth \in Int
  BY <1>2 DEF Stages, Started, HInv, HordeTypes
<1>4. ~BeyondMaxDepth(gCurrentDepth) /\ \A g \in Members \ halted : Progress(g)
  BY <1>2 DEF Stages, Rounds
<1>5. /\ gCurrentGremlin \in Nat /\ gCurrentGremlin \in Numbers
      /\ \A g \in Members : g \in Nat /\ g \in Numbers /\ reached[g] \in Nat /\ reached'[g] \in Nat
  BY MemberTypes DEF HInv, HordeTypes
<1>6. CASE Members \subseteq h /\ ended' /\ scheduled' \subseteq {"loadRoot"}
  <2>1. \A g \in Members' : g \in halted'
    BY <1>1, <1>6 DEF Members
  <2>2. Finished'
    BY <1>1, <1>6, <2>1 DEF Finished
  <2>3. Rounds'
    BY <1>6 DEF Rounds
  <2>4. gCurrentDepth' >= 0
    BY <1>1, <1>3, SearchOrder DEF NextGremlin, HInv
  <2>5. Started'
    BY <1>1, <1>2, <2>4 DEF Stages, Started, Bounded
  <2> QED
    BY <2>2, <2>3, <2>5 DEF Stages
<1>7. ASSUME NEW next \in Search(h),
             gCurrentGremlin' = next.gremlin, gCurrentDepth' = next.depth,
             BeyondMaxDepth(next.depth) => ended' /\ scheduled' \subseteq {"loadRoot"},
             ~BeyondMaxDepth(next.depth) =>
                   /\ ended' = ended
                   /\ scheduled' = {IF next.depth = 0 THEN "fromRoot" ELSE "fromSuspended"}
      PROVE  Stages'
  <2>1. /\ next.gremlin \in Members /\ next.gremlin \notin h
        /\ \/ /\ next.depth = gCurrentDepth /\ next.gremlin > gCurrentGremlin
              /\ \A g \in Members : gCurrentGremlin < g /\ g < next.gremlin => g \in h
           \/ /\ next.depth = gCurrentDepth + 1
              /\ next.gremlin <= gCurrentGremlin
              /\ \A g \in Members : g > gCurrentGremlin \/ g < next.gremlin => g \in h
    BY <1>3, <1>7, SearchOrder DEF HInv
  <2> DEFINE NewDue(g) == IF g < next.gremlin THEN next.depth + 1 ELSE next.depth
             Stays(g) == /\ Bounded => reached'[g] >= Barrier(NewDue(g))
                         /\ NewDue(g) >= 1 => files.suspended[g].gremlin.inited
  <2>2. ASSUME NEW g \in Members, g \notin h PROVE Stays(g)
    <3>1. CASE g = gCurrentGremlin
      <4>1. NewDue(g) = gCurrentDepth + 1
        BY <1>3, <1>5, <2>1, <3>1
      <4> QED
        BY <2>2, <3>1, <4>1
    <3>2. CASE g # gCurrentGremlin
      <4>1. NewDue(g) = Due(g)
        BY <1>3, <1>5, <2>1, <2>2, <3>2 DEF Due
      <4>2. Progress(g)
        BY <1>4, <2>2
      <4>3. Bounded => Barrier(Due(g)) \in Int
        <5>1. Due(g) \in Nat
          BY <1>3 DEF Due
        <5> QED
          BY <1>3, <5>1, Barriers
      <4>4. reached'[g] \in Nat /\ reached[g] \in Nat /\ reached'[g] >= reached[g]
        BY <1>5
      <4>5. Bounded => reached'[g] >= Barrier(Due(g))
        BY <4>2, <4>3, <4>4 DEF Progress
      <4> HIDE DEF NewDue
      <4> QED
        BY <4>1, <4>2, <4>5 DEF Progress
    <3> QED
      BY <3>1, <3>2
  <2>3. next.depth \in Int /\ next.depth >= 0
    BY <1>1, <1>3, <1>7, <2>1
  <2>4. Started'
    BY <1>1, <1>2, <1>7, <2>3 DEF Stages, Started, Bounded
  <2>5. CASE BeyondMaxDepth(next.depth)
    <3>1. Bounded /\ next.depth = gCurrentDepth + 1
      BY <1>4, <2>1, <2>5 DEF BeyondMaxDepth, Bounded
    <3>2. Barrier(next.depth) = gMaxDepth
      BY <1>3, <2>3, <2>5, <3>1, Barriers
    <3>3. ASSUME NEW g \in Members, g \notin h PROVE reached'[g] >= gMaxDepth
      <4>1. g >= next.gremlin
        BY <1>3, <1>5, <2>1, <3>1, <3>3
      <4>2. NewDue(g) = next.depth
        BY <1>5, <2>1, <4>1
      <4> QED
        BY <2>2, <3>1, <3>2, <3>3, <4>2
    <3>4. Finished'
      BY <1>1, <1>7, <2>5, <3>1, <3>3 DEF Finished, Bounded, Members
    <3>5. Rounds'
      BY <1>7, <2>5 DEF Rounds
    <3> QED
      BY <2>4, <3>4, <3>5 DEF Stages
  <2>6. CASE ~BeyondMaxDepth(next.depth)
    <3>1. ended' = ended /\ scheduled' = {IF next.depth = 0 THEN "fromRoot" ELSE "fromSuspended"}
      BY <1>7, <2>6
    <3>2. Finished'
      BY <1>2, <3>1 DEF Finished
    <3>3. \A g \in (Members \ halted)' : Progress(g)'
      <4>1. SUFFICES ASSUME NEW g \in Members, g \notin h PROVE Progress(g)'
        BY <1>1 DEF Members
      <4>2. Stays(g)
        BY <2>2, <4>1
      <4>3. Due(g)' = NewDue(g)
        BY <1>7 DEF Due
      <4>4. Barrier(Due(g))' = Barrier(NewDue(g))
        BY <1>1, <4>3 DEF Barrier
      <4> HIDE DEF NewDue
      <4> QED
        BY <1>1, <4>2, <4>3, <4>4 DEF Progress, Bounded
    <3>4. next.depth >= 1 => files.suspended[next.gremlin].gremlin.inited
      <4>1. NewDue(next.gremlin) = next.depth
        BY <1>5, <2>1
      <4> QED
        BY <2>1, <2>2, <4>1
    <3>5. ~Loaded'
      BY <3>1 DEF Loaded
    <3>6. scheduled' = {"fromRoot"} => gCurrentDepth' = 0
      BY <1>7, <3>1
    <3>7. scheduled' = {"fromSuspended"} => files'.suspended[gCurrentGremlin'].gremlin.inited
      BY <1>7, <2>3, <3>1, <3>4
    <3>8. ~BeyondMaxDepth(gCurrentDepth)'
      BY <1>1, <1>7, <2>6 DEF BeyondMaxDepth, LastRound, Rest
    <3>9. Rounds'
      BY <3>3, <3>5, <3>6, <3>7, <3>8 DEF Rounds
    <3> QED
      BY <2>4, <3>2, <3>9 DEF Stages
  <2> QED
    BY <2>5, <2>6
<1> QED
  BY <1>1, <1>6, <1>7, Zenon

LEMMA StopEventStage ==
  ASSUME HInv, Stages, StopEventReached
  PROVE  Stages'
<1>1. /\ Running /\ gTheGremlin.until > 0 /\ gTheGremlin.counter > gTheGremlin.until
      /\ NextGremlin(halted)
      /\ files'.root = files.root /\ files'.suspended = files.suspended
      /\ reached' \in [Numbers -> Nat]
      /\ reached'[gCurrentGremlin] >= gTheGremlin.until
      /\ \A g \in Numbers : reached'[g] >= reached[g]
  BY StopEventFacts DEF HInv
<1>2. gTheGremlin.inited /\ ~ended /\ scheduled = {}
  BY <1>1 DEF Running, Stages, Started, Finished
<1>3. OnItsWay
  BY <1>2 DEF Stages, Rounds, Loaded
<1>4. files.suspended[gCurrentGremlin].gremlin.inited
  <2>1. gTheGremlin.counter \in Nat /\ gTheGremlin.until \in Int
    BY GremlinFields DEF HInv, HordeTypes
  <2> QED
    BY <1>1, <1>2, <1>3, <2>1 DEF OnItsWay, Limited
<1>5. Bounded => reached'[gCurrentGremlin] >= Barrier(gCurrentDepth + 1)
  <2>1. SUFFICES ASSUME Bounded PROVE reached'[gCurrentGremlin] >= Barrier(gCurrentDepth + 1)
    OBVIOUS
  <2>2. /\ gSwitchDepth \in Int /\ gMaxDepth \in Int /\ gSwitchDepth >= 1 /\ gMaxDepth >= 1
        /\ gCurrentDepth + 1 \in Nat
    BY <1>2, <2>1 DEF Stages, Started, HInv, HordeTypes
  <2>3. Barrier(gCurrentDepth + 1) \in Int
    BY <2>2, Barriers
  <2>4. gTheGremlin.until \in Int /\ reached'[gCurrentGremlin] \in Nat
    BY <1>1, GremlinFields, MemberTypes DEF HInv, HordeTypes
  <2> QED
    BY <1>1, <1>3, <2>1, <2>3, <2>4 DEF OnItsWay
<1>6. halted \in SUBSET Numbers
  BY DEF HInv, HordeTypes
<1> QED
  BY <1>1, <1>4, <1>5, <1>6, NextGremlinStage

LEMMA ErrorStage ==
  ASSUME HInv, Stages, ErrorEncountered
  PROVE  Stages'
<1>1. /\ Running /\ halted \union {gCurrentGremlin} \in SUBSET Numbers
      /\ NextGremlin(halted \union {gCurrentGremlin})
      /\ files'.root = files.root /\ files'.suspended = files.suspended
      /\ reached' = reached
  BY ErrorFacts DEF HInv
<1>2. reached' \in [Numbers -> Nat] /\ \A g \in Numbers : reached'[g] >= reached[g]
  BY <1>1 DEF HInv, HordeTypes
<1>3. halted \subseteq halted \union {gCurrentGremlin}
      /\ gCurrentGremlin \in halted \union {gCurrentGremlin}
  OBVIOUS
<1> QED
  BY <1>1, <1>2, <1>3, NextGremlinStage

LEMMA SaveStage ==
  ASSUME HInv, Stages, SaveSuspendedState
  PROVE  Stages'
<1>1. /\ Do("saveSuspended")
      /\ files'.root = files.root
      /\ files'.suspended[gCurrentGremlin].gremlin = gTheGremlin
      /\ \A g \in Numbers \ {gCurrentGremlin} : files'.suspended[g] = files.suspended[g]
      /\ UNCHANGED <<range, gSwitchDepth, gMaxDepth, gCurrentDepth, gCurrentGremlin, halted,
                     gIsOn, gTheGremlin, device, fgEvents, reached, ended>>
  BY SaveFacts DEF HInv
<1>2. scheduled = {"saveSuspended"} /\ scheduled' = {} /\ gTheGremlin.inited /\ ~ended
  BY <1>1, SingleFlag
<1>3. \A g \in Numbers :
        /\ files'.suspended[g].gremlin.inited =>
             files'.suspended[g].gremlin.finalUntil = gMaxDepth
        /\ files.suspended[g].gremlin.inited => files'.suspended[g].gremlin.inited
  <2>1. TAKE g \in Numbers
  <2>2. CASE g = gCurrentGremlin
    BY <1>1, <1>2, <2>2 DEF Stages, Started
  <2>3. CASE g # gCurrentGremlin
    BY <1>1, <2>3 DEF Stages, Started
  <2> QED
    BY <2>2, <2>3
<1>4. Started'
  BY <1>1, <1>2, <1>3 DEF Stages, Started, Bounded
<1>5. Finished'
  BY <1>1, <1>2 DEF Finished
<1>6. OnItsWay
  BY <1>2 DEF Stages, Rounds, Loaded
<1>7. OnItsWay'
  <2>1. files'.suspended[gCurrentGremlin].gremlin.inited
    BY <1>1, <1>2
  <2> QED
    BY <1>1, <1>6, <2>1 DEF OnItsWay, Barrier, Bounded, Limited
<1>8. \A g \in Members \ halted : Progress(g)'
  <2>1. TAKE g \in Members \ halted
  <2>2. Progress(g) /\ g \in Numbers
    BY <1>2, MemberTypes DEF Stages, Rounds, HInv
  <2> QED
    BY <1>1, <1>3, <2>2 DEF Progress, Due, Barrier, Bounded
<1>9. Rounds'
  <2>1. ~BeyondMaxDepth(gCurrentDepth)
    BY <1>2 DEF Stages, Rounds
  <2> QED
    BY <1>1, <1>2, <1>7, <1>8, <2>1 DEF Rounds, Members, BeyondMaxDepth, LastRound, Rest
<1> QED
  BY <1>4, <1>5, <1>9 DEF Stages

LEMMA LoadRootStage ==
  ASSUME HInv, Stages, LoadRootState
  PROVE  Stages'
<1>1. /\ Do("loadRoot")
      /\ gTheGremlin'.inited = files.root.gremlin.inited
      /\ gTheGremlin'.finalUntil = files.root.gremlin.finalUntil
      /\ gIsOn' = files.root.on
      /\ UNCHANGED <<range, gSwitchDepth, gMaxDepth, gCurrentDepth, gCurrentGremlin, halted,
                     files, reached, ended>>
  BY LoadRootFacts DEF HInv
<1>2. ended /\ scheduled' = {} /\ gTheGremlin.inited
  BY <1>1, SingleFlag
<1>3. /\ files.root.gremlin.inited /\ ~files.root.on
      /\ files.root.gremlin.finalUntil = gMaxDepth
      /\ gCurrentDepth >= 0 /\ (Bounded => gSwitchDepth >= 1 /\ gMaxDepth >= 1)
  BY <1>2 DEF Stages, Started
<1>4. Started'
  BY <1>1, <1>2, <1>3 DEF Stages, Started, Bounded
<1>5. Finished'
  BY <1>1, <1>2, <1>3 DEF Stages, Finished, Bounded, Members
<1>6. Rounds'
  BY <1>1, <1>2 DEF Rounds
<1> QED
  BY <1>4, <1>5, <1>6 DEF Stages

LEMMA FromRootStage ==
  ASSUME HInv, Stages, StartGremlinFromLoadedRootState
  PROVE  Stages'
<1>1. /\ Do("fromRoot")
      /\ gTheGremlin'.inited /\ gTheGremlin'.counter = 0 /\ gTheGremlin'.finalUntil = gMaxDepth
      /\ gTheGremlin'.until =
           IF gMaxDepth = Forever THEN gSwitchDepth ELSE Least(gSwitchDepth, gMaxDepth)
      /\ gTheGremlin' \in GremlinSet
      /\ UNCHANGED <<range, gSwitchDepth, gMaxDepth, gCurrentDepth, gCurrentGremlin, halted,
                     files, reached, ended>>
  BY FromRootFacts DEF HInv
<1>2. scheduled = {"fromRoot"} /\ scheduled' = {} /\ gTheGremlin.inited /\ ~ended
  BY <1>1, SingleFlag
<1>3. /\ gCurrentDepth = 0 /\ ~BeyondMaxDepth(gCurrentDepth)
      /\ \A g \in Members \ halted : Progress(g)
  BY <1>2 DEF Stages, Rounds
<1>4. Started'
  BY <1>1, <1>2 DEF Stages, Started, Bounded
<1>5. Finished'
  BY <1>1, <1>2 DEF Finished
<1>6. OnItsWay'
  <2>1. Bounded => /\ gTheGremlin'.until = Barrier(gCurrentDepth + 1)
                   /\ gTheGremlin'.until <= gMaxDepth
    <3>1. SUFFICES ASSUME Bounded
                   PROVE  gTheGremlin'.until = Barrier(gCurrentDepth + 1) /\ gTheGremlin'.until <= gMaxDepth
      OBVIOUS
    <3>2. /\ gSwitchDepth \in Int /\ gMaxDepth \in Int /\ gSwitchDepth >= 1 /\ gMaxDepth >= 1
      BY <1>2, <3>1 DEF Stages, Started, HInv, HordeTypes
    <3>3. gTheGremlin'.until = Least(gSwitchDepth, gMaxDepth) /\ gCurrentDepth + 1 = 1
      BY <1>1, <1>3, <3>1 DEF Bounded
    <3>4. Barrier(1) = Least(gSwitchDepth, gMaxDepth) /\ Barrier(1) <= gMaxDepth
      BY <3>2, Barriers
    <3> QED
      BY <3>3, <3>4
  <2>2. ~(Limited' /\ gTheGremlin'.counter >= gTheGremlin'.until)
    BY <1>1, GremlinFields DEF Limited
  <2>3. Bounded' => /\ gTheGremlin'.until = Barrier(gCurrentDepth + 1)'
                    /\ gTheGremlin'.until <= gMaxDepth' /\ gTheGremlin'.until \in Int
    BY <1>1, <2>1, GremlinFields DEF Bounded, Barrier
  <2> QED
    BY <2>2, <2>3 DEF OnItsWay
<1>7. Rounds'
  BY <1>1, <1>2, <1>3, <1>6 DEF Rounds, Progress, Due, Barrier, Bounded, Members, BeyondMaxDepth, LastRound, Rest
<1> QED
  BY <1>4, <1>5, <1>7 DEF Stages

LEMMA FromSuspendedStage ==
  ASSUME HInv, Stages, StartGremlinFromLoadedSuspendedState
  PROVE  Stages'
<1> DEFINE s == files.suspended[gCurrentGremlin]
<1>1. /\ Do("fromSuspended")
      /\ gTheGremlin' \in GremlinSet /\ gTheGremlin'.inited = s.gremlin.inited
      /\ gTheGremlin'.finalUntil = s.gremlin.finalUntil
      /\ gTheGremlin'.until = NextBarrier
      /\ UNCHANGED <<range, gSwitchDepth, gMaxDepth, gCurrentDepth, gCurrentGremlin, halted,
                     files, reached, ended>>
  BY FromSuspendedFacts DEF HInv
<1>2. scheduled = {"fromSuspended"} /\ scheduled' = {} /\ gTheGremlin.inited /\ ~ended
  BY <1>1, SingleFlag
<1>3. /\ s.gremlin.inited /\ ~BeyondMaxDepth(gCurrentDepth)
      /\ \A g \in Members \ halted : Progress(g)
  BY <1>2 DEF Stages, Rounds
<1>4. s.gremlin.finalUntil = gMaxDepth
  BY <1>3, MemberTypes DEF Stages, Started, HInv
<1>5. Started'
  BY <1>1, <1>2, <1>3, <1>4 DEF Stages, Started, Bounded
<1>6. Finished'
  BY <1>1, <1>2 DEF Finished
<1>7. OnItsWay'
  <2>1. Bounded => /\ gTheGremlin'.until = Barrier(gCurrentDepth + 1)
                   /\ gTheGremlin'.until <= gMaxDepth
    <3>1. SUFFICES ASSUME Bounded
                   PROVE  gTheGremlin'.until = Barrier(gCurrentDepth + 1) /\ gTheGremlin'.until <= gMaxDepth
      OBVIOUS
    <3>2. /\ gSwitchDepth \in Int /\ gMaxDepth \in Int /\ gSwitchDepth >= 1 /\ gMaxDepth >= 1
          /\ gCurrentDepth + 1 \in Nat
      BY <1>2, <3>1 DEF Stages, Started, HInv, HordeTypes
    <3>3. NextBarrier = Barrier(gCurrentDepth + 1)
      BY <3>1, NextBarrierFacts DEF HInv
    <3> QED
      BY <1>1, <3>2, <3>3, Barriers
  <2>2. Bounded' => /\ gTheGremlin'.until = Barrier(gCurrentDepth + 1)'
                    /\ gTheGremlin'.until <= gMaxDepth' /\ gTheGremlin'.until \in Int
    BY <1>1, <2>1, GremlinFields DEF Bounded, Barrier
  <2>3. files'.suspended[gCurrentGremlin'].gremlin.inited
    BY <1>1, <1>3
  <2> QED
    BY <2>2, <2>3 DEF OnItsWay
<1>8. Rounds'
  BY <1>1, <1>2, <1>3, <1>7 DEF Rounds, Progress, Due, Barrier, Bounded, Members, BeyondMaxDepth, LastRound, Rest
<1> QED
  BY <1>5, <1>6, <1>8 DEF Stages

LEMMA StagesInitially ==
  ASSUME HordesInit
  PROVE  Stages
<1>1. /\ gIsOn = FALSE /\ gTheGremlin = Blank.gremlin /\ scheduled = {} /\ ended = FALSE
  BY DEF HordesInit
<1>2. files.root = Blank /\ \A g \in Numbers : files.suspended[g] = Blank
  BY NewFiles DEF HordesInit
<1>3. ~Blank.gremlin.inited
  BY BlankState
<1> QED
  BY <1>1, <1>2, <1>3 DEF Stages, Started, Rounds, Finished

LEMMA StageStep ==
  ASSUME HInv, Stages, Stepping = FALSE, [HordesNext]_hordesVars
  PROVE  (Zero \/ Stages)'
<1>1. CASE StartHorde \/ Stop \/ Resume
  BY <1>1, StartHordeStage, StopStage, ResumeStage
<1>2. CASE Step
  BY <1>2 DEF Step
<1>3. CASE RunGremlin
  <2>1. CASE PostFakeEvent
    BY <2>1, GenerateStage DEF PostFakeEvent
  <2>2. CASE PostFakePenEvent
    BY <2>2, GenerateStage DEF PostFakePenEvent
  <2> QED
    BY <1>3, <2>1, <2>2, StopEventStage DEF RunGremlin
<1>4. CASE ErrorEncountered
  BY <1>4, ErrorStage
<1>5. CASE ExecuteSpecial
  BY <1>5, SaveStage, LoadRootStage, FromRootStage, FromSuspendedStage DEF ExecuteSpecial
<1>6. CASE UNCHANGED hordesVars
  BY <1>6 DEF hordesVars, Stages, Started, Rounds, Finished, OnItsWay, Progress, Due, Barrier,
              Bounded, Limited, Loaded, Members, BeyondMaxDepth, LastRound, Rest
<1> QED
  BY <1>1, <1>2, <1>3, <1>4, <1>5, <1>6 DEF HordesNext

(***************************************************************************)
(* The horde whose switch depth is 0.                                      *)
(***************************************************************************)
LEMMA FlagIsScheduled ==
  ASSUME scheduled \subseteq {"saveSuspended", "loadRoot"}, NEW flag, Do(flag)
  PROVE  flag \in scheduled
<1> DEFINE P(i) == Order[i] \in scheduled /\ \A j \in 1 .. (i - 1) : Order[j] \notin scheduled
<1>1. DOMAIN Order = 1 .. 4 /\ Order[1] = "saveSuspended" /\ Order[2] = "loadRoot"
  BY DEF Order
<1>2. scheduled # {}
  BY DEF Do
<1>3. \E i \in DOMAIN Order : P(i)
  <2>1. CASE "saveSuspended" \in scheduled
    BY <1>1, <2>1
  <2>2. CASE scheduled = {"loadRoot"}
    BY <1>1, <2>2
  <2> QED
    BY <1>2, <2>1, <2>2
<1>4. PICK c \in DOMAIN Order : c = (CHOOSE i \in DOMAIN Order : P(i)) /\ P(c)
  BY <1>3, Zenon
<1>5. First = Order[c]
  BY <1>4, Zenon DEF First
<1> QED
  BY <1>4, <1>5 DEF Do

\* The test of NextGremlin is against -gMaxDepth, which every depth is beyond.
LEMMA ZeroMoves ==
  ASSUME HInv, Zero, Running, NEW h, NextGremlin(h)
  PROVE  gCurrentDepth' >= 0 /\ scheduled' \subseteq {"loadRoot"}
         /\ UNCHANGED <<gSwitchDepth, gMaxDepth, gTheGremlin>>
<1>1. scheduled = {} /\ gCurrentDepth \in Int /\ gMaxDepth \in Int
  BY DEF Running, HInv, HordeTypes
<1>2. gCurrentDepth' \in Int /\ gCurrentDepth' >= 0
  <2>1. CASE UNCHANGED gCurrentDepth
    BY <1>1, <2>1 DEF Zero
  <2>2. CASE \E next \in Search(h) : gCurrentDepth' = next.depth
    <3>1. PICK n \in 1 .. Size : gCurrentDepth' = Following(n).depth
      BY <2>2, Zenon DEF Search
    <3> QED
      BY <1>1, <3>1, FollowingFields DEF Zero, HInv
  <2> QED
    BY <2>1, <2>2, Zenon DEF NextGremlin
<1>3. BeyondMaxDepth(gCurrentDepth')
  BY <1>1, <1>2 DEF Zero, ZeroSwitch, BeyondMaxDepth, LastRound, Rest, Forever
<1>4. scheduled' \subseteq {"loadRoot"}
  BY <1>1, <1>3 DEF NextGremlin
<1> QED
  BY <1>2, <1>4 DEF NextGremlin

LEMMA ZeroStep ==
  ASSUME HInv, Zero, Stepping = FALSE, [HordesNext]_hordesVars
  PROVE  Zero'
<1>1. gTheGremlin \in GremlinSet /\ gTheGremlin.finalUntil \in Int
  BY GremlinFields DEF HInv, HordeTypes
<1>2. CASE StartHorde \/ Step
  BY <1>2 DEF StartHorde, Step, Zero
<1>3. CASE Stop
  BY <1>3 DEF Stop, horde, Zero, ZeroSwitch
<1>4. CASE Resume
  <2>1. gTheGremlin'.inited
    BY <1>1, <1>4, UntilUpdate DEF Resume, Zero
  <2> QED
    BY <1>4, <2>1 DEF Resume, horde, Zero, ZeroSwitch
<1>5. CASE PostFakeEvent \/ PostFakePenEvent
  <2>1. PICK generates \in BOOLEAN : Running /\ Generate(generates)
    BY <1>5 DEF PostFakeEvent, PostFakePenEvent
  <2>2. /\ gTheGremlin'.inited = gTheGremlin.inited
        /\ scheduled' \subseteq {"saveSuspended"}
        /\ UNCHANGED <<gSwitchDepth, gMaxDepth, gCurrentDepth, files>>
    <3>1. HordeTypes
      BY DEF HInv
    <3> QED
      BY <2>1, <3>1, GenerateFacts
  <2> QED
    BY <2>2 DEF Zero, ZeroSwitch
<1>6. CASE StopEventReached
  <2>1. /\ Running /\ NextGremlin(halted) /\ files'.root = files.root
    BY <1>6, StopEventFacts DEF HInv
  <2> QED
    BY <2>1, ZeroMoves DEF Zero, ZeroSwitch
<1>7. CASE ErrorEncountered
  <2>1. /\ Running /\ NextGremlin(halted \union {gCurrentGremlin}) /\ files'.root = files.root
    BY <1>7, ErrorFacts DEF HInv
  <2> QED
    BY <2>1, ZeroMoves DEF Zero, ZeroSwitch
<1>8. CASE SaveSuspendedState
  <2>1. /\ files'.root = files.root
        /\ UNCHANGED <<gSwitchDepth, gMaxDepth, gCurrentDepth, gTheGremlin>>
    BY <1>8, SaveFacts DEF HInv
  <2>2. scheduled' \subseteq scheduled
    BY <1>8 DEF SaveSuspendedState, Do
  <2> QED
    BY <2>1, <2>2 DEF Zero, ZeroSwitch
<1>9. CASE LoadRootState
  <2>1. /\ gTheGremlin'.inited = files.root.gremlin.inited
        /\ UNCHANGED <<gSwitchDepth, gMaxDepth, gCurrentDepth, files>>
    BY <1>9, LoadRootFacts DEF HInv
  <2>2. scheduled' \subseteq scheduled
    BY <1>9 DEF LoadRootState, Do
  <2> QED
    BY <2>1, <2>2 DEF Zero, ZeroSwitch
<1>10. ~StartGremlinFromLoadedRootState /\ ~StartGremlinFromLoadedSuspendedState
  <2>1. ~Do("fromRoot") /\ ~Do("fromSuspended")
    BY FlagIsScheduled DEF Zero
  <2> QED
    BY <2>1 DEF StartGremlinFromLoadedRootState, StartGremlinFromLoadedSuspendedState
<1>11. CASE UNCHANGED hordesVars
  BY <1>11 DEF hordesVars, Zero, ZeroSwitch
<1> QED
  BY <1>2, <1>3, <1>4, <1>5, <1>6, <1>7, <1>8, <1>9, <1>10, <1>11
     DEF HordesNext, RunGremlin, ExecuteSpecial

\* Whatever its size and its depths, and whether or not the last depth is a multiple of the depths
\* at which it switches, a horde that nobody steps through is over only when each of its Gremlins
\* has crashed or has run to the last depth, but for a horde that has a last depth and switches at
\* a depth of 0 (Hordes::New, Hordes::NextGremlin, Hordes::EndHordes).
THEOREM EachRunsToTheEnd == HordesSpec => []NoGremlinForgotten
<1>1. Stepping \in BOOLEAN
  BY HordesAssumption
<1>2. CASE Stepping = TRUE
  <2>1. NoGremlinForgotten
    BY <1>2 DEF NoGremlinForgotten, AllHaveReached
  <2> QED
    BY <2>1, PTL
<1>3. CASE Stepping = FALSE
  <2>1. HordesInit => HInv /\ (Zero \/ Stages)
    BY HordeInitially, StagesInitially
  <2>2. HInv /\ (Zero \/ Stages) /\ [HordesNext]_hordesVars => (HInv /\ (Zero \/ Stages))'
    BY <1>3, HordeStep, StageStep, ZeroStep
  <2>3. HInv /\ (Zero \/ Stages) => NoGremlinForgotten
    BY DEF Zero, Stages, Finished, NoGremlinForgotten, AllHaveReached, Bounded
  <2> QED
    BY <2>1, <2>2, <2>3, PTL DEF HordesSpec
<1> QED
  BY <1>1, <1>2, <1>3

-----------------------------------------------------------------------------
(***************************************************************************)
(* The events of the user: the last one in a queue, or the last one the    *)
(* device was given, is the last thing the user did.                       *)
(***************************************************************************)
End(q, given) == IF q = << >> THEN given ELSE q[Len(q)]

EInv ==
  /\ ~hordesOn
  /\ thumb \in BOOLEAN /\ fKeyBits \in BOOLEAN
  /\ fPenQueue \in Seq(Points \union {Up}) /\ fButtonQueue \in Seq(BOOLEAN)
  /\ finger = Up => End(fPenQueue, devicePen) = Up
  /\ thumb = FALSE => End(fButtonQueue, fKeyBits) = FALSE

LEMMA EndOfAppend ==
  ASSUME NEW S, NEW q \in Seq(S), NEW e \in S, NEW given
  PROVE  Append(q, e) \in Seq(S) /\ End(Append(q, e), given) = e
BY AppendProperties DEF End

LEMMA EndOfTail ==
  ASSUME NEW S, NEW q \in Seq(S), q # << >>, NEW given
  PROVE  /\ Tail(q) \in Seq(S) /\ Head(q) \in S
         /\ End(Tail(q), Head(q)) = End(q, given)
<1>1. /\ Head(q) \in S /\ Head(q) = q[1]
      /\ Tail(q) \in Seq(S) /\ Len(Tail(q)) = Len(q) - 1
      /\ \A i \in 1 .. Len(Tail(q)) : Tail(q)[i] = q[i + 1]
  BY HeadTailProperties
<1>2. Len(q) \in Nat /\ Len(q) >= 1
  BY EmptySeq, LenProperties
<1>3. CASE Len(q) = 1
  <2>1. Len(Tail(q)) = 0
    BY <1>1, <1>3
  <2>2. Tail(q) # << >> => Len(Tail(q)) \in Nat \ {0}
    BY <1>1, EmptySeq, Zenon
  <2>3. Tail(q) = << >>
    BY <2>1, <2>2
  <2> QED
    BY <1>1, <1>3, <2>3 DEF End
<1>4. CASE Len(q) # 1
  <2>1. Tail(q) # << >>
    <3>1. Len(Tail(q)) # 0 /\ Len(<< >>) = 0
      BY <1>1, <1>2, <1>4, EmptySeq
    <3> QED
      BY <3>1, Zenon
  <2>2. Tail(q)[Len(q) - 1] = q[Len(q)]
    BY <1>1, <1>2, <1>4
  <2> QED
    BY <1>1, <2>1, <2>2 DEF End
<1> QED
  BY <1>3, <1>4

LEMMA UserStep ==
  ASSUME EInv, Gremlins = FALSE, User
  PROVE  EInv'
<1>1. ASSUME NEW p \in Points \union {Up}, PostPenEvent(p) PROVE EInv'
  <2>1. /\ finger' = p
        /\ IF PrvCanBotherCPU /\ ~SameAsLast(p)
           THEN fPenQueue' = Append(fPenQueue, p) ELSE UNCHANGED fPenQueue
        /\ UNCHANGED <<thumb, hordesOn, fButtonQueue, devicePen, fKeyBits>>
    BY <1>1 DEF PostPenEvent, machine
  <2>2. p = Up => PrvCanBotherCPU /\ ~SameAsLast(p)
    BY DEF EInv, PrvCanBotherCPU, SameAsLast
  <2>3. CASE PrvCanBotherCPU /\ ~SameAsLast(p)
    <3> DEFINE S == Points \union {Up}
    <3>1. fPenQueue \in Seq(S) /\ p \in S /\ fPenQueue' = Append(fPenQueue, p)
      BY <2>1, <2>3 DEF EInv
    <3> HIDE DEF S
    <3>2. Append(fPenQueue, p) \in Seq(S) /\ End(Append(fPenQueue, p), devicePen) = p
      BY <3>1, EndOfAppend
    <3> QED
      BY <2>1, <3>1, <3>2 DEF EInv, S
  <2>4. CASE ~(PrvCanBotherCPU /\ ~SameAsLast(p))
    BY <2>1, <2>2, <2>4 DEF EInv
  <2> QED
    BY <2>3, <2>4
<1>2. CASE PostKeyEvent
  BY <1>2 DEF PostKeyEvent, EInv, machine
<1>3. CASE PostButtonEvent
  <2>1. /\ thumb' = ~thumb /\ fButtonQueue' = Append(fButtonQueue, thumb')
        /\ UNCHANGED <<finger, hordesOn, fPenQueue, devicePen, fKeyBits>>
    BY <1>3 DEF PostButtonEvent, PrvCanBotherCPU, EInv, machine
  <2>2. thumb' \in BOOLEAN
    BY <2>1
  <2>3. fButtonQueue' \in Seq(BOOLEAN) /\ End(fButtonQueue', fKeyBits) = thumb'
    BY <2>1, <2>2, EndOfAppend, Zenon DEF EInv
  <2> QED
    BY <2>1, <2>2, <2>3 DEF EInv
<1>4. CASE StartOrStopGremlins
  BY <1>4 DEF StartOrStopGremlins
<1> QED
  BY <1>1, <1>2, <1>3, <1>4 DEF User

LEMMA RomStep ==
  ASSUME EInv, Rom
  PROVE  EInv'
<1>1. CASE SysEvGroupWait
  BY <1>1 DEF SysEvGroupWait, EInv, user, queues, machine
<1>2. CASE EndOfDoze
  BY <1>2 DEF EndOfDoze, EInv, user, queues, machine
<1>3. CASE PuppetString
  <2>1. UNCHANGED <<finger, thumb, hordesOn, fButtonQueue, fKeyBits>>
    BY <1>3 DEF PuppetString, user
  <2>2. \/ UNCHANGED <<fPenQueue, devicePen>>
        \/ fPenQueue # << >> /\ fPenQueue' = Tail(fPenQueue) /\ devicePen' = Head(fPenQueue)
    BY <1>3 DEF PuppetString, EInv
  <2>3. CASE UNCHANGED <<fPenQueue, devicePen>>
    BY <2>1, <2>3 DEF EInv
  <2>4. CASE fPenQueue # << >> /\ fPenQueue' = Tail(fPenQueue) /\ devicePen' = Head(fPenQueue)
    <3>1. /\ fPenQueue' \in Seq(Points \union {Up})
          /\ End(fPenQueue', devicePen') = End(fPenQueue, devicePen)
      BY <2>4, EndOfTail DEF EInv
    <3> QED
      BY <2>1, <3>1 DEF EInv
  <2> QED
    BY <2>2, <2>3, <2>4
<1> QED
  BY <1>1, <1>2, <1>3 DEF Rom

LEMMA CycleSlowlyStep ==
  ASSUME EInv, CycleSlowly
  PROVE  EInv'
<1>1. /\ fButtonQueue # << >>
      /\ fButtonQueue' = Tail(fButtonQueue) /\ fKeyBits' = Head(fButtonQueue)
      /\ UNCHANGED <<finger, thumb, hordesOn, fPenQueue, devicePen>>
  BY DEF CycleSlowly, HasButtonEvent, user
<1>2. /\ fButtonQueue' \in Seq(BOOLEAN) /\ fKeyBits' \in BOOLEAN
      /\ End(fButtonQueue', fKeyBits') = End(fButtonQueue, fKeyBits)
  BY <1>1, EndOfTail, Zenon DEF EInv
<1> QED
  BY <1>1, <1>2 DEF EInv

LEMMA ResetEventsStep ==
  ASSUME EInv, ResetEvents
  PROVE  EInv'
<1>1. /\ fPenQueue' = << >> /\ fButtonQueue' = << >> /\ hordesOn' = FALSE
      /\ devicePen' = Up /\ fKeyBits' = FALSE /\ UNCHANGED <<finger, thumb>>
  BY DEF ResetEvents, user
<1>2. << >> \in Seq(Points \union {Up}) /\ << >> \in Seq(BOOLEAN)
  BY EmptySeq, Zenon
<1> QED
  BY <1>1, <1>2 DEF EInv, End

LEMMA EventsInitially ==
  ASSUME EventsInit
  PROVE  EInv
<1>1. << >> \in Seq(Points \union {Up}) /\ << >> \in Seq(BOOLEAN)
  BY EmptySeq, Zenon
<1> QED
  BY <1>1 DEF EventsInit, EInv, End

LEMMA EventsStep ==
  ASSUME EInv, Gremlins = FALSE, [EventsNext]_eventVars
  PROVE  EInv'
<1>1. CASE RememberPenEvent \/ PrvWakeUpCPU
  BY <1>1 DEF RememberPenEvent, PrvWakeUpCPU, EInv, user, queues, machine
<1>2. CASE Timeout \/ Sleep \/ Interrupt \/ ThresholdPasses
  BY <1>2 DEF Timeout, Sleep, Interrupt, ThresholdPasses, EInv, user, queues, machine
<1>3. CASE ExecuteStoppedLoop
  BY <1>3 DEF ExecuteStoppedLoop, EInv, user, machine
<1>4. CASE UNCHANGED eventVars
  BY <1>4 DEF eventVars, EInv
<1> QED
  BY <1>1, <1>2, <1>3, <1>4, UserStep, RomStep, CycleSlowlyStep, ResetEventsStep DEF EventsNext

\* While Gremlins stay off, whatever the user posts, and whatever the ROM takes, sleeps through or
\* loses in a reset, no pen or button stays down on the device after the user has let go of it
\* (EmSession::PostPenEvent, EmSession::PostButtonEvent, EmSession::Reset).
THEOREM LetGoIsLetGo ==
  ASSUME Gremlins = FALSE
  PROVE  EventsSpec => []NothingSticks
<1>1. EventsInit => EInv
  BY EventsInitially
<1>2. EInv /\ [EventsNext]_eventVars => EInv'
  BY EventsStep
<1>3. EInv => NothingSticks
  BY DEF EInv, End, NothingSticks
<1> QED
  BY <1>1, <1>2, <1>3, PTL DEF EventsSpec

-----------------------------------------------------------------------------
(***************************************************************************)
(* The types, with Gremlins or without.                                    *)
(***************************************************************************)
LEMMA TakenIn ==
  ASSUME NEW S, NEW q \in Seq(S), q # << >>
  PROVE  Tail(q) \in Seq(S) /\ Head(q) \in S
BY HeadTailProperties

LEMMA NoneIn == ASSUME NEW S PROVE << >> \in Seq(S)
BY EmptySeq

LEMMA PutIn ==
  ASSUME NEW S, NEW q \in Seq(S), NEW e \in S
  PROVE  Append(q, e) \in Seq(S)
BY AppendProperties

LEMMA EventTypesStep ==
  ASSUME EventsTypeOK, [EventsNext]_eventVars
  PROVE  EventsTypeOK'
<1> USE DEF user, queues, machine
<1>1. ASSUME NEW p \in Points \union {Up}, PostPenEvent(p) PROVE EventsTypeOK'
  <2>1. Append(fPenQueue, p) \in Seq(Points \union {Up})
    BY PutIn DEF EventsTypeOK
  <2> QED
    BY <1>1, <2>1 DEF PostPenEvent, EventsTypeOK
<1>2. CASE PostKeyEvent
  <2>1. Append(fKeyQueue, Key) \in Seq({Key})
    BY PutIn DEF EventsTypeOK
  <2> QED
    BY <1>2, <2>1 DEF PostKeyEvent, EventsTypeOK
<1>3. CASE PostButtonEvent
  <2>1. thumb' \in BOOLEAN /\ fButtonQueue \in Seq(BOOLEAN)
    BY <1>3 DEF PostButtonEvent, EventsTypeOK
  <2>2. Append(fButtonQueue, thumb') \in Seq(BOOLEAN)
    BY <2>1, PutIn, Zenon
  <2> QED
    BY <1>3, <2>1, <2>2 DEF PostButtonEvent, EventsTypeOK
<1>4. CASE StartOrStopGremlins \/ RememberPenEvent \/ PrvWakeUpCPU
  <2>1. CASE StartOrStopGremlins
    BY <2>1 DEF StartOrStopGremlins, EventsTypeOK
  <2>2. CASE RememberPenEvent
    BY <2>2 DEF RememberPenEvent, EventsTypeOK
  <2>3. CASE PrvWakeUpCPU
    BY <2>3 DEF PrvWakeUpCPU, EventsTypeOK
  <2> QED
    BY <1>4, <2>1, <2>2, <2>3
<1>5. CASE SysEvGroupWait \/ EndOfDoze \/ Timeout \/ Sleep \/ Interrupt \/ ThresholdPasses
  <2>1. CASE SysEvGroupWait
    BY <2>1 DEF SysEvGroupWait, EventsTypeOK
  <2>2. CASE EndOfDoze
    BY <2>2 DEF EndOfDoze, EventsTypeOK
  <2>3. CASE Timeout
    BY <2>3 DEF Timeout, EventsTypeOK
  <2>4. CASE Sleep
    BY <2>4 DEF Sleep, EventsTypeOK
  <2>5. CASE Interrupt
    BY <2>5 DEF Interrupt, EventsTypeOK
  <2>6. CASE ThresholdPasses
    BY <2>6 DEF ThresholdPasses, EventsTypeOK
  <2> QED
    BY <1>5, <2>1, <2>2, <2>3, <2>4, <2>5, <2>6
<1>6. CASE PuppetString
  <2>1. fKeyQueue # << >> => Tail(fKeyQueue) \in Seq({Key})
    BY TakenIn DEF EventsTypeOK
  <2>2. fPenQueue # << >> =>
          Tail(fPenQueue) \in Seq(Points \union {Up}) /\ Head(fPenQueue) \in Points \union {Up}
    BY TakenIn DEF EventsTypeOK
  <2> QED
    BY <1>6, <2>1, <2>2 DEF PuppetString, EventsTypeOK
<1>7. CASE ExecuteStoppedLoop
  <2>1. fButtonQueue \in Seq(BOOLEAN) /\ <<TRUE, FALSE>> \in Seq(BOOLEAN)
    BY DEF EventsTypeOK
  <2>2. fButtonQueue \o <<TRUE, FALSE>> \in Seq(BOOLEAN)
    BY <2>1, ConcatProperties, Zenon
  <2> QED
    BY <1>7, <2>2 DEF ExecuteStoppedLoop, EventsTypeOK
<1>8. CASE CycleSlowly
  <2>1. fButtonQueue # << >>
    BY <1>8 DEF CycleSlowly, HasButtonEvent
  <2>2. fButtonQueue' \in Seq(BOOLEAN) /\ fKeyBits' \in BOOLEAN
    BY <1>8, <2>1, TakenIn, Zenon DEF CycleSlowly, EventsTypeOK
  <2> QED
    BY <1>8, <2>2 DEF CycleSlowly, EventsTypeOK
<1>9. CASE ResetEvents
  BY <1>9, NoneIn DEF ResetEvents, EventsTypeOK
<1>10. CASE UNCHANGED eventVars
  BY <1>10 DEF eventVars, EventsTypeOK
<1> QED
  BY <1>1, <1>2, <1>3, <1>4, <1>5, <1>6, <1>7, <1>8, <1>9, <1>10 DEF EventsNext, User, Rom

\* The queues hold events of their kind only, and the device is asleep exactly in the places where
\* the processor is stopped, with Gremlins or without (EmSession::PostButtonEvent, EmCPU68K).
THEOREM EventTypes == EventsSpec => []EventsTypeOK
<1>1. EventsInit => EventsTypeOK
  BY NoneIn DEF EventsInit, EventsTypeOK
<1>2. EventsTypeOK /\ [EventsNext]_eventVars => EventsTypeOK'
  BY EventTypesStep
<1> QED
  BY <1>1, <1>2, PTL DEF EventsSpec

=============================================================================
