----------------------- MODULE DeviceLifecycle_proofs ------------------------
(***************************************************************************)
(* Proofs about the two kinds of state that a Manager keeps: the device    *)
(* objects and the registry of open ones (DeviceLifecycle), for any number *)
(* of primary devices, capabilities, instances and health checks, and, in  *)
(* the second part, the configuration files (DeviceConfig), for any number *)
(* of Managers, devices, aliases, operations and crashes.                  *)
(***************************************************************************)
EXTENDS DeviceLifecycle, DeviceConfig, FiniteSetTheorems, WellFoundedInduction, TLAPS

Device == [name : Names, state : {"none", "open", "closed", "deleted"}, users : Nat,
           hub : [Caps -> 0..MaxInstances], checks : [Caps -> Nat], held : Nat,
           ref : BOOLEAN]

\* The capabilities that refer to a hub, and everyone its users are counted for.
RefsIn(s, h) == {p \in Instances \X Caps : s[p[1]].hub[p[2]] = h}
Refs(h) == RefsIn(inst, h)
One(b) == IF b THEN 1 ELSE 0
Direct(h) == inst[h].held + One(context = h) + One(making = h)
Holders(h) == Direct(h) + Cardinality(Refs(h))

\* Capabilities of open devices refer to hubs, a hub is open while it counts
\* users, and what is registered is an open instance of that name.
Shape ==
  /\ \A i \in Instances : i > created => inst[i] = Blank
  /\ \A i \in Instances, c \in Caps : inst[i].hub[c] # None =>
       /\ inst[i].state = "open" /\ inst[i].name # Hub
       /\ inst[i].hub[c] <= created /\ inst[inst[i].hub[c]].name = Hub
  /\ \A i \in Instances : inst[i].name = Hub => (inst[i].state = "open" <=> inst[i].users >= 1)
  /\ RegisteredIsOpen
  /\ context <= created

\* The instance being made ready is registered, and nobody's yet.
MakingInv ==
  IF mpc = "making"
  THEN /\ making \in 1..created /\ inst[making].held = 0
       /\ \A i \in Instances, c \in Caps : inst[i].hub[c] # making
       /\ ~stale => openDevices[inst[making].name] = making
  ELSE making = None

\* What close_open_devices still has to close is registered or closed already;
\* in its second round that is everything open.
TodoInv ==
  /\ mpc \in {"idle", "making"} => todo = {}
  /\ \A i \in todo : i <= created /\ openDevices[inst[i].name] \in {None, i}
  /\ mpc = "forceAll" /\ ~stale => \A i \in Instances : inst[i].state = "open" => i \in todo

\* Open instances are registered.
RegInv == ~stale => \A i \in Instances : inst[i].state = "open" => openDevices[inst[i].name] = i

\* A hub counts a user for each of its holders.
LowerInv == ~stale /\ mpc \in {"idle", "making"} =>
  \A h \in Instances : inst[h].name = Hub =>
    /\ inst[h].state = "open" => inst[h].users >= Holders(h)
    /\ inst[h].state # "open" => Refs(h) = {}

\* A hub counts no user that does not hold it.
UpperInv == ~doubled =>
  \A h \in Instances : inst[h].name = Hub /\ inst[h].state = "open" => inst[h].users <= Holders(h)

Inv == TypeOK /\ Shape /\ MakingInv /\ TodoInv /\ RegInv /\ LowerInv /\ UpperInv

-----------------------------------------------------------------------------
(* References to hubs.                                                     *)

\* The references to a hub are finitely many.
LEMMA RefsFinite ==
  ASSUME NEW s, NEW h
  PROVE  IsFiniteSet(RefsIn(s, h)) /\ Cardinality(RefsIn(s, h)) \in Nat
<1>1. MaxInstances \in Int /\ IsFiniteSet(Caps)
  BY LifecycleAssumption
<1>2. IsFiniteSet(Instances)
  BY <1>1, FS_Interval DEF Instances
<1>3. IsFiniteSet(Instances \X Caps)
  BY <1>1, <1>2, FS_Product
<1>4. RefsIn(s, h) \in SUBSET (Instances \X Caps)
  BY DEF RefsIn
<1>5. IsFiniteSet(RefsIn(s, h))
  BY <1>3, <1>4, FS_Subset
<1> QED BY <1>5, FS_CardinalityType

\* From s to t, instance i loses its references to h and the others keep theirs.
Loses(s, t, i, h) ==
  /\ \A c \in Caps : t[i].hub[c] # h
  /\ \A j \in Instances, c \in Caps : j # i => t[j].hub[c] = s[j].hub[c]

\* A closed device gives up its references, and nobody else does.
LEMMA RefsClosed ==
  ASSUME NEW s, NEW t, NEW i \in Instances, NEW h, Loses(s, t, i, h)
  PROVE  /\ Cardinality({c \in Caps : s[i].hub[c] = h}) \in Nat
         /\ Cardinality(RefsIn(s, h)) =
              Cardinality(RefsIn(t, h)) + Cardinality({c \in Caps : s[i].hub[c] = h})
<1> DEFINE C == {c \in Caps : s[i].hub[c] = h}
<1>1. IsFiniteSet(C) /\ Cardinality(C) \in Nat
  BY LifecycleAssumption, FS_Subset, FS_CardinalityType
<1>2. IsFiniteSet({i}) /\ Cardinality({i}) = 1
  BY FS_Singleton
<1>3. IsFiniteSet({i} \X C) /\ Cardinality({i} \X C) = Cardinality(C)
  BY <1>1, <1>2, FS_Product
<1>4. RefsIn(s, h) = RefsIn(t, h) \cup ({i} \X C)
  BY DEF RefsIn, Loses
<1>5. RefsIn(t, h) \cap ({i} \X C) = {}
  BY DEF RefsIn, Loses
<1> HIDE DEF C
<1>6. Cardinality(RefsIn(t, h) \cup ({i} \X C)) =
        Cardinality(RefsIn(t, h)) + Cardinality({i} \X C)
        - Cardinality(RefsIn(t, h) \cap ({i} \X C))
  BY <1>3, RefsFinite, FS_Union
<1>7. Cardinality({}) = 0
  BY FS_EmptySet
<1>8. Cardinality(RefsIn(t, h)) \in Nat
  BY RefsFinite
<1>9. Cardinality(RefsIn(s, h)) = Cardinality(RefsIn(t, h)) + Cardinality(C) - 0
  BY <1>3, <1>4, <1>5, <1>6, <1>7, Zenon
<1>10. Cardinality(RefsIn(s, h)) = Cardinality(RefsIn(t, h)) + Cardinality(C)
  BY <1>1, <1>8, <1>9
<1> QED BY <1>1, <1>10 DEF C

\* From s to t, capability b of instance i takes hub k and the others keep theirs.
Takes(s, t, i, b, k) ==
  /\ t[i].hub[b] = k
  /\ \A j \in Instances, c \in Caps : <<j, c>> # <<i, b>> => t[j].hub[c] = s[j].hub[c]

\* One capability takes hub k: k has that reference more.
LEMMA RefsTaken ==
  ASSUME NEW s, NEW t, NEW i \in Instances, NEW b \in Caps, NEW k, Takes(s, t, i, b, k)
  PROVE  Cardinality(RefsIn(t, k)) =
           Cardinality(RefsIn(s, k)) + (IF s[i].hub[b] = k THEN 0 ELSE 1)
<1>1. IsFiniteSet(RefsIn(s, k)) /\ Cardinality(RefsIn(s, k)) \in Nat
  BY RefsFinite
<1>2. <<i, b>> \in RefsIn(s, k) <=> s[i].hub[b] = k
  BY DEF RefsIn
<1>3. RefsIn(t, k) = RefsIn(s, k) \cup {<<i, b>>}
  BY DEF RefsIn, Takes
<1>4. Cardinality(RefsIn(s, k) \cup {<<i, b>>}) =
        IF <<i, b>> \in RefsIn(s, k) THEN Cardinality(RefsIn(s, k))
                                     ELSE Cardinality(RefsIn(s, k)) + 1
  BY <1>1, FS_AddElement
<1> QED BY <1>1, <1>2, <1>3, <1>4

\* And the others lose it.
LEMMA RefsLost ==
  ASSUME NEW s, NEW t, NEW i \in Instances, NEW b \in Caps, NEW k, Takes(s, t, i, b, k),
         NEW h, h # k
  PROVE  /\ RefsIn(t, h) \subseteq RefsIn(s, h)
         /\ Cardinality(RefsIn(s, h)) =
              Cardinality(RefsIn(t, h)) + (IF s[i].hub[b] = h THEN 1 ELSE 0)
<1>1. IsFiniteSet(RefsIn(s, h)) /\ Cardinality(RefsIn(s, h)) \in Nat
  BY RefsFinite
<1>2. <<i, b>> \in RefsIn(s, h) <=> s[i].hub[b] = h
  BY DEF RefsIn
<1>3. RefsIn(t, h) = RefsIn(s, h) \ {<<i, b>>}
  BY DEF RefsIn, Takes
<1>4. Cardinality(RefsIn(s, h) \ {<<i, b>>}) =
        IF <<i, b>> \in RefsIn(s, h) THEN Cardinality(RefsIn(s, h)) - 1
                                     ELSE Cardinality(RefsIn(s, h))
  BY <1>1, FS_RemoveElement
<1> QED BY <1>1, <1>2, <1>3, <1>4

\* The references depend on the capabilities' hubs alone.
LEMMA RefsKept ==
  ASSUME NEW s, NEW t, NEW h,
         \A j \in Instances, c \in Caps : t[j].hub[c] = s[j].hub[c]
  PROVE  RefsIn(t, h) = RefsIn(s, h)
BY DEF RefsIn

-----------------------------------------------------------------------------
(* Closing a device.                                                       *)

\* What a device that closes leaves behind, by instance: names, references and
\* creations stay, nothing opens, and references only go.
LeavesInstances(i, w) ==
  /\ w.inst \in [Instances -> Device] /\ w.open \in [Names -> 0..MaxInstances]
  /\ \A j \in Instances :
       /\ w.inst[j].name = inst[j].name /\ w.inst[j].held = inst[j].held
       /\ w.inst[j].ref = inst[j].ref
       /\ j > created => w.inst[j] = inst[j]
       /\ w.inst[j].state = "open" => inst[j].state = "open"
       /\ w.inst[j].name = Hub => (w.inst[j].state = "open" <=> w.inst[j].users >= 1)
  /\ \A j \in Instances, c \in Caps :
       /\ w.inst[j].hub[c] \in {None, inst[j].hub[c]}
       /\ w.inst[j].hub[c] # None => w.inst[j].state = "open"

\* The registry forgets the device, and a hub that closes with it.
LeavesRegistry(i, w) ==
  /\ \A n \in Names :
       /\ w.open[n] \in {None, openDevices[n]}
       /\ w.open[n] # None => w.inst[w.open[n]].state = "open"
       /\ ~stale /\ w.open[n] # openDevices[n] =>
            \/ n = inst[i].name
            \/ n = Hub /\ \E c \in Caps : inst[i].hub[c] = openDevices[Hub]
  /\ ~stale /\ ~Superseded(i) =>
       \A j \in Instances : w.inst[j].state = "open" => w.open[w.inst[j].name] = j

\* What the users of a hub become when a primary device that refers to it closes.
LeavesHub(w, h) ==
  \E k \in Nat :
    /\ Cardinality(Refs(h)) = Cardinality(RefsIn(w.inst, h)) + k
    /\ w.inst[h].users = Minus(inst[h].users, k)

Closes(i, h) == Cardinality({c \in Caps : inst[i].hub[c] = h})
Gone(i) == {h \in Instances : inst[h].users \in 1..Closes(i, h)}

\* A primary device closes hubs only, those its capabilities refer to.
LEMMA ClosesHubs ==
  ASSUME TypeOK, Shape, NEW i \in Instances, NEW h \in Instances
  PROVE  /\ Closes(i, h) \in Nat
         /\ Closes(i, h) # 0 => /\ inst[h].name = Hub /\ h # i
                                /\ \E c \in Caps : inst[i].hub[c] = h
<1>1. IsFiniteSet({c \in Caps : inst[i].hub[c] = h})
  BY LifecycleAssumption, FS_Subset
<1>2. Closes(i, h) \in Nat
  BY <1>1, FS_CardinalityType DEF Closes
<1>3. Closes(i, h) # 0 => \E c \in Caps : inst[i].hub[c] = h
  BY <1>1, FS_EmptySet DEF Closes
<1>4. ASSUME NEW c \in Caps, inst[i].hub[c] = h PROVE inst[h].name = Hub /\ h # i
  BY <1>4, LifecycleAssumption DEF Shape, Instances, None
<1> QED BY <1>2, <1>3, <1>4

LEMMA PrimaryFields ==
  ASSUME TypeOK, Shape, NEW i \in Instances, NEW w, w = ClosePrimary(World, i)
  PROVE  /\ w.inst \in [Instances -> Device] /\ w.open \in [Names -> 0..MaxInstances]
         /\ w.inst[i].name = inst[i].name /\ w.inst[i].held = inst[i].held
         /\ w.inst[i].ref = inst[i].ref /\ w.inst[i].users = inst[i].users
         /\ w.inst[i].state = "closed"
         /\ \A c \in Caps : w.inst[i].hub[c] = None
         /\ \A h \in Instances : h # i =>
              /\ w.inst[h].name = inst[h].name /\ w.inst[h].held = inst[h].held
              /\ w.inst[h].ref = inst[h].ref /\ w.inst[h].hub = inst[h].hub
              /\ w.inst[h].checks = inst[h].checks
              /\ w.inst[h].users = Minus(inst[h].users, Closes(i, h))
              /\ w.inst[h].state = IF h \in Gone(i) THEN "closed" ELSE inst[h].state
              /\ Closes(i, h) = 0 => w.inst[h] = inst[h]
         /\ \A n \in Names : w.open[n] =
              IF n = inst[i].name \/ (n = Hub /\ Gone(i) # {}) THEN None ELSE openDevices[n]
<1> DEFINE closed == [inst[i] EXCEPT !.state = "closed", !.hub = [c \in Caps |-> None],
                                    !.checks = [c \in Caps |-> 0]]
           kept(h) == [inst[h] EXCEPT !.users = Minus(@, Closes(i, h)),
                                      !.state = IF h \in Gone(i) THEN "closed" ELSE @]
<1>1. w.inst = [h \in Instances |-> IF h = i THEN closed ELSE kept(h)]
  BY DEF ClosePrimary, World, Closes, Gone
<1>2. w.open = [n \in Names |-> IF n = inst[i].name \/ (n = Hub /\ Gone(i) # {})
                                THEN None ELSE openDevices[n]]
  BY DEF ClosePrimary, World, Closes, Gone
<1>3. \A h \in Instances : inst[h] \in Device
  BY DEF TypeOK, Device
<1>4. /\ closed \in Device /\ closed.name = inst[i].name /\ closed.held = inst[i].held
      /\ closed.ref = inst[i].ref /\ closed.users = inst[i].users /\ closed.state = "closed"
      /\ closed.hub = [c \in Caps |-> None]
  <2>1. /\ [c \in Caps |-> None] \in [Caps -> 0..MaxInstances]
        /\ [c \in Caps |-> 0] \in [Caps -> Nat]
    BY LifecycleAssumption DEF None
  <2>2. inst[i] \in Device
    BY <1>3
  <2> QED BY <2>1, <2>2 DEF Device
<1>5. ASSUME NEW h \in Instances
      PROVE  /\ kept(h) \in Device
             /\ kept(h).name = inst[h].name /\ kept(h).held = inst[h].held
             /\ kept(h).ref = inst[h].ref /\ kept(h).hub = inst[h].hub
             /\ kept(h).checks = inst[h].checks
             /\ kept(h).users = Minus(inst[h].users, Closes(i, h))
             /\ kept(h).state = IF h \in Gone(i) THEN "closed" ELSE inst[h].state
             /\ Closes(i, h) = 0 => kept(h) = inst[h]
  <2>1. Closes(i, h) \in Nat /\ inst[h] \in Device
    BY <1>3, ClosesHubs
  <2>2. Minus(inst[h].users, Closes(i, h)) \in Nat
    BY <2>1 DEF Minus, Device
  <2>3. CASE Closes(i, h) = 0
    <3>1. h \notin Gone(i)
      BY <2>3 DEF Gone
    <3>2. Minus(inst[h].users, 0) = inst[h].users
      BY <2>1 DEF Minus, Device
    <3>3. kept(h) = inst[h]
      BY <2>1, <2>3, <3>1, <3>2 DEF Device
    <3> QED BY <2>1, <2>3, <3>1, <3>2, <3>3
  <2>4. CASE Closes(i, h) # 0
    BY <2>1, <2>2, <2>4 DEF Device
  <2> QED BY <2>3, <2>4
<1> HIDE DEF closed, kept
<1>6. w.inst \in [Instances -> Device]
  BY <1>1, <1>4, <1>5
<1>7. w.open \in [Names -> 0..MaxInstances]
  BY <1>2, LifecycleAssumption DEF TypeOK, None
<1>8. w.inst[i] = closed /\ \A h \in Instances : h # i => w.inst[h] = kept(h)
  BY <1>1
<1>9. \A n \in Names : w.open[n] =
         IF n = inst[i].name \/ (n = Hub /\ Gone(i) # {}) THEN None ELSE openDevices[n]
  BY <1>2
<1> QED BY <1>4, <1>5, <1>6, <1>7, <1>8, <1>9

\* close() of a primary device.
LEMMA PrimaryCloses ==
  ASSUME TypeOK, Shape, RegInv, NEW i \in Instances, i <= created, inst[i].name # Hub,
         NEW w, w = ClosePrimary(World, i)
  PROVE  /\ LeavesInstances(i, w) /\ LeavesRegistry(i, w)
         /\ w.inst[i].state = "closed" /\ w.open[inst[i].name] = None
         /\ \A c \in Caps : w.inst[i].hub[c] = None
         /\ \A h \in Instances : inst[h].name = Hub => LeavesHub(w, h)
<1>1. PICK s, o : s = w.inst /\ o = w.open
  OBVIOUS
<1>2. /\ s \in [Instances -> Device] /\ o \in [Names -> 0..MaxInstances]
      /\ s[i].name = inst[i].name /\ s[i].held = inst[i].held
      /\ s[i].ref = inst[i].ref /\ s[i].users = inst[i].users
      /\ s[i].state = "closed"
      /\ \A c \in Caps : s[i].hub[c] = None
      /\ \A h \in Instances : h # i =>
           /\ s[h].name = inst[h].name /\ s[h].held = inst[h].held
           /\ s[h].ref = inst[h].ref /\ s[h].hub = inst[h].hub
           /\ s[h].checks = inst[h].checks
           /\ s[h].users = Minus(inst[h].users, Closes(i, h))
           /\ s[h].state = IF h \in Gone(i) THEN "closed" ELSE inst[h].state
           /\ Closes(i, h) = 0 => s[h] = inst[h]
      /\ \A n \in Names : o[n] =
           IF n = inst[i].name \/ (n = Hub /\ Gone(i) # {}) THEN None ELSE openDevices[n]
  BY <1>1, PrimaryFields
<1>3. /\ \A h \in Instances : /\ Closes(i, h) \in Nat /\ inst[h].users \in Nat
                              /\ inst[h] \in Device
      /\ MaxInstances \in Nat /\ created \in Nat /\ None = 0
  BY ClosesHubs, LifecycleAssumption DEF TypeOK, Device, None
<1>4. \A h \in Instances : Closes(i, h) # 0 =>
         inst[h].name = Hub /\ h # i /\ \E c \in Caps : inst[i].hub[c] = h
  BY ClosesHubs
<1>5. ASSUME NEW h \in Gone(i)
      PROVE  /\ h \in Instances /\ Closes(i, h) # 0 /\ inst[h].name = Hub /\ h # i
             /\ inst[h].state = "open" /\ \E c \in Caps : inst[i].hub[c] = h
             /\ Minus(inst[h].users, Closes(i, h)) = 0
  BY <1>3, <1>4 DEF Gone, Shape, Minus
<1>6. ASSUME NEW j \in Instances
      PROVE  /\ s[j].name = inst[j].name /\ s[j].held = inst[j].held
             /\ s[j].ref = inst[j].ref
             /\ j > created => s[j] = inst[j]
             /\ s[j].state = "open" => inst[j].state = "open"
             /\ s[j].name = Hub => (s[j].state = "open" <=> s[j].users >= 1)
  <2>1. CASE j = i
    BY <2>1, <1>2, <1>3 DEF Instances
  <2>2. CASE j # i /\ j \in Gone(i)
    <3>1. s[j].users = 0 /\ s[j].state = "closed" /\ inst[j].state = "open"
      BY <2>2, <1>2, <1>5
    <3>2. ~(j > created)
      BY <3>1 DEF Shape, Blank
    <3> QED BY <2>2, <3>1, <3>2, <1>2
  <2>3. CASE j # i /\ j \notin Gone(i)
    <3>1. /\ s[j].state = inst[j].state /\ s[j].users = Minus(inst[j].users, Closes(i, j))
          /\ Closes(i, j) = 0 => s[j] = inst[j]
      BY <2>3, <1>2
    <3>2. j > created => Closes(i, j) = 0
      <4>1. \A c \in Caps : inst[i].hub[c] = j => j <= created
        BY <1>3 DEF Shape, Instances
      <4> QED BY <4>1, <1>3, <1>4 DEF Instances
    <3>3. inst[j].users >= 1 <=> s[j].users >= 1
      BY <2>3, <3>1, <1>3 DEF Gone, Minus
    <3>4. inst[j].name = Hub => (inst[j].state = "open" <=> inst[j].users >= 1)
      BY DEF Shape
    <3> QED BY <2>3, <3>1, <3>2, <3>3, <3>4, <1>2
  <2> QED BY <2>1, <2>2, <2>3
<1>7. ASSUME NEW j \in Instances, NEW c \in Caps
      PROVE  /\ s[j].hub[c] \in {None, inst[j].hub[c]}
             /\ s[j].hub[c] # None => s[j].state = "open"
  <2>1. CASE j = i
    BY <2>1, <1>2
  <2>2. CASE j # i
    <3>1. s[j].hub[c] = inst[j].hub[c]
      BY <2>2, <1>2
    <3>2. inst[j].hub[c] # None => inst[j].state = "open" /\ inst[j].name # Hub
      BY DEF Shape
    <3>3. j \in Gone(i) => inst[j].name = Hub
      BY <1>5
    <3> QED BY <2>2, <3>1, <3>2, <3>3, <1>2
  <2> QED BY <2>1, <2>2
<1>8. LeavesInstances(i, w)
  BY <1>1, <1>2, <1>6, <1>7, ZenonT(60) DEF LeavesInstances
<1>9. ASSUME ~stale, NEW h \in Gone(i) PROVE openDevices[Hub] = h
  BY <1>9, <1>5 DEF RegInv
<1>10. ASSUME NEW n \in Names
       PROVE  /\ o[n] \in {None, openDevices[n]}
              /\ o[n] # None => s[o[n]].state = "open"
              /\ ~stale /\ o[n] # openDevices[n] =>
                   \/ n = inst[i].name
                   \/ n = Hub /\ \E c \in Caps : inst[i].hub[c] = openDevices[Hub]
  <2>1. o[n] \in {None, openDevices[n]}
    BY <1>2
  <2>2. ASSUME o[n] # None PROVE s[o[n]].state = "open"
    <3>1. /\ o[n] = openDevices[n] /\ n # inst[i].name /\ ~(n = Hub /\ Gone(i) # {})
      BY <2>2, <1>2
    <3>2. o[n] \in Instances /\ inst[o[n]].state = "open" /\ inst[o[n]].name = n
      BY <2>2, <3>1, <1>2, <1>3 DEF Shape, RegisteredIsOpen, Instances
    <3>3. o[n] # i /\ o[n] \notin Gone(i)
      BY <3>1, <3>2, <1>5
    <3> QED BY <3>2, <3>3, <1>2
  <2>3. ASSUME ~stale, o[n] # openDevices[n], n # inst[i].name
        PROVE  n = Hub /\ \E c \in Caps : inst[i].hub[c] = openDevices[Hub]
    <3>1. n = Hub /\ Gone(i) # {}
      BY <2>3, <1>2
    <3> QED BY <2>3, <3>1, <1>5, <1>9
  <2> QED BY <2>1, <2>2, <2>3
<1>11. ASSUME ~stale, ~Superseded(i), NEW j \in Instances, s[j].state = "open"
       PROVE  o[s[j].name] = j
  <2>1. /\ j # i /\ j \notin Gone(i) /\ inst[j].state = "open" /\ s[j].name = inst[j].name
        /\ inst[j].name \in Names
    BY <1>11, <1>2, <1>3, <1>5 DEF Device
  <2>2. openDevices[inst[j].name] = j
    BY <2>1, <1>11 DEF RegInv
  <2>3. inst[j].name # inst[i].name
    BY <2>1, <2>2, <1>11, <1>3 DEF Superseded, Instances
  <2>4. ~(inst[j].name = Hub /\ Gone(i) # {})
    BY <2>1, <2>2, <1>9, <1>11
  <2> QED BY <2>1, <2>2, <2>3, <2>4, <1>2
<1>12. LeavesRegistry(i, w)
  BY <1>1, <1>10, <1>11, Zenon DEF LeavesRegistry
<1>13. ASSUME NEW h \in Instances, inst[h].name = Hub PROVE LeavesHub(w, h)
  <2>1. h # None /\ h # i
    BY <1>13, <1>3 DEF Instances
  <2>2. Loses(inst, s, i, h)
    BY <2>1, <1>2 DEF Loses
  <2>a. Cardinality(RefsIn(inst, h)) =
          Cardinality(RefsIn(s, h)) + Cardinality({c \in Caps : inst[i].hub[c] = h})
    BY <2>2, RefsClosed
  <2>3. Cardinality(Refs(h)) = Cardinality(RefsIn(s, h)) + Closes(i, h)
    BY <2>a DEF Refs, Closes
  <2> QED BY <2>1, <2>3, <1>1, <1>2, <1>3 DEF LeavesHub
<1>14. inst[i].name \in Names
  BY <1>3 DEF Device
<1> QED BY <1>1, <1>2, <1>8, <1>12, <1>13, <1>14

\* close() of a hub: its last user, or force, releases it.
LEMMA HubCloses ==
  ASSUME TypeOK, Shape, RegInv, NEW i \in Instances, i <= created, inst[i].name = Hub,
         NEW force \in BOOLEAN, NEW w, w = CloseAuxiliary(World, i, force)
  PROVE  /\ LeavesInstances(i, w) /\ LeavesRegistry(i, w)
         /\ \A j \in Instances : w.inst[j].hub = inst[j].hub /\ (j # i => w.inst[j] = inst[j])
         /\ IF force \/ inst[i].users = 1
            THEN w.inst[i].users = 0 /\ w.inst[i].state = "closed" /\ w.open[Hub] = None
            ELSE w.inst[i].users = Minus(inst[i].users, 1) /\ w.inst[i].state = inst[i].state
<1>1. PICK s, o : s = w.inst /\ o = w.open
  OBVIOUS
<1>2. /\ inst \in [Instances -> Device] /\ openDevices \in [Names -> 0..MaxInstances]
      /\ inst[i] \in Device /\ Hub \in Names
      /\ MaxInstances \in Nat /\ created \in Nat /\ None = 0
  BY LifecycleAssumption DEF TypeOK, Device, None, Names
<1>3. CASE force \/ inst[i].users = 1
  <2> DEFINE r == [inst[i] EXCEPT !.users = 0, !.state = "closed"]
  <2>1. s = [inst EXCEPT ![i] = r] /\ o = [openDevices EXCEPT ![Hub] = None]
    BY <1>1, <1>2, <1>3 DEF CloseAuxiliary, World
  <2>2. /\ r \in Device /\ r.name = Hub /\ r.held = inst[i].held /\ r.ref = inst[i].ref
        /\ r.hub = inst[i].hub /\ r.users = 0 /\ r.state = "closed"
    BY <1>2 DEF Device
  <2> HIDE DEF r
  <2>3. /\ s \in [Instances -> Device] /\ o \in [Names -> 0..MaxInstances]
        /\ s[i] = r /\ o[Hub] = None
        /\ \A j \in Instances : j # i => s[j] = inst[j]
        /\ \A n \in Names : n # Hub => o[n] = openDevices[n]
    BY <2>1, <2>2, <1>2
  <2>4. \A c \in Caps : inst[i].hub[c] = None
    BY DEF Shape
  <2>5. ASSUME NEW j \in Instances
        PROVE  /\ s[j].name = inst[j].name /\ s[j].held = inst[j].held
               /\ s[j].ref = inst[j].ref
               /\ j > created => s[j] = inst[j]
               /\ s[j].state = "open" => inst[j].state = "open"
               /\ s[j].name = Hub => (s[j].state = "open" <=> s[j].users >= 1)
    BY <2>2, <2>3, <1>2 DEF Shape, Instances
  <2>6. ASSUME NEW j \in Instances, NEW c \in Caps
        PROVE  /\ s[j].hub[c] \in {None, inst[j].hub[c]}
               /\ s[j].hub[c] # None => s[j].state = "open"
    BY <2>2, <2>3, <2>4 DEF Shape
  <2>7. LeavesInstances(i, w)
    BY <1>1, <2>3, <2>5, <2>6, Zenon DEF LeavesInstances
  <2>8. ASSUME NEW n \in Names
        PROVE  /\ o[n] \in {None, openDevices[n]}
               /\ o[n] # None => s[o[n]].state = "open"
               /\ o[n] # openDevices[n] => n = inst[i].name
    <3>1. CASE n = Hub
      BY <3>1, <2>3
    <3>2. CASE n # Hub
      <4>1. o[n] = openDevices[n]
        BY <3>2, <2>3
      <4>2. o[n] # None => /\ o[n] \in Instances /\ inst[o[n]].state = "open"
                           /\ inst[o[n]].name = n
        BY <4>1, <1>2 DEF Shape, RegisteredIsOpen, Instances
      <4> QED BY <3>2, <4>1, <4>2, <2>3
    <3> QED BY <3>1, <3>2
  <2>9. ASSUME ~stale, ~Superseded(i), NEW j \in Instances, s[j].state = "open"
        PROVE  o[s[j].name] = j
    <3>1. j # i /\ inst[j].state = "open" /\ s[j] = inst[j] /\ inst[j].name \in Names
      BY <2>2, <2>3, <2>9, <1>2 DEF Device
    <3>2. openDevices[inst[j].name] = j
      BY <3>1, <2>9 DEF RegInv
    <3>3. inst[j].name # Hub
      BY <3>1, <3>2, <2>9, <1>2 DEF Superseded, Instances
    <3> QED BY <3>1, <3>2, <3>3, <2>3
  <2>10. LeavesRegistry(i, w)
    BY <1>1, <2>8, <2>9, Zenon DEF LeavesRegistry
  <2> QED BY <1>1, <1>3, <2>2, <2>3, <2>7, <2>10
<1>4. CASE ~(force \/ inst[i].users = 1)
  <2> DEFINE r == [inst[i] EXCEPT !.users = Minus(@, 1)]
  <2>1. s = [inst EXCEPT ![i] = r] /\ o = openDevices
    BY <1>1, <1>2, <1>4 DEF CloseAuxiliary, World
  <2>2. /\ r \in Device /\ r.name = Hub /\ r.held = inst[i].held /\ r.ref = inst[i].ref
        /\ r.hub = inst[i].hub /\ r.users = Minus(inst[i].users, 1)
        /\ r.state = inst[i].state /\ (r.users >= 1 <=> inst[i].users >= 1)
    BY <1>2, <1>4 DEF Device, Minus
  <2> HIDE DEF r
  <2>3. /\ s \in [Instances -> Device] /\ s[i] = r
        /\ \A j \in Instances : j # i => s[j] = inst[j]
    BY <2>1, <2>2, <1>2
  <2>5. ASSUME NEW j \in Instances
        PROVE  /\ s[j].name = inst[j].name /\ s[j].held = inst[j].held
               /\ s[j].ref = inst[j].ref
               /\ j > created => s[j] = inst[j]
               /\ s[j].state = inst[j].state
               /\ s[j].name = Hub => (s[j].state = "open" <=> s[j].users >= 1)
    BY <2>2, <2>3, <1>2 DEF Shape, Instances
  <2>6. ASSUME NEW j \in Instances
        PROVE  /\ s[j].hub = inst[j].hub
               /\ \A c \in Caps : s[j].hub[c] # None => s[j].state = "open"
    BY <2>2, <2>3, <2>5 DEF Shape
  <2>7. LeavesInstances(i, w)
    BY <1>1, <1>2, <2>1, <2>3, <2>5, <2>6 DEF LeavesInstances
  <2>8. ASSUME NEW n \in Names, o[n] # None PROVE s[o[n]].state = "open"
    BY <2>8, <2>1, <2>5, <1>2 DEF Shape, RegisteredIsOpen, Instances
  <2>9. ASSUME ~stale, NEW j \in Instances, s[j].state = "open" PROVE o[s[j].name] = j
    BY <2>9, <2>1, <2>5 DEF RegInv
  <2>10. LeavesRegistry(i, w)
    BY <1>1, <2>1, <2>8, <2>9 DEF LeavesRegistry
  <2> QED BY <1>1, <1>4, <2>2, <2>3, <2>6, <2>7, <2>10
<1> QED BY <1>3, <1>4

\* close() of any device, in one lemma.
LEMMA DeviceCloses ==
  ASSUME TypeOK, Shape, RegInv, NEW i \in Instances, i <= created,
         NEW force \in BOOLEAN, NEW w, w = Closed(World, i, force)
  PROVE  /\ LeavesInstances(i, w) /\ LeavesRegistry(i, w)
         /\ force \/ inst[i].name # Hub => w.inst[i].state = "closed"
  <1>1. CASE inst[i].name = Hub
    <2>1. w = CloseAuxiliary(World, i, force)
      BY <1>1 DEF Closed, World
    <2>2. /\ LeavesInstances(i, w) /\ LeavesRegistry(i, w)
          /\ force => w.inst[i].state = "closed"
      BY <1>1, <2>1, HubCloses, ZenonT(60)
    <2> QED BY <1>1, <2>2
  <1>2. CASE inst[i].name # Hub
    <2>1. w = ClosePrimary(World, i)
      BY <1>2 DEF Closed, World
    <2>2. /\ LeavesInstances(i, w) /\ LeavesRegistry(i, w)
          /\ w.inst[i].state = "closed"
      BY <1>2, <2>1, PrimaryCloses, Zenon
    <2> QED BY <2>2
  <1> QED BY <1>1, <1>2

-----------------------------------------------------------------------------
(* Steps that close a device.                                              *)

\* A step that closes i as w says, and may count one creation of i less.
CloseStep(i, w) ==
  /\ openDevices' = w.open /\ created' = created /\ doubled' = doubled
  /\ inst' \in [Instances -> Device]
  /\ \A j \in Instances :
       /\ inst'[j].name = w.inst[j].name /\ inst'[j].hub = w.inst[j].hub
       /\ inst'[j].users = w.inst[j].users
       /\ inst'[j].state = "open" <=> w.inst[j].state = "open"
       /\ j # i => inst'[j] = w.inst[j]
  /\ context' \in {None, context} /\ todo' \subseteq todo
  /\ ~stale' => ~stale /\ ~Superseded(i)

\* Such a step keeps the shape of the instances and the registry.
LEMMA CloseKeepsShape ==
  ASSUME TypeOK, Shape, RegInv, NEW i \in Instances, i <= created,
         NEW w, LeavesInstances(i, w), LeavesRegistry(i, w), CloseStep(i, w)
  PROVE  Shape' /\ RegInv'
<1>1. PICK s, o : s = w.inst /\ o = w.open
  OBVIOUS
<1>2. /\ \A j \in Instances :
           /\ inst'[j].name = s[j].name /\ inst'[j].hub = s[j].hub
           /\ inst'[j].users = s[j].users
           /\ inst'[j].state = "open" <=> s[j].state = "open"
           /\ j # i => inst'[j] = s[j]
      /\ openDevices' = o /\ created' = created
      /\ context' \in {None, context}
      /\ ~stale' => ~stale /\ ~Superseded(i)
  BY <1>1 DEF CloseStep
<1>3. /\ o \in [Names -> 0..MaxInstances]
      /\ \A j \in Instances :
           /\ s[j].name = inst[j].name
           /\ j > created => s[j] = inst[j]
           /\ s[j].state = "open" => inst[j].state = "open"
           /\ s[j].name = Hub => (s[j].state = "open" <=> s[j].users >= 1)
      /\ \A j \in Instances, c \in Caps :
           /\ s[j].hub[c] \in {None, inst[j].hub[c]}
           /\ s[j].hub[c] # None => s[j].state = "open"
  BY <1>1, Zenon DEF LeavesInstances
<1>4. /\ \A n \in Names : /\ o[n] \in {None, openDevices[n]}
                          /\ o[n] # None => s[o[n]].state = "open"
      /\ ~stale /\ ~Superseded(i) =>
           \A j \in Instances : s[j].state = "open" => o[s[j].name] = j
  BY <1>1, Zenon DEF LeavesRegistry
<1>5. /\ MaxInstances \in Nat /\ created \in Nat /\ None = 0 /\ context \in Nat
      /\ \A j \in Instances, c \in Caps : inst[j].hub[c] \in 0..MaxInstances
      /\ \A n \in Names : openDevices[n] \in 0..MaxInstances
  BY LifecycleAssumption DEF TypeOK, Device, None
<1>6. \A j \in Instances : j > created => inst'[j] = Blank
  BY <1>2, <1>3, <1>5 DEF Shape, Instances
<1>7. ASSUME NEW j \in Instances, NEW c \in Caps, inst'[j].hub[c] # None
      PROVE  /\ inst'[j].state = "open" /\ inst'[j].name # Hub
             /\ inst'[j].hub[c] <= created /\ inst'[inst'[j].hub[c]].name = Hub
  <2>1. inst'[j].hub[c] = inst[j].hub[c] /\ s[j].state = "open" /\ inst[j].hub[c] # None
    BY <1>2, <1>3, <1>7
  <2>2. /\ inst[j].name # Hub /\ inst[j].hub[c] <= created
        /\ inst[inst[j].hub[c]].name = Hub /\ inst[j].hub[c] \in Instances
    BY <2>1, <1>5 DEF Shape, Instances
  <2> QED BY <2>1, <2>2, <1>2, <1>3
<1>8. ASSUME NEW j \in Instances, inst'[j].name = Hub
      PROVE  inst'[j].state = "open" <=> inst'[j].users >= 1
  BY <1>2, <1>3, <1>8
<1>9. ASSUME NEW n \in Names, openDevices'[n] # None
      PROVE  inst'[openDevices'[n]].state = "open" /\ inst'[openDevices'[n]].name = n
  <2>1. openDevices'[n] = openDevices[n] /\ o[n] = openDevices[n] /\ s[o[n]].state = "open"
    BY <1>2, <1>4, <1>9
  <2>2. openDevices[n] \in Instances /\ inst[openDevices[n]].name = n
    BY <2>1, <1>5, <1>9 DEF Shape, RegisteredIsOpen, Instances
  <2> QED BY <2>1, <2>2, <1>2, <1>3
<1>10. context' <= created
  BY <1>2, <1>5 DEF Shape
<1>11. Shape'
  BY <1>2, <1>6, <1>7, <1>8, <1>9, <1>10 DEF Shape, RegisteredIsOpen
<1>12. ASSUME ~stale', NEW j \in Instances, inst'[j].state = "open"
       PROVE  openDevices'[inst'[j].name] = j
  BY <1>2, <1>3, <1>4, <1>12
<1> QED BY <1>11, <1>12 DEF RegInv

\* And what the call in progress relies on.
LEMMA CloseKeepsCall ==
  ASSUME TypeOK, Shape, MakingInv, TodoInv, RegInv, NEW i \in Instances, i <= created,
         NEW w, LeavesInstances(i, w), LeavesRegistry(i, w), CloseStep(i, w),
         \/ mpc' = mpc /\ making' = making /\ making # i
         \/ mpc = "making" /\ mpc' = "idle" /\ making' = None,
         todo' = todo \/ (todo' = todo \ {i} /\ (mpc = "forceAll" => w.inst[i].state # "open"))
  PROVE  MakingInv' /\ TodoInv'
<1>1. PICK s, o : s = w.inst /\ o = w.open
  OBVIOUS
<1>2. /\ \A j \in Instances :
           /\ inst'[j].name = s[j].name /\ inst'[j].hub = s[j].hub
           /\ inst'[j].state = "open" <=> s[j].state = "open"
           /\ j # i => inst'[j] = s[j]
      /\ openDevices' = o /\ created' = created
      /\ todo' \subseteq todo
      /\ ~stale' => ~stale /\ ~Superseded(i)
  BY <1>1 DEF CloseStep
<1>3. /\ \A j \in Instances : /\ s[j].name = inst[j].name /\ s[j].held = inst[j].held
                              /\ s[j].state = "open" => inst[j].state = "open"
      /\ \A j \in Instances, c \in Caps : s[j].hub[c] \in {None, inst[j].hub[c]}
  BY <1>1, Zenon DEF LeavesInstances
<1>4. \A n \in Names :
        /\ o[n] \in {None, openDevices[n]}
        /\ ~stale /\ o[n] # openDevices[n] =>
             n = inst[i].name \/ (n = Hub /\ \E c \in Caps : inst[i].hub[c] = openDevices[Hub])
  BY <1>1, Zenon DEF LeavesRegistry
<1>5. /\ MaxInstances \in Nat /\ created \in 0..MaxInstances /\ None = 0
      /\ \A j \in Instances : inst[j].name \in Names
      /\ todo \subseteq Instances
  BY LifecycleAssumption DEF TypeOK, None
<1>6. MakingInv'
  <2>1. CASE mpc' = "making" /\ mpc = "making" /\ making' = making /\ making # i
    <3>1. /\ making \in Instances /\ making \in 1..created /\ inst[making].held = 0
          /\ \A j \in Instances, c \in Caps : inst[j].hub[c] # making
      BY <2>1, <1>5 DEF MakingInv, Instances
    <3>2. inst'[making].held = 0 /\ inst'[making].name = inst[making].name
      BY <3>1, <2>1, <1>2, <1>3
    <3>3. \A j \in Instances, c \in Caps : inst'[j].hub[c] # making
      BY <3>1, <1>2, <1>3, <1>5
    <3>4. ASSUME ~stale' PROVE openDevices'[inst[making].name] = making
      <4>1. openDevices[inst[making].name] = making /\ ~stale /\ ~Superseded(i)
        BY <2>1, <3>4, <1>2 DEF MakingInv
      <4>2. inst[making].name # inst[i].name
        BY <4>1, <2>1, <3>1, <1>5 DEF Superseded
      <4>3. ~(inst[making].name = Hub /\ \E c \in Caps : inst[i].hub[c] = openDevices[Hub])
        BY <4>1, <3>1
      <4> QED BY <4>1, <4>2, <4>3, <3>1, <1>2, <1>4, <1>5
    <3> QED BY <2>1, <3>1, <3>2, <3>3, <3>4, <1>2 DEF MakingInv
  <2>2. CASE mpc' # "making" /\ making' = None
    BY <2>2 DEF MakingInv
  <2> QED BY <2>1, <2>2 DEF MakingInv
<1>7. TodoInv'
  <2>1. mpc' \in {"idle", "making"} => todo' = {}
    BY <1>2 DEF TodoInv
  <2>2. ASSUME NEW j \in todo'
        PROVE  j <= created' /\ openDevices'[inst'[j].name] \in {None, j}
    <3>1. j \in todo /\ j \in Instances /\ inst'[j].name = inst[j].name
      BY <1>2, <1>3, <1>5
    <3> QED BY <3>1, <1>2, <1>4, <1>5 DEF TodoInv
  <2>3. ASSUME mpc' = "forceAll", ~stale', NEW j \in Instances, inst'[j].state = "open"
        PROVE  j \in todo'
    <3>1. mpc = "forceAll" /\ ~stale /\ s[j].state = "open" /\ inst[j].state = "open"
      BY <2>3, <1>2, <1>3
    <3>2. j \in todo
      BY <3>1 DEF TodoInv
    <3> QED BY <3>1, <3>2, <1>1
  <2> QED BY <2>1, <2>2, <2>3 DEF TodoInv
<1> QED BY <1>6, <1>7

\* Users and holders of a hub are natural numbers.
LEMMA CountsAreNaturals ==
  ASSUME TypeOK, NEW h \in Instances
  PROVE  /\ inst[h].users \in Nat /\ Direct(h) \in Nat /\ Cardinality(Refs(h)) \in Nat
         /\ Holders(h) \in Nat
<1>1. inst[h].users \in Nat /\ inst[h].held \in Nat
  BY DEF TypeOK
<1>2. Cardinality(Refs(h)) \in Nat
  BY RefsFinite DEF Refs
<1> QED BY <1>1, <1>2 DEF Direct, Holders, One

\* A hub without references has none counted.
LEMMA NoRefs ==
  ASSUME NEW h
  PROVE  Refs(h) = {} <=> Cardinality(Refs(h)) = 0
<1>1. IsFiniteSet(Refs(h))
  BY RefsFinite DEF Refs
<1> QED BY <1>1, FS_EmptySet

\* When a primary device closes, each hub loses as many users as references.
LEMMA PrimaryKeepsCounts ==
  ASSUME TypeOK, TypeOK', Shape, Shape', RegInv, LowerInv, UpperInv,
         NEW i \in Instances, i <= created, inst[i].name # Hub,
         NEW w, w = ClosePrimary(World, i), CloseStep(i, w),
         \A h \in Instances : h # i => Direct(h)' = Direct(h),
         mpc' \in {"idle", "making"} => mpc \in {"idle", "making"}
  PROVE  LowerInv' /\ UpperInv'
<1>1. /\ LeavesInstances(i, w)
      /\ \A h \in Instances : inst[h].name = Hub => LeavesHub(w, h)
  BY PrimaryCloses, Zenon
<1>2. ASSUME NEW h \in Instances, inst'[h].name = Hub
      PROVE  /\ inst[h].name = Hub /\ h # i /\ Direct(h)' = Direct(h)
             /\ \E k \in Nat : /\ Cardinality(Refs(h)) = Cardinality(Refs(h)') + k
                               /\ inst'[h].users = Minus(inst[h].users, k)
             /\ Cardinality(Refs(h)') \in Nat /\ Cardinality(Refs(h)) \in Nat
             /\ inst[h].users \in Nat /\ Direct(h) \in Nat
             /\ inst[h].state = "open" <=> inst[h].users >= 1
             /\ inst'[h].state = "open" <=> inst'[h].users >= 1
  <2>1. inst[h].name = Hub /\ h # i
    BY <1>1, <1>2 DEF LeavesInstances, CloseStep
  <2>2. RefsIn(inst', h) = RefsIn(w.inst, h)
    <3>1. \A j \in Instances, c \in Caps : inst'[j].hub[c] = w.inst[j].hub[c]
      BY DEF CloseStep
    <3> QED BY <3>1, RefsKept
  <2>3. inst'[h].users = w.inst[h].users
    BY DEF CloseStep
  <2>4. \E k \in Nat : /\ Cardinality(Refs(h)) = Cardinality(Refs(h)') + k
                       /\ inst'[h].users = Minus(inst[h].users, k)
    BY <1>1, <2>1, <2>2, <2>3 DEF LeavesHub, Refs
  <2>5. Cardinality(Refs(h)') \in Nat
    BY RefsFinite DEF Refs
  <2> QED BY <1>2, <2>1, <2>4, <2>5, CountsAreNaturals DEF Shape
<1>3. ASSUME ~stale', mpc' \in {"idle", "making"}, NEW h \in Instances, inst'[h].name = Hub
      PROVE  /\ inst'[h].state = "open" => inst'[h].users >= Holders(h)'
             /\ inst'[h].state # "open" => Refs(h)' = {}
  <2>1. PICK k \in Nat : /\ Cardinality(Refs(h)) = Cardinality(Refs(h)') + k
                         /\ inst'[h].users = Minus(inst[h].users, k)
    BY <1>2, <1>3
  <2>2. ~stale /\ mpc \in {"idle", "making"}
    BY <1>3 DEF CloseStep
  <2>3. /\ inst[h].state = "open" => inst[h].users >= Direct(h) + Cardinality(Refs(h))
        /\ inst[h].state # "open" => Cardinality(Refs(h)) = 0
    BY <2>2, <1>2, <1>3, NoRefs DEF LowerInv, Holders
  <2>4. CASE inst'[h].state = "open"
    <3>1. inst'[h].users >= 1 /\ inst[h].users >= 1
      BY <2>1, <2>4, <1>2, <1>3 DEF Minus
    <3>2. inst[h].state = "open"
      BY <3>1, <1>2, <1>3
    <3>3. inst'[h].users >= Direct(h)' + Cardinality(Refs(h)')
      BY <2>1, <2>3, <3>1, <3>2, <1>2, <1>3 DEF Minus
    <3> QED BY <2>4, <3>3 DEF Holders
  <2>5. CASE inst'[h].state # "open"
    <3>1. ~(inst'[h].users >= 1)
      BY <2>5, <1>2, <1>3
    <3>2. Cardinality(Refs(h)') = 0
      BY <2>1, <2>3, <3>1, <1>2, <1>3 DEF Minus
    <3>3. IsFiniteSet(Refs(h)')
      BY RefsFinite DEF Refs
    <3>4. Refs(h)' = {}
      BY <3>2, <3>3, FS_EmptySet
    <3> QED BY <2>5, <3>4
  <2> QED BY <2>4, <2>5
<1>4. ASSUME ~doubled', NEW h \in Instances, inst'[h].name = Hub, inst'[h].state = "open"
      PROVE  inst'[h].users <= Holders(h)'
  <2>1. PICK k \in Nat : /\ Cardinality(Refs(h)) = Cardinality(Refs(h)') + k
                         /\ inst'[h].users = Minus(inst[h].users, k)
    BY <1>2, <1>4
  <2>2. inst'[h].users >= 1 /\ inst[h].users >= 1
    BY <2>1, <1>2, <1>4 DEF Minus
  <2>3. inst[h].users <= Direct(h) + Cardinality(Refs(h))
    BY <2>2, <1>2, <1>4 DEF UpperInv, Holders, CloseStep
  <2>4. inst'[h].users <= Direct(h)' + Cardinality(Refs(h)')
    BY <2>1, <2>2, <2>3, <1>2, <1>4 DEF Minus
  <2> QED BY <2>4 DEF Holders
<1> QED BY <1>3, <1>4 DEF LowerInv, UpperInv

\* When a hub closes, no other device's counts change.
LEMMA HubKeepsOthers ==
  ASSUME TypeOK, Shape, RegInv, NEW i \in Instances, i <= created, inst[i].name = Hub,
         NEW force \in BOOLEAN, NEW w, w = CloseAuxiliary(World, i, force), CloseStep(i, w)
  PROVE  /\ \A h : Refs(h)' = Refs(h)
         /\ \A h \in Instances : inst'[h].name = inst[h].name /\ (h # i => inst'[h] = inst[h])
         /\ IF force \/ inst[i].users = 1
            THEN inst'[i].users = 0 /\ inst'[i].state # "open"
            ELSE /\ inst'[i].users = Minus(inst[i].users, 1)
                 /\ inst'[i].state = "open" <=> inst[i].state = "open"
<1>1. /\ LeavesInstances(i, w)
      /\ \A j \in Instances : w.inst[j].hub = inst[j].hub /\ (j # i => w.inst[j] = inst[j])
      /\ IF force \/ inst[i].users = 1
         THEN w.inst[i].users = 0 /\ w.inst[i].state = "closed" /\ w.open[Hub] = None
         ELSE w.inst[i].users = Minus(inst[i].users, 1) /\ w.inst[i].state = inst[i].state
  <2>1. LeavesInstances(i, w)
    BY HubCloses, Zenon
  <2>2. \A j \in Instances : w.inst[j].hub = inst[j].hub /\ (j # i => w.inst[j] = inst[j])
    BY HubCloses
  <2>3. IF force \/ inst[i].users = 1
        THEN w.inst[i].users = 0 /\ w.inst[i].state = "closed" /\ w.open[Hub] = None
        ELSE w.inst[i].users = Minus(inst[i].users, 1) /\ w.inst[i].state = inst[i].state
    BY HubCloses
  <2> QED BY <2>1, <2>2, <2>3, Zenon
<1>2. /\ \A j \in Instances :
           /\ inst'[j].name = w.inst[j].name /\ inst'[j].hub = w.inst[j].hub
           /\ inst'[j].users = w.inst[j].users
           /\ inst'[j].state = "open" <=> w.inst[j].state = "open"
           /\ j # i => inst'[j] = w.inst[j]
  BY DEF CloseStep
<1>3. ASSUME NEW h PROVE Refs(h)' = Refs(h)
  <2>1. \A j \in Instances, c \in Caps : inst'[j].hub[c] = inst[j].hub[c]
    BY <1>1, <1>2
  <2> QED BY <2>1, RefsKept DEF Refs
<1>4. \A h \in Instances : inst'[h].name = inst[h].name /\ (h # i => inst'[h] = inst[h])
  BY <1>1, <1>2 DEF LeavesInstances
<1>5. IF force \/ inst[i].users = 1
      THEN inst'[i].users = 0 /\ inst'[i].state # "open"
      ELSE /\ inst'[i].users = Minus(inst[i].users, 1)
           /\ inst'[i].state = "open" <=> inst[i].state = "open"
  BY <1>1, <1>2
<1> QED BY <1>3, <1>4, <1>5

\* When one of its holders closes a hub, it loses one user and one holder.
LEMMA HubKeepsCounts ==
  ASSUME TypeOK, TypeOK', Shape, RegInv, LowerInv, UpperInv,
         NEW i \in Instances, i <= created, inst[i].name = Hub,
         NEW w, w = CloseAuxiliary(World, i, FALSE), CloseStep(i, w),
         \A h \in Instances : h # i => Direct(h)' = Direct(h),
         Direct(i) >= 1, Direct(i)' = Direct(i) - 1,
         mpc \in {"idle", "making"}
  PROVE  LowerInv' /\ UpperInv'
<1>1. /\ \A h : Refs(h)' = Refs(h)
      /\ \A h \in Instances : inst'[h].name = inst[h].name /\ (h # i => inst'[h] = inst[h])
      /\ IF inst[i].users = 1
         THEN inst'[i].users = 0 /\ inst'[i].state # "open"
         ELSE /\ inst'[i].users = Minus(inst[i].users, 1)
              /\ inst'[i].state = "open" <=> inst[i].state = "open"
  <2>1. FALSE \in BOOLEAN
    OBVIOUS
  <2> QED BY <2>1, HubKeepsOthers, Zenon
<1>2. \A h \in Instances : /\ inst[h].users \in Nat /\ Direct(h) \in Nat
                           /\ Cardinality(Refs(h)) \in Nat
  BY CountsAreNaturals
<1>3. inst[i].state = "open" <=> inst[i].users >= 1
  BY DEF Shape
<1>4. ASSUME ~stale', NEW h \in Instances, inst'[h].name = Hub
      PROVE  /\ inst'[h].state = "open" => inst'[h].users >= Holders(h)'
             /\ inst'[h].state # "open" => Refs(h)' = {}
  <2>1. ~stale /\ inst[h].name = Hub /\ Refs(h)' = Refs(h)
    BY <1>1, <1>4 DEF CloseStep
  <2>2. /\ inst[h].state = "open" => inst[h].users >= Direct(h) + Cardinality(Refs(h))
        /\ inst[h].state # "open" => Refs(h) = {}
    BY <2>1 DEF LowerInv, Holders
  <2>3. CASE h # i
    <3>1. inst'[h] = inst[h] /\ Direct(h)' = Direct(h)
      BY <2>3, <1>1
    <3> QED BY <2>1, <2>2, <3>1 DEF Holders
  <2>4. CASE h = i /\ inst[i].users = 1
    <3>1. Cardinality(Refs(i)) = 0
      BY <2>2, <2>4, <1>2, <1>3
    <3> QED BY <2>1, <2>4, <3>1, <1>1, NoRefs
  <2>5. CASE h = i /\ inst[i].users # 1
    <3>1. inst'[i].state = "open" => inst'[i].users >= Direct(i)' + Cardinality(Refs(i)')
      BY <2>1, <2>2, <2>5, <1>1, <1>2, <1>3 DEF Minus
    <3> QED BY <2>1, <2>2, <2>5, <3>1, <1>1 DEF Holders
  <2> QED BY <2>3, <2>4, <2>5
<1>5. ASSUME ~doubled', NEW h \in Instances, inst'[h].name = Hub, inst'[h].state = "open"
      PROVE  inst'[h].users <= Holders(h)'
  <2>1. ~doubled /\ inst[h].name = Hub /\ Refs(h)' = Refs(h)
    BY <1>1, <1>5 DEF CloseStep
  <2>2. inst[h].state = "open"
    BY <1>1, <1>5
  <2>3. inst[h].users <= Direct(h) + Cardinality(Refs(h))
    BY <2>1, <2>2 DEF UpperInv, Holders
  <2>4. CASE h # i
    <3>1. inst'[h] = inst[h] /\ Direct(h)' = Direct(h)
      BY <2>4, <1>1
    <3> QED BY <2>1, <2>3, <3>1 DEF Holders
  <2>5. CASE h = i
    <3>1. inst'[i].users <= Direct(i)' + Cardinality(Refs(i)')
      BY <2>1, <2>2, <2>3, <2>5, <1>1, <1>2, <1>3, <1>5 DEF Minus
    <3> QED BY <2>5, <3>1 DEF Holders
  <2> QED BY <2>4, <2>5
<1> QED BY <1>4, <1>5 DEF LowerInv, UpperInv

\* When close_open_devices closes a hub, it can only lose users.
LEMMA AllKeepsCounts ==
  ASSUME TypeOK, TypeOK', Shape, Shape', RegInv, LowerInv, UpperInv,
         NEW i \in Instances, i <= created,
         NEW force \in BOOLEAN, NEW w, w = Closed(World, i, force), CloseStep(i, w),
         \A h \in Instances : Direct(h)' = Direct(h),
         mpc' \notin {"idle", "making"}
  PROVE  LowerInv' /\ UpperInv'
<1>1. CASE inst[i].name # Hub
  <2>1. w = ClosePrimary(World, i)
    BY <1>1 DEF Closed, World
  <2> QED BY <1>1, <2>1, PrimaryKeepsCounts
<1>2. CASE inst[i].name = Hub
  <2>1. w = CloseAuxiliary(World, i, force)
    BY <1>2 DEF Closed, World
  <2>2. /\ \A h : Refs(h)' = Refs(h)
        /\ \A h \in Instances : inst'[h].name = inst[h].name /\ (h # i => inst'[h] = inst[h])
        /\ IF force \/ inst[i].users = 1
           THEN inst'[i].users = 0 /\ inst'[i].state # "open"
           ELSE /\ inst'[i].users = Minus(inst[i].users, 1)
                /\ inst'[i].state = "open" <=> inst[i].state = "open"
    BY <1>2, <2>1, HubKeepsOthers, Zenon
  <2>3. \A h \in Instances : /\ inst[h].users \in Nat /\ Direct(h) \in Nat
                             /\ Cardinality(Refs(h)) \in Nat
    BY CountsAreNaturals
  <2>4. ASSUME ~doubled', NEW h \in Instances, inst'[h].name = Hub, inst'[h].state = "open"
        PROVE  inst'[h].users <= Holders(h)'
    <3>1. ~doubled /\ inst[h].name = Hub /\ inst[h].state = "open"
      BY <2>2, <2>4 DEF CloseStep
    <3>2. inst[h].users <= Direct(h) + Cardinality(Refs(h))
      BY <3>1 DEF UpperInv, Holders
    <3>3. Direct(h)' = Direct(h) /\ Refs(h)' = Refs(h)
      BY <2>2
    <3>4. inst'[h].users <= inst[h].users /\ inst'[h].users \in Nat
      BY <2>2, <2>3, <2>4 DEF Minus
    <3>5. inst'[h].users <= Direct(h)' + Cardinality(Refs(h)')
      BY <2>3, <3>2, <3>3, <3>4
    <3> QED BY <3>5 DEF Holders
  <2> QED BY <2>4 DEF LowerInv, UpperInv
<1> QED BY <1>1, <1>2

-----------------------------------------------------------------------------
(* The actions that close a device.                                        *)

\* A new instance has been constructed.
LEMMA InUse ==
  ASSUME TypeOK, Shape, NEW i \in Instances,
         inst[i].ref \/ inst[i].state # "none"
  PROVE  i <= created
BY DEF Shape, Blank, Instances, TypeOK

\* The parts of the invariant that every closing step keeps.
LEMMA CloseStepKeeps ==
  ASSUME Inv, NEW i \in Instances, i <= created, NEW force \in BOOLEAN,
         NEW w, w = Closed(World, i, force), CloseStep(i, w),
         mpc' \in {"idle", "making", "closeAll", "forceAll"}, making' \in {None, making},
         stale' \in BOOLEAN,
         \/ mpc' = mpc /\ making' = making /\ making # i
         \/ mpc = "making" /\ mpc' = "idle" /\ making' = None,
         todo' = todo \/ (todo' = todo \ {i} /\ (mpc = "forceAll" => force))
  PROVE  TypeOK' /\ Shape' /\ RegInv' /\ MakingInv' /\ TodoInv'
<1>1. /\ LeavesInstances(i, w) /\ LeavesRegistry(i, w)
      /\ force \/ inst[i].name # Hub => w.inst[i].state = "closed"
  BY DeviceCloses DEF Inv
<1>2. TypeOK'
  <2>1. w.open \in [Names -> 0..MaxInstances]
    BY <1>1 DEF LeavesInstances
  <2> QED BY <2>1, LifecycleAssumption DEF TypeOK, Inv, CloseStep, Device, None
<1>3. Shape' /\ RegInv'
  BY <1>1, CloseKeepsShape DEF Inv
<1>4. todo' = todo \/ (todo' = todo \ {i} /\ (mpc = "forceAll" => w.inst[i].state # "open"))
  BY <1>1
<1>5. MakingInv' /\ TodoInv'
  BY <1>1, <1>4, CloseKeepsCall DEF Inv
<1> QED BY <1>2, <1>3, <1>5

LEMMA CloseKeeps ==
  ASSUME Inv, NEW i \in Instances, Close(i)
  PROVE  Inv'
<1> DEFINE w == Closed(World, i, FALSE)
<1>1. /\ mpc = "idle" /\ inst[i].ref
      /\ inst[i].name = Hub => inst[i].held > 0
      /\ stale' = (stale \/ Superseded(i))
      /\ inst' = [w.inst EXCEPT ![i].held = Minus(@, 1)] /\ openDevices' = w.open
      /\ UNCHANGED <<created, mpc, making, todo, context, doubled>>
  BY DEF Close
<1>2. i <= created /\ making = None /\ making # i
  BY <1>1, InUse DEF Inv, MakingInv, None, Instances
<1> HIDE DEF w
<1>3. /\ LeavesInstances(i, w) /\ LeavesRegistry(i, w)
  BY <1>2, DeviceCloses DEF Inv, w
<1>4. /\ w.inst \in [Instances -> Device] /\ w.open \in [Names -> 0..MaxInstances]
      /\ w.inst[i].held = inst[i].held /\ inst[i].held \in Nat
      /\ \A j \in Instances : w.inst[j].held = inst[j].held
  BY <1>3 DEF LeavesInstances, Inv, TypeOK
<1>5. /\ [w.inst[i] EXCEPT !.held = Minus(@, 1)] \in Device
      /\ inst' = [w.inst EXCEPT ![i] = [w.inst[i] EXCEPT !.held = Minus(@, 1)]]
  <2>1. Minus(inst[i].held, 1) \in Nat /\ w.inst[i] \in Device
    BY <1>4 DEF Minus
  <2> QED BY <2>1, <1>1, <1>4 DEF Device
<1>6. /\ CloseStep(i, w)
      /\ inst'[i].held = Minus(inst[i].held, 1)
      /\ \A j \in Instances : j # i => inst'[j].held = inst[j].held
  <2>1. /\ inst' \in [Instances -> Device]
        /\ inst'[i] = [w.inst[i] EXCEPT !.held = Minus(@, 1)]
        /\ \A j \in Instances : j # i => inst'[j] = w.inst[j]
    BY <1>4, <1>5
  <2>2. /\ inst'[i].name = w.inst[i].name /\ inst'[i].hub = w.inst[i].hub
        /\ inst'[i].users = w.inst[i].users /\ inst'[i].state = w.inst[i].state
        /\ inst'[i].held = Minus(inst[i].held, 1)
    BY <2>1, <1>4 DEF Device
  <2>3. stale' \in BOOLEAN /\ (~stale' => ~stale /\ ~Superseded(i))
    BY <1>1 DEF Inv, TypeOK
  <2> QED BY <2>1, <2>2, <2>3, <1>1, <1>4 DEF CloseStep
<1>7. TypeOK' /\ Shape' /\ RegInv' /\ MakingInv' /\ TodoInv'
  <2>1. stale' \in BOOLEAN /\ mpc' \in {"idle", "making", "closeAll", "forceAll"}
    BY <1>1 DEF Inv, TypeOK
  <2> QED BY <2>1, <1>1, <1>2, <1>6, CloseStepKeeps DEF w
<1>8. \A h \in Instances : h # i => Direct(h)' = Direct(h)
  BY <1>1, <1>6 DEF Direct
<1>9. CASE inst[i].name = Hub
  <2>1. w = CloseAuxiliary(World, i, FALSE)
    BY <1>9 DEF w, Closed, World
  <2>2. Direct(i) >= 1 /\ Direct(i)' = Direct(i) - 1
    BY <1>1, <1>2, <1>4, <1>6, <1>9 DEF Direct, One, Minus, None
  <2> QED BY <1>1, <1>2, <1>6, <1>7, <1>8, <1>9, <2>1, <2>2, HubKeepsCounts DEF Inv
<1>10. CASE inst[i].name # Hub
  <2>1. w = ClosePrimary(World, i)
    BY <1>10 DEF w, Closed, World
  <2> QED BY <1>1, <1>2, <1>6, <1>7, <1>8, <1>10, <2>1, PrimaryKeepsCounts DEF Inv
<1> QED BY <1>9, <1>10

LEMMA DelKeeps ==
  ASSUME Inv, NEW i \in Instances, Del(i)
  PROVE  Inv'
<1> DEFINE w == Closed(World, i, TRUE)
<1>1. /\ inst[i].state \in {"open", "closed"} /\ ~Referenced(i)
      /\ stale' = (stale \/ Superseded(i))
      /\ inst' = [w.inst EXCEPT ![i].state = "deleted"] /\ openDevices' = w.open
      /\ UNCHANGED <<created, mpc, making, todo, context, doubled>>
  BY DEF Del
<1>2. i <= created /\ making # i /\ context # i
      /\ \A j \in Instances, c \in Caps : inst[j].hub[c] # i
  BY <1>1, InUse DEF Inv, Referenced
<1> HIDE DEF w
<1>3. /\ LeavesInstances(i, w) /\ LeavesRegistry(i, w) /\ w.inst[i].state = "closed"
  BY <1>2, DeviceCloses DEF Inv, w
<1>4. /\ w.inst \in [Instances -> Device] /\ w.open \in [Names -> 0..MaxInstances]
      /\ \A j \in Instances : w.inst[j].held = inst[j].held
  BY <1>3 DEF LeavesInstances
<1>5. /\ [w.inst[i] EXCEPT !.state = "deleted"] \in Device
      /\ inst' = [w.inst EXCEPT ![i] = [w.inst[i] EXCEPT !.state = "deleted"]]
  BY <1>1, <1>4 DEF Device
<1>6. /\ CloseStep(i, w) /\ inst'[i].state = "deleted"
      /\ \A j \in Instances : inst'[j].held = inst[j].held
  <2>1. /\ inst' \in [Instances -> Device]
        /\ inst'[i] = [w.inst[i] EXCEPT !.state = "deleted"]
        /\ \A j \in Instances : j # i => inst'[j] = w.inst[j]
    BY <1>4, <1>5
  <2>2. /\ inst'[i].name = w.inst[i].name /\ inst'[i].hub = w.inst[i].hub
        /\ inst'[i].users = w.inst[i].users /\ inst'[i].state = "deleted"
        /\ inst'[i].held = w.inst[i].held
    BY <2>1, <1>4 DEF Device
  <2>3. stale' \in BOOLEAN /\ (~stale' => ~stale /\ ~Superseded(i))
    BY <1>1 DEF Inv, TypeOK
  <2> QED BY <2>1, <2>2, <2>3, <1>1, <1>3, <1>4 DEF CloseStep
<1>7. TypeOK' /\ Shape' /\ RegInv' /\ MakingInv' /\ TodoInv'
  <2>1. stale' \in BOOLEAN /\ mpc' \in {"idle", "making", "closeAll", "forceAll"}
    BY <1>1 DEF Inv, TypeOK
  <2> QED BY <2>1, <1>1, <1>2, <1>6, CloseStepKeeps DEF w
<1>8. \A h \in Instances : Direct(h)' = Direct(h)
  BY <1>1, <1>6 DEF Direct
<1>9. CASE inst[i].name = Hub
  <2>1. w = CloseAuxiliary(World, i, TRUE)
    BY <1>9 DEF w, Closed, World
  <2>2. /\ \A h : Refs(h)' = Refs(h)
        /\ \A h \in Instances : inst'[h].name = inst[h].name /\ (h # i => inst'[h] = inst[h])
    BY <2>1, <1>2, <1>6, <1>9, HubKeepsOthers DEF Inv
  <2>3. Refs(i) = {}
    BY <1>2 DEF Refs, RefsIn
  <2>4. ASSUME ~stale', mpc' \in {"idle", "making"}, NEW h \in Instances, inst'[h].name = Hub
        PROVE  /\ inst'[h].state = "open" => inst'[h].users >= Holders(h)'
               /\ inst'[h].state # "open" => Refs(h)' = {}
    <3>1. CASE h = i
      BY <3>1, <2>2, <2>3, <1>6
    <3>2. CASE h # i
      <4>1. inst'[h] = inst[h] /\ Refs(h)' = Refs(h) /\ Holders(h)' = Holders(h)
        BY <3>2, <2>2, <1>8 DEF Holders
      <4>2. ~stale /\ mpc \in {"idle", "making"}
        BY <2>4, <1>1 DEF CloseStep, Inv, TypeOK
      <4> QED BY <2>4, <4>1, <4>2 DEF Inv, LowerInv
    <3> QED BY <3>1, <3>2
  <2>5. ASSUME ~doubled', NEW h \in Instances, inst'[h].name = Hub, inst'[h].state = "open"
        PROVE  inst'[h].users <= Holders(h)'
    <3>1. h # i
      BY <2>5, <1>6
    <3>2. inst'[h] = inst[h] /\ Holders(h)' = Holders(h)
      BY <3>1, <2>2, <1>8 DEF Holders
    <3> QED BY <2>5, <3>2, <1>1 DEF Inv, UpperInv
  <2> QED BY <1>7, <2>4, <2>5 DEF Inv, LowerInv, UpperInv
<1>10. CASE inst[i].name # Hub
  <2>1. w = ClosePrimary(World, i)
    BY <1>10 DEF w, Closed, World
  <2> QED BY <1>1, <1>2, <1>6, <1>7, <1>8, <1>10, <2>1, PrimaryKeepsCounts DEF Inv
<1> QED BY <1>9, <1>10

\* A step that becomes what close() leaves behind.
LEMMA BecomesClosed ==
  ASSUME Inv, NEW i \in Instances, i <= created, NEW force \in BOOLEAN,
         NEW w, w = Closed(World, i, force), Becomes(w),
         created' = created, doubled' = doubled, context' \in {None, context},
         todo' \subseteq todo, ~stale' => ~stale /\ ~Superseded(i)
  PROVE  CloseStep(i, w) /\ \A j \in Instances : inst'[j].held = inst[j].held
<1>1. LeavesInstances(i, w)
  BY DeviceCloses DEF Inv
<1> QED BY <1>1 DEF LeavesInstances, CloseStep, Becomes

LEMMA ExitKeeps ==
  ASSUME Inv, Exit
  PROVE  Inv'
<1>0. PICK i \in Instances : i = context
  BY LifecycleAssumption DEF Exit, Inv, TypeOK, None, Instances
<1> DEFINE w == Closed(World, i, FALSE)
<1>1. /\ mpc = "idle" /\ i # None
      /\ stale' = (stale \/ Superseded(i))
      /\ Becomes(w) /\ context' = None
      /\ UNCHANGED <<created, mpc, making, todo, doubled>>
  BY <1>0 DEF Exit
<1>2. i \in Instances /\ i <= created /\ making = None /\ making # i
  BY <1>0, <1>1, LifecycleAssumption DEF Inv, TypeOK, Shape, MakingInv, None, Instances
<1>3. context = i
  BY <1>0
<1> HIDE DEF w
<1>4. stale' \in BOOLEAN /\ mpc' \in {"idle", "making", "closeAll", "forceAll"}
      /\ (~stale' => ~stale /\ ~Superseded(i))
  BY <1>1 DEF Inv, TypeOK
<1>5. CloseStep(i, w) /\ \A j \in Instances : inst'[j].held = inst[j].held
  BY <1>1, <1>2, <1>4, BecomesClosed DEF w
<1>6. TypeOK' /\ Shape' /\ RegInv' /\ MakingInv' /\ TodoInv'
  BY <1>1, <1>2, <1>4, <1>5, CloseStepKeeps DEF w
<1>7. \A h \in Instances : h # i => Direct(h)' = Direct(h)
  BY <1>1, <1>2, <1>3, <1>5 DEF Direct, One, Instances, None
<1>8. CASE inst[i].name = Hub
  <2>1. w = CloseAuxiliary(World, i, FALSE)
    BY <1>8 DEF w, Closed, World
  <2>2. Direct(i) >= 1 /\ Direct(i)' = Direct(i) - 1
    <3>1. inst[i].held \in Nat /\ inst'[i].held = inst[i].held
      BY <1>2, <1>5 DEF Inv, TypeOK
    <3> QED BY <3>1, <1>1, <1>2, <1>3 DEF Direct, One, Instances, None
  <2> QED BY <1>1, <1>2, <1>5, <1>6, <1>7, <1>8, <2>1, <2>2, HubKeepsCounts DEF Inv
<1>9. CASE inst[i].name # Hub
  <2>1. w = ClosePrimary(World, i)
    BY <1>9 DEF w, Closed, World
  <2> QED BY <1>1, <1>2, <1>5, <1>6, <1>7, <1>9, <2>1, PrimaryKeepsCounts DEF Inv
<1> QED BY <1>8, <1>9

LEMMA MakeReadyFailsKeeps ==
  ASSUME Inv, MakeReadyFails
  PROVE  Inv'
<1>0. PICK i \in Instances : i = making
  BY LifecycleAssumption DEF MakeReadyFails, Inv, MakingInv, TypeOK, Instances
<1> DEFINE w == Closed(World, i, FALSE)
<1>1. /\ mpc = "making" /\ Becomes(w) /\ mpc' = "idle" /\ making' = None
      /\ UNCHANGED <<created, todo, context, stale, doubled>>
  BY <1>0 DEF MakeReadyFails
<1>2. /\ i \in Instances /\ i <= created /\ i # None
      /\ ~stale => ~Superseded(i)
  BY <1>0, <1>1, LifecycleAssumption DEF Inv, TypeOK, MakingInv, None, Instances, Superseded
<1>3. making = i
  BY <1>0
<1> HIDE DEF w
<1>4. stale' \in BOOLEAN /\ mpc' \in {"idle", "making", "closeAll", "forceAll"}
      /\ (~stale' => ~stale /\ ~Superseded(i))
  BY <1>1, <1>2 DEF Inv, TypeOK
<1>5. CloseStep(i, w) /\ \A j \in Instances : inst'[j].held = inst[j].held
  BY <1>1, <1>2, <1>4, BecomesClosed DEF w
<1>6. TypeOK' /\ Shape' /\ RegInv' /\ MakingInv' /\ TodoInv'
  BY <1>1, <1>2, <1>4, <1>5, CloseStepKeeps DEF w
<1>7. \A h \in Instances : h # i => Direct(h)' = Direct(h)
  BY <1>1, <1>2, <1>3, <1>5 DEF Direct, One, Instances, None
<1>8. CASE inst[i].name = Hub
  <2>1. w = CloseAuxiliary(World, i, FALSE)
    BY <1>8 DEF w, Closed, World
  <2>2. Direct(i) >= 1 /\ Direct(i)' = Direct(i) - 1
    <3>1. inst[i].held \in Nat /\ inst'[i].held = inst[i].held
      BY <1>2, <1>5 DEF Inv, TypeOK
    <3> QED BY <3>1, <1>1, <1>2, <1>3 DEF Direct, One, Instances, None
  <2> QED BY <1>1, <1>2, <1>5, <1>6, <1>7, <1>8, <2>1, <2>2, HubKeepsCounts DEF Inv
<1>9. CASE inst[i].name # Hub
  <2>1. w = ClosePrimary(World, i)
    BY <1>9 DEF w, Closed, World
  <2> QED BY <1>1, <1>2, <1>5, <1>6, <1>7, <1>9, <2>1, PrimaryKeepsCounts DEF Inv
<1> QED BY <1>8, <1>9

\* One close of close_open_devices.
LEMMA OneOfAll ==
  ASSUME Inv, NEW i \in todo, NEW force \in BOOLEAN,
         Becomes(Closed(World, i, force)), mpc \in {"closeAll", "forceAll"},
         mpc = "forceAll" => force, todo' = todo \ {i},
         UNCHANGED <<mpc, created, making, context, stale, doubled>>
  PROVE  Inv'
<1> DEFINE w == Closed(World, i, force)
<1>1. /\ i \in Instances /\ i <= created /\ making = None /\ making # i
      /\ ~stale => ~Superseded(i)
  BY LifecycleAssumption DEF Inv, TypeOK, TodoInv, MakingInv, None, Instances, Superseded
<1>2. /\ Becomes(w) /\ stale' \in BOOLEAN
      /\ mpc' \in {"idle", "making", "closeAll", "forceAll"}
      /\ (~stale' => ~stale /\ ~Superseded(i))
  BY <1>1 DEF Inv, TypeOK
<1> HIDE DEF w
<1>3. CloseStep(i, w) /\ \A j \in Instances : inst'[j].held = inst[j].held
  BY <1>1, <1>2, BecomesClosed DEF w
<1>4. TypeOK' /\ Shape' /\ RegInv' /\ MakingInv' /\ TodoInv'
  BY <1>1, <1>2, <1>3, CloseStepKeeps DEF w
<1>5. \A h \in Instances : Direct(h)' = Direct(h)
  BY <1>3 DEF Direct
<1>6. LowerInv' /\ UpperInv'
  BY <1>1, <1>3, <1>4, <1>5, AllKeepsCounts DEF w, Inv
<1> QED BY <1>4, <1>6 DEF Inv

\* What is registered is an instance that was constructed under that name.
LEMMA RegisteredAre ==
  ASSUME TypeOK, Shape, NEW i \in Registered
  PROVE  /\ i \in Instances /\ i <= created /\ inst[i].state = "open"
         /\ openDevices[inst[i].name] = i
<1>1. PICK n \in Names : openDevices[n] = i /\ i # None
  BY DEF Registered
<1>2. i \in Instances /\ inst[i].state = "open" /\ inst[i].name = n
  BY <1>1, LifecycleAssumption DEF TypeOK, Shape, RegisteredIsOpen, Instances, None
<1> QED BY <1>1, <1>2, InUse

\* An open instance is registered, until one was closed after its successor came.
LEMMA OpenAreRegistered ==
  ASSUME TypeOK, RegInv, ~stale, NEW i \in Instances, inst[i].state = "open"
  PROVE  i \in Registered
<1>1. inst[i].name \in Names /\ openDevices[inst[i].name] = i /\ i # None
  BY LifecycleAssumption DEF TypeOK, RegInv, Instances, None
<1> QED BY <1>1 DEF Registered

LEMMA CloseAllKeeps ==
  ASSUME Inv, CloseAll
  PROVE  Inv'
<1>1. mpc = "closeAll" /\ UNCHANGED <<created, making, context, stale, doubled>>
  BY DEF CloseAll
<1>2. CASE todo # {}
  <2>1. PICK i \in todo : todo' = todo \ {i} /\ Becomes(Closed(World, i, FALSE)) /\ mpc' = mpc
    BY <1>2 DEF CloseAll
  <2>2. FALSE \in BOOLEAN /\ mpc \in {"closeAll", "forceAll"} /\ (mpc = "forceAll" => FALSE)
    BY <1>1
  <2>3. UNCHANGED <<mpc, created, making, context, stale, doubled>>
    BY <1>1, <2>1
  <2> QED BY <2>1, <2>2, <2>3, OneOfAll
<1>3. CASE todo = {}
  <2>1. mpc' = "forceAll" /\ todo' = Registered /\ UNCHANGED <<inst, openDevices>>
    BY <1>3 DEF CloseAll
  <2>2. TypeOK' /\ todo' \subseteq Instances
    BY <1>1, <2>1, RegisteredAre DEF Inv, TypeOK
  <2>3. TodoInv'
    BY <1>1, <2>1, RegisteredAre, OpenAreRegistered DEF Inv, TodoInv
  <2> QED BY <1>1, <2>1, <2>2, <2>3 DEF Inv, Shape, RegisteredIsOpen, MakingInv, RegInv,
             LowerInv, UpperInv, Holders, Direct, Refs
<1> QED BY <1>2, <1>3

LEMMA ForceAllKeeps ==
  ASSUME Inv, ForceAll
  PROVE  Inv'
<1>1. mpc = "forceAll" /\ UNCHANGED <<created, making, context, stale, doubled>>
  BY DEF ForceAll
<1>2. CASE todo # {}
  <2>1. PICK i \in todo : todo' = todo \ {i} /\ Becomes(Closed(World, i, TRUE)) /\ mpc' = mpc
    BY <1>2 DEF ForceAll
  <2>2. TRUE \in BOOLEAN /\ mpc \in {"closeAll", "forceAll"} /\ (mpc = "forceAll" => TRUE)
    BY <1>1
  <2>3. UNCHANGED <<mpc, created, making, context, stale, doubled>>
    BY <1>1, <2>1
  <2> QED BY <2>1, <2>2, <2>3, OneOfAll
<1>3. CASE todo = {}
  <2>1. mpc' = "idle" /\ UNCHANGED <<todo, inst, openDevices>>
    BY <1>3 DEF ForceAll
  <2>2. ASSUME ~stale PROVE \A j \in Instances : inst[j].state # "open"
    BY <1>1, <1>3, <2>2 DEF Inv, TodoInv
  <2>3. ASSUME ~stale PROVE \A h \in Instances : Refs(h) = {}
    <3>1. \A h \in Instances : h # None
      BY DEF Instances, None
    <3> QED BY <2>2, <2>3, <3>1 DEF Inv, Shape, Refs, RefsIn
  <2>4. LowerInv'
    BY <1>1, <2>1, <2>2, <2>3 DEF LowerInv, Refs
  <2>5. TypeOK' /\ Shape' /\ MakingInv' /\ TodoInv' /\ RegInv' /\ UpperInv'
    BY <1>1, <1>3, <2>1 DEF Inv, TypeOK, Shape, RegisteredIsOpen, MakingInv, TodoInv, RegInv,
       UpperInv, Holders, Direct, Refs
  <2> QED BY <2>4, <2>5 DEF Inv
<1> QED BY <1>2, <1>3

LEMMA CloseOpenDevicesKeeps ==
  ASSUME Inv, CloseOpenDevices
  PROVE  Inv'
<1>1. /\ mpc = "idle" /\ mpc' = "closeAll" /\ todo' = Registered
      /\ UNCHANGED <<created, inst, openDevices, making, context, stale, doubled>>
  BY DEF CloseOpenDevices
<1>2. TypeOK'
  BY <1>1, RegisteredAre DEF Inv, TypeOK
<1>3. TodoInv'
  BY <1>1, RegisteredAre DEF Inv, TodoInv
<1> QED BY <1>1, <1>2, <1>3 DEF Inv, Shape, RegisteredIsOpen, MakingInv, RegInv,
           LowerInv, UpperInv, Holders, Direct, Refs

-----------------------------------------------------------------------------
(* The actions that create a device.                                       *)

\* The next instance is not in use anywhere.
LEMMA NextInstance ==
  ASSUME TypeOK, Shape, created < MaxInstances, NEW k, k = created + 1
  PROVE  /\ k \in Instances /\ k # None /\ k \in 0..MaxInstances /\ inst[k] = Blank
         /\ context # k
         /\ \A j \in Instances, c \in Caps : inst[j].hub[c] # k
<1>1. created \in Nat /\ MaxInstances \in Nat
  BY LifecycleAssumption DEF TypeOK
<1>2. /\ k \in Instances /\ k # None /\ k \in 0..MaxInstances /\ inst[k] = Blank
      /\ context # k
  BY <1>1 DEF Shape, Instances, None, TypeOK
<1>3. ASSUME NEW j \in Instances, NEW c \in Caps PROVE inst[j].hub[c] # k
  <2>1. inst[j].hub[c] # None => inst[j].hub[c] <= created
    BY DEF Shape
  <2>2. inst[j].hub[c] \in 0..MaxInstances
    BY DEF TypeOK
  <2> QED BY <1>1, <1>2, <2>1, <2>2
<1> QED BY <1>2, <1>3

\* The record of a new device.
LEMMA NewRecord ==
  ASSUME NEW n \in Names
  PROVE  /\ Blank \in Device /\ Constructed(n) \in Device
         /\ Blank.name = Hub /\ Blank.state = "none" /\ Blank.users = 0 /\ Blank.held = 0
         /\ Blank.hub = [c \in Caps |-> None] /\ Blank.checks = [c \in Caps |-> 0]
         /\ Constructed(n).name = n /\ Constructed(n).state = "open"
         /\ Constructed(n).users = 1 /\ Constructed(n).held = 0
         /\ Constructed(n).hub = [c \in Caps |-> None]
         /\ Constructed(n).checks = [c \in Caps |-> 0]
         /\ [Constructed(n) EXCEPT !.users = 0, !.state = "closed"] \in Device
<1>1. /\ [c \in Caps |-> None] \in [Caps -> 0..MaxInstances]
      /\ [c \in Caps |-> 0] \in [Caps -> Nat] /\ Hub \in Names
  BY LifecycleAssumption DEF None, Names
<1>2. /\ Blank \in Device
      /\ Blank.name = Hub /\ Blank.state = "none" /\ Blank.users = 0 /\ Blank.held = 0
      /\ Blank.hub = [c \in Caps |-> None] /\ Blank.checks = [c \in Caps |-> 0]
  BY <1>1 DEF Blank, Device
<1> QED BY <1>1, <1>2 DEF Constructed, Device

\* A device is constructed and registered, and has its one user.
NewStep(n) ==
  /\ mpc = "idle" /\ openDevices[n] = None /\ created < MaxInstances
  /\ created' = created + 1
  /\ inst' = [inst EXCEPT ![created + 1] = Constructed(n)]
  /\ openDevices' = [openDevices EXCEPT ![n] = created + 1]
  /\ UNCHANGED <<todo, stale, doubled>>
  /\ \/ mpc' = "making" /\ making' = created + 1 /\ context' = context
     \/ mpc' = "idle" /\ making' = making /\ context = None /\ context' = created + 1

LEMMA NewKeeps ==
  ASSUME Inv, NEW n \in Names, NewStep(n)
  PROVE  Inv'
<1>1. PICK k : k = created + 1
  OBVIOUS
<1>2. /\ mpc = "idle" /\ openDevices[n] = None /\ created < MaxInstances
      /\ created' = k /\ inst' = [inst EXCEPT ![k] = Constructed(n)]
      /\ openDevices' = [openDevices EXCEPT ![n] = k]
      /\ UNCHANGED <<todo, stale, doubled>>
      /\ \/ mpc' = "making" /\ making' = k /\ context' = context
         \/ mpc' = "idle" /\ making' = making /\ context = None /\ context' = k
  BY <1>1 DEF NewStep
<1>3. /\ k \in Instances /\ k # None /\ k \in 0..MaxInstances /\ inst[k] = Blank
      /\ context # k /\ \A j \in Instances, c \in Caps : inst[j].hub[c] # k
  BY <1>1, <1>2, NextInstance DEF Inv
<1>4. /\ Constructed(n) \in Device
      /\ Constructed(n).name = n /\ Constructed(n).state = "open"
      /\ Constructed(n).users = 1 /\ Constructed(n).held = 0
      /\ \A c \in Caps : Constructed(n).hub[c] = None
      /\ \A c \in Caps : Blank.hub[c] = None
      /\ Blank.state = "none"
  <2>1. /\ Constructed(n) \in Device
        /\ Constructed(n).name = n /\ Constructed(n).state = "open"
        /\ Constructed(n).users = 1 /\ Constructed(n).held = 0
        /\ Constructed(n).hub = [c \in Caps |-> None]
        /\ Blank.hub = [c \in Caps |-> None] /\ Blank.state = "none"
    BY NewRecord, Zenon
  <2> QED BY <2>1
<1>5. /\ inst \in [Instances -> Device] /\ openDevices \in [Names -> 0..MaxInstances]
      /\ created \in Nat /\ MaxInstances \in Nat /\ None = 0 /\ k = created + 1
      /\ making = None /\ todo = {} /\ context \in Nat
  BY <1>1, <1>2, LifecycleAssumption DEF Inv, TypeOK, Device, None, MakingInv, TodoInv
<1>6. /\ inst' \in [Instances -> Device] /\ openDevices' \in [Names -> 0..MaxInstances]
      /\ inst'[k] = Constructed(n) /\ \A j \in Instances : j # k => inst'[j] = inst[j]
      /\ openDevices'[n] = k /\ \A m \in Names : m # n => openDevices'[m] = openDevices[m]
  BY <1>2, <1>3, <1>4, <1>5
<1>7. TypeOK'
  BY <1>2, <1>3, <1>5, <1>6 DEF Inv, TypeOK, Device
<1>8. \A j \in Instances, c \in Caps : inst'[j].hub[c] = inst[j].hub[c]
  BY <1>3, <1>4, <1>6
<1>9. \A h : Refs(h)' = Refs(h)
  BY <1>8, RefsKept DEF Refs
<1>10. Shape'
  <2>1. \A j \in Instances : j > created' => inst'[j] = Blank
    BY <1>2, <1>5, <1>6 DEF Inv, Shape, Instances
  <2>2. ASSUME NEW j \in Instances, NEW c \in Caps, inst'[j].hub[c] # None
        PROVE  /\ inst'[j].state = "open" /\ inst'[j].name # Hub
               /\ inst'[j].hub[c] <= created' /\ inst'[inst'[j].hub[c]].name = Hub
    <3>1. j # k /\ inst[j].hub[c] # None
      BY <2>2, <1>3, <1>4, <1>6
    <3>2. /\ inst[j].state = "open" /\ inst[j].name # Hub /\ inst[j].hub[c] # k
          /\ inst[j].hub[c] <= created /\ inst[inst[j].hub[c]].name = Hub
          /\ inst[j].hub[c] \in Instances
      <4>1. inst[j].hub[c] \in 0..MaxInstances
        BY <1>5 DEF Device
      <4> QED BY <3>1, <4>1, <1>3, <1>5 DEF Inv, Shape, Instances
    <3>3. PICK x : x = inst[j].hub[c]
      OBVIOUS
    <3>4. inst'[j] = inst[j] /\ inst'[j].hub[c] = x /\ inst'[x] = inst[x] /\ x <= created'
      BY <3>1, <3>2, <3>3, <1>2, <1>5, <1>6 DEF Inv, TypeOK
    <3> QED BY <3>2, <3>3, <3>4
  <2>3. \A j \in Instances : inst'[j].name = Hub =>
                               (inst'[j].state = "open" <=> inst'[j].users >= 1)
    BY <1>4, <1>6 DEF Inv, Shape
  <2>4. ASSUME NEW m \in Names, openDevices'[m] # None
        PROVE  inst'[openDevices'[m]].state = "open" /\ inst'[openDevices'[m]].name = m
    <3>1. CASE m = n
      BY <3>1, <1>4, <1>6
    <3>2. CASE m # n
      <4>1. /\ openDevices[m] \in Instances /\ openDevices'[m] = openDevices[m]
            /\ inst[openDevices[m]].state = "open" /\ inst[openDevices[m]].name = m
        BY <3>2, <2>4, <1>5, <1>6 DEF Inv, Shape, RegisteredIsOpen, Instances
      <4> QED BY <4>1, <1>3, <1>4, <1>6
    <3> QED BY <3>1, <3>2
  <2>5. context' <= created'
    BY <1>2, <1>5 DEF Inv, Shape
  <2> QED BY <2>1, <2>2, <2>3, <2>4, <2>5 DEF Shape, RegisteredIsOpen
<1>11. MakingInv'
  BY <1>2, <1>3, <1>4, <1>5, <1>6, <1>8 DEF MakingInv, Instances
<1>12. TodoInv'
  BY <1>2, <1>5 DEF TodoInv
<1>13. ASSUME ~stale', NEW j \in Instances, inst'[j].state = "open"
       PROVE  openDevices'[inst'[j].name] = j
  <2>1. CASE j = k
    BY <2>1, <1>4, <1>6
  <2>2. CASE j # k
    <3>1. inst'[j] = inst[j] /\ inst[j].name \in Names
      BY <2>2, <1>5, <1>6 DEF Device
    <3>2. openDevices[inst[j].name] = j /\ j # None
      BY <3>1, <1>2, <1>5, <1>13 DEF Inv, RegInv, Instances
    <3> QED BY <3>1, <3>2, <1>2, <1>6
  <2> QED BY <2>1, <2>2
<1>14. /\ Refs(k) = {} /\ Cardinality(Refs(k)) = 0 /\ Direct(k)' = 1
       /\ \A h \in Instances : h # k => Direct(h)' = Direct(h)
  <2>1. Refs(k) = {}
    BY <1>3 DEF Refs, RefsIn
  <2>2. Direct(k)' = 1
    BY <1>2, <1>3, <1>4, <1>5, <1>6 DEF Direct, One
  <2>3. ASSUME NEW h \in Instances, h # k PROVE Direct(h)' = Direct(h)
    BY <2>3, <1>2, <1>5, <1>6 DEF Direct, One, Instances
  <2> QED BY <2>1, <2>2, <2>3, FS_EmptySet
<1>15. ASSUME NEW h \in Instances
       PROVE  IF h = k THEN inst'[h].users = 1 /\ Holders(h)' = 1 /\ inst'[h].state = "open"
                       ELSE inst'[h] = inst[h] /\ Holders(h)' = Holders(h)
  <2>1. CASE h = k
    <3>1. Holders(k)' = Direct(k)' + Cardinality(Refs(k)')
      BY DEF Holders
    <3>2. Holders(k)' = 1
      BY <3>1, <1>9, <1>14
    <3> QED BY <2>1, <3>2, <1>4, <1>6
  <2>2. CASE h # k
    <3>1. Direct(h)' = Direct(h) /\ Refs(h)' = Refs(h)
      BY <2>2, <1>9, <1>14
    <3> QED BY <2>2, <3>1, <1>6 DEF Holders
  <2> QED BY <2>1, <2>2
<1>16. LowerInv' /\ UpperInv'
  BY <1>2, <1>9, <1>15 DEF Inv, LowerInv, UpperInv
<1> QED BY <1>7, <1>10, <1>11, <1>12, <1>13, <1>16 DEF Inv, RegInv

LEMMA CreateNewKeeps ==
  ASSUME Inv, NEW n \in Names, CreateNew(n) \/ EnterNew(n)
  PROVE  Inv'
<1>1. NewStep(n)
  BY DEF CreateNew, EnterNew, NewStep
<1> QED BY <1>1, NewKeeps

-----------------------------------------------------------------------------
(* Health checks.                                                          *)

\* A step that leaves the calls alone keeps the type of the rest.
LEMMA TypeKept ==
  ASSUME TypeOK, inst' \in [Instances -> Device], openDevices' \in [Names -> 0..MaxInstances],
         created' \in 0..MaxInstances, doubled' \in BOOLEAN,
         UNCHANGED <<mpc, making, todo, context, stale>>
  PROVE  TypeOK'
BY DEF TypeOK, Device

\* The record of a device whose capability c has taken hub h in a check.
Checked(i, c, h) == [inst[i] EXCEPT !.hub[c] = h, !.checks[c] = @ + 1]

\* A device that runs a health check is open, no hub, and the one being made
\* ready if there is one; r is its record with hub h taken, and nothing else of it changed.
IsChecked(i, c, h, r) ==
  /\ inst[i].state = "open" /\ inst[i].name # Hub
  /\ mpc = "idle" \/ (mpc = "making" /\ making = i)
  /\ i <= created
  /\ r \in Device
  /\ r.name = inst[i].name /\ r.state = inst[i].state /\ r.users = inst[i].users
  /\ r.held = inst[i].held /\ r.ref = inst[i].ref
  /\ r.hub = [inst[i].hub EXCEPT ![c] = h] /\ r.hub[c] = h
  /\ \A d \in Caps : d # c => r.hub[d] = inst[i].hub[d]

\* That is what the record of a device that may check becomes.
LEMMA Checking ==
  ASSUME Inv, NEW i \in Instances, NEW c \in Caps, CanCheck(i, c),
         NEW h \in 0..MaxInstances, NEW r, r = Checked(i, c, h)
  PROVE  IsChecked(i, c, h, r)
<1>1. /\ inst[i].state = "open" /\ inst[i].name # Hub
      /\ mpc = "idle" \/ (mpc = "making" /\ making = i)
  BY DEF CanCheck
<1>2. inst[i] \in Device
  BY DEF Inv, TypeOK, Device
<1>3. /\ inst[i].hub \in [Caps -> 0..MaxInstances] /\ inst[i].checks \in [Caps -> Nat]
  BY <1>2 DEF Device
<1>4. /\ [inst[i].hub EXCEPT ![c] = h] \in [Caps -> 0..MaxInstances]
      /\ [inst[i].checks EXCEPT ![c] = @ + 1] \in [Caps -> Nat]
      /\ [inst[i].hub EXCEPT ![c] = h][c] = h
      /\ \A d \in Caps : d # c => [inst[i].hub EXCEPT ![c] = h][d] = inst[i].hub[d]
  BY <1>3
<1>5. i <= created
  BY <1>1, InUse DEF Inv
<1> QED BY <1>1, <1>2, <1>4, <1>5 DEF Device, Checked, IsChecked

LEMMA HealthCheckNewHubKeeps ==
  ASSUME Inv, NEW i \in Instances, NEW c \in Caps, HealthCheckNewHub(i, c)
  PROVE  Inv'
<1>1. PICK k, r : k = created + 1 /\ r = Checked(i, c, k)
  OBVIOUS
<1>2. /\ CanCheck(i, c) /\ openDevices[Hub] = None /\ created < MaxInstances
      /\ created' = k /\ doubled' = (doubled \/ inst[i].hub[c] # None)
      /\ openDevices' = [openDevices EXCEPT ![Hub] = k]
      /\ UNCHANGED <<mpc, making, todo, context, stale>>
  BY <1>1 DEF HealthCheckNewHub
<1>3. /\ k \in Instances /\ k # None /\ k \in 0..MaxInstances /\ inst[k] = Blank
      /\ context # k /\ \A j \in Instances, d \in Caps : inst[j].hub[d] # k
  BY <1>1, <1>2, NextInstance DEF Inv
<1>4. /\ inst[i].state = "open" /\ inst[i].name # Hub
      /\ mpc = "idle" \/ (mpc = "making" /\ making = i)
      /\ i <= created
      /\ r \in Device
      /\ r.name = inst[i].name /\ r.state = inst[i].state /\ r.users = inst[i].users
      /\ r.held = inst[i].held /\ r.hub[c] = k
      /\ \A d \in Caps : d # c => r.hub[d] = inst[i].hub[d]
  <2>1. IsChecked(i, c, k, r)
    BY <1>1, <1>2, <1>3, Checking
  <2> QED BY <2>1 DEF IsChecked
<1>5. /\ Constructed(Hub) \in Device
      /\ Constructed(Hub).name = Hub /\ Constructed(Hub).state = "open"
      /\ Constructed(Hub).users = 1 /\ Constructed(Hub).held = 0
      /\ \A d \in Caps : Constructed(Hub).hub[d] = None
      /\ \A d \in Caps : Blank.hub[d] = None
      /\ Blank.state = "none"
  <2>1. /\ Constructed(Hub) \in Device
        /\ Constructed(Hub).name = Hub /\ Constructed(Hub).state = "open"
        /\ Constructed(Hub).users = 1 /\ Constructed(Hub).held = 0
        /\ Constructed(Hub).hub = [d \in Caps |-> None]
        /\ Blank.hub = [d \in Caps |-> None] /\ Blank.state = "none"
    <3>1. Hub \in Names
      BY DEF Names
    <3> QED BY <3>1, NewRecord, Zenon
  <2> QED BY <2>1
<1>6. /\ inst \in [Instances -> Device] /\ openDevices \in [Names -> 0..MaxInstances]
      /\ created \in Nat /\ MaxInstances \in Nat /\ None = 0 /\ k = created + 1
      /\ making \in Nat /\ context \in Nat /\ todo = {} /\ Hub \in Names
      /\ i # k /\ making # k
  <2>1. making # k
    BY <1>1, <1>3, <1>4, LifecycleAssumption DEF Inv, MakingInv, TypeOK
  <2> QED BY <2>1, <1>1, <1>3, <1>4, <1>5, LifecycleAssumption
      DEF Inv, TypeOK, Device, None, TodoInv, Names
<1>7. /\ inst' \in [Instances -> Device] /\ openDevices' \in [Names -> 0..MaxInstances]
      /\ inst'[k] = Constructed(Hub) /\ inst'[i] = r
      /\ \A j \in Instances : j # k /\ j # i => inst'[j] = inst[j]
      /\ openDevices'[Hub] = k /\ \A m \in Names : m # Hub => openDevices'[m] = openDevices[m]
  <2>1. inst' = [[inst EXCEPT ![k] = Constructed(Hub)] EXCEPT ![i] = r]
    BY <1>1, <1>3, <1>6 DEF HealthCheckNewHub, Checked
  <2> QED BY <2>1, <1>2, <1>3, <1>4, <1>5, <1>6
<1>8. TypeOK'
  <2>1. created' \in 0..MaxInstances
    BY <1>2, <1>3
  <2>2. doubled' \in BOOLEAN
    BY <1>2 DEF Inv, TypeOK
  <2> QED BY <2>1, <2>2, <1>2, <1>7, TypeKept DEF Inv
<1>9. /\ inst'[i].hub[c] = k
      /\ \A j \in Instances, d \in Caps : <<j, d>> # <<i, c>> => inst'[j].hub[d] = inst[j].hub[d]
  BY <1>3, <1>4, <1>5, <1>7
<1>10. Shape'
  <2>1. \A j \in Instances : j > created' => inst'[j] = Blank
    BY <1>2, <1>4, <1>6, <1>7 DEF Inv, Shape, Instances
  <2>2. ASSUME NEW j \in Instances, NEW d \in Caps, inst'[j].hub[d] # None
        PROVE  /\ inst'[j].state = "open" /\ inst'[j].name # Hub
               /\ inst'[j].hub[d] <= created' /\ inst'[inst'[j].hub[d]].name = Hub
    <3>1. CASE <<j, d>> = <<i, c>>
      BY <3>1, <1>2, <1>4, <1>5, <1>6, <1>7, <1>9
    <3>2. CASE <<j, d>> # <<i, c>>
      <4>1. PICK x : x = inst[j].hub[d]
        OBVIOUS
      <4>2. /\ inst'[j].hub[d] = x /\ x # None /\ x # k /\ x \in Instances
            /\ inst[j].state = "open" /\ inst[j].name # Hub /\ x <= created
            /\ inst[x].name = Hub
        <5>1. inst[j].hub[d] \in 0..MaxInstances
          BY <1>6 DEF Device
        <5> QED BY <5>1, <4>1, <3>2, <2>2, <1>3, <1>6, <1>9 DEF Inv, Shape, Instances
      <4>3. inst'[j].state = inst[j].state /\ inst'[j].name = inst[j].name
        BY <4>2, <1>3, <1>4, <1>5, <1>7
      <4>4. x # i /\ inst'[x] = inst[x]
        BY <4>2, <1>4, <1>7
      <4>5. x <= created'
        BY <4>2, <1>2, <1>6 DEF Instances
      <4> QED BY <4>2, <4>3, <4>4, <4>5
    <3> QED BY <3>1, <3>2
  <2>3. \A j \in Instances : inst'[j].name = Hub =>
                               (inst'[j].state = "open" <=> inst'[j].users >= 1)
    BY <1>4, <1>5, <1>7 DEF Inv, Shape
  <2>4. ASSUME NEW m \in Names, openDevices'[m] # None
        PROVE  inst'[openDevices'[m]].state = "open" /\ inst'[openDevices'[m]].name = m
    <3>1. CASE m = Hub
      BY <3>1, <1>5, <1>7
    <3>2. CASE m # Hub
      <4>1. /\ openDevices[m] \in Instances /\ openDevices'[m] = openDevices[m]
            /\ inst[openDevices[m]].state = "open" /\ inst[openDevices[m]].name = m
        BY <3>2, <2>4, <1>6, <1>7 DEF Inv, Shape, RegisteredIsOpen, Instances
      <4> QED BY <4>1, <1>3, <1>4, <1>5, <1>7
    <3> QED BY <3>1, <3>2
  <2>5. context' <= created'
    BY <1>2, <1>6 DEF Inv, Shape
  <2> QED BY <2>1, <2>2, <2>3, <2>4, <2>5 DEF Shape, RegisteredIsOpen
<1>11. MakingInv'
  <2>1. CASE mpc = "idle"
    BY <2>1, <1>2 DEF Inv, MakingInv
  <2>2. CASE mpc = "making" /\ making = i
    <3>1. /\ making' = i /\ i \in 1..created' /\ inst'[i].held = 0
          /\ inst'[i].name = inst[i].name /\ inst[i].name \in Names
      <4>1. inst[i].held = 0 /\ i \in 1..created /\ inst[i].name \in Names
        BY <2>2, <1>6 DEF Inv, MakingInv, Device
      <4>2. i \in 1..created'
        BY <4>1, <1>2, <1>6
      <4> QED BY <2>2, <4>1, <4>2, <1>2, <1>4, <1>7
    <3>2. \A j \in Instances, d \in Caps : inst'[j].hub[d] # i
      <4>1. \A j \in Instances, d \in Caps : inst[j].hub[d] # i
        BY <2>2 DEF Inv, MakingInv
      <4> QED BY <4>1, <1>6, <1>9
    <3>3. ~stale' => openDevices'[inst[i].name] = i
      BY <2>2, <3>1, <1>2, <1>4, <1>7 DEF Inv, MakingInv
    <3> QED BY <2>2, <3>1, <3>2, <3>3, <1>2 DEF MakingInv
  <2> QED BY <2>1, <2>2, <1>4
<1>12. TodoInv'
  BY <1>2, <1>4, <1>6 DEF TodoInv
<1>13. ASSUME ~stale', NEW j \in Instances, inst'[j].state = "open"
       PROVE  openDevices'[inst'[j].name] = j
  <2>1. CASE j = k
    BY <2>1, <1>5, <1>7
  <2>2. CASE j # k
    <3>1. /\ inst'[j].state = inst[j].state /\ inst'[j].name = inst[j].name
          /\ inst[j].name \in Names
      BY <2>2, <1>4, <1>6, <1>7 DEF Device
    <3>2. ~stale /\ inst[j].state = "open" /\ j # None
      BY <3>1, <1>2, <1>13 DEF Instances, None
    <3>3. openDevices[inst[j].name] = j
      BY <3>2 DEF Inv, RegInv
    <3> QED BY <3>1, <3>2, <3>3, <1>2, <1>7
  <2> QED BY <2>1, <2>2
<1>14. Takes(inst, inst', i, c, k)
  BY <1>9 DEF Takes
<1>15. Refs(k) = {} /\ Cardinality(Refs(k)) = 0 /\ Cardinality(Refs(k)') = 1
  <2>1. RefsIn(inst, k) = {} /\ inst[i].hub[c] # k
    BY <1>3 DEF RefsIn
  <2>2. Cardinality(RefsIn(inst', k)) = Cardinality(RefsIn(inst, k))
          + (IF inst[i].hub[c] = k THEN 0 ELSE 1)
    BY <1>14, RefsTaken
  <2>3. Cardinality(RefsIn(inst, k)) = 0
    BY <2>1, FS_EmptySet
  <2> QED BY <2>1, <2>2, <2>3 DEF Refs
<1>16. ASSUME NEW h \in Instances, h # k
       PROVE  /\ Refs(h)' \subseteq Refs(h)
              /\ ~doubled' => Cardinality(Refs(h)') = Cardinality(Refs(h))
  <2>1. /\ RefsIn(inst', h) \subseteq RefsIn(inst, h)
        /\ Cardinality(RefsIn(inst, h)) =
             Cardinality(RefsIn(inst', h))
             + (IF inst[i].hub[c] = h THEN 1 ELSE 0)
    BY <1>14, <1>16, RefsLost
  <2>2. ~doubled' => inst[i].hub[c] # h
    <3>1. h # None
      BY DEF Instances, None
    <3> QED BY <3>1, <1>2, Zenon
  <2>3. Cardinality(RefsIn(inst', h)) \in Nat
    BY RefsFinite
  <2> QED BY <2>1, <2>2, <2>3 DEF Refs
<1>17. /\ Direct(k)' = 0 /\ Holders(k)' = 1
       /\ \A h \in Instances : h # k => Direct(h)' = Direct(h)
  <2>1. Direct(k)' = 0
    BY <1>2, <1>3, <1>5, <1>6, <1>7 DEF Direct, One
  <2>2. \A h \in Instances : h # k => inst'[h].held = inst[h].held
    BY <1>4, <1>7
  <2> QED BY <2>1, <2>2, <1>2, <1>15 DEF Direct, Holders
<1>18. LowerInv'
  <2>1. ASSUME ~stale', mpc' \in {"idle", "making"}, NEW h \in Instances, inst'[h].name = Hub
        PROVE  /\ inst'[h].state = "open" => inst'[h].users >= Holders(h)'
               /\ inst'[h].state # "open" => Refs(h)' = {}
    <3>1. CASE h = k
      BY <3>1, <1>5, <1>7, <1>17
    <3>2. CASE h # k
      <4>1. inst'[h] = inst[h] /\ h # i /\ inst[h].name \in Names
        BY <3>2, <2>1, <1>4, <1>6, <1>7
      <4>2. ~stale
        BY <2>1, <1>2
      <4>3. inst[h].state # "open"
        BY <4>1, <4>2, <2>1, <1>2, <1>6 DEF Inv, RegInv, Instances
      <4>4. Refs(h) = {}
        BY <4>1, <4>2, <4>3, <2>1, <1>4 DEF Inv, LowerInv
      <4> QED BY <3>2, <4>1, <4>3, <4>4, <1>16
    <3> QED BY <3>1, <3>2
  <2> QED BY <2>1 DEF LowerInv
<1>19. UpperInv'
  <2>1. ASSUME ~doubled', NEW h \in Instances, inst'[h].name = Hub, inst'[h].state = "open"
        PROVE  inst'[h].users <= Holders(h)'
    <3>1. CASE h = k
      BY <3>1, <1>5, <1>7, <1>17
    <3>2. CASE h # k
      <4>1. inst'[h] = inst[h] /\ ~doubled
        BY <3>2, <2>1, <1>2, <1>4, <1>7
      <4>2. Holders(h)' = Holders(h)
        BY <3>2, <2>1, <1>16, <1>17 DEF Holders
      <4> QED BY <2>1, <4>1, <4>2 DEF Inv, UpperInv
    <3> QED BY <3>1, <3>2
  <2> QED BY <2>1 DEF UpperInv
<1> QED BY <1>8, <1>10, <1>11, <1>12, <1>13, <1>18, <1>19 DEF Inv, RegInv

LEMMA HealthCheckOpenHubKeeps ==
  ASSUME Inv, NEW i \in Instances, NEW c \in Caps, HealthCheckOpenHub(i, c)
  PROVE  Inv'
<1>1. PICK k, r : k = openDevices[Hub] /\ r = Checked(i, c, k)
  OBVIOUS
<1>2. /\ CanCheck(i, c) /\ k # None /\ doubled' = (doubled \/ inst[i].hub[c] # None)
      /\ UNCHANGED <<created, mpc, making, todo, context, stale>>
  BY <1>1 DEF HealthCheckOpenHub
<1>3. /\ inst \in [Instances -> Device] /\ openDevices \in [Names -> 0..MaxInstances]
      /\ created \in Nat /\ MaxInstances \in Nat /\ None = 0 /\ Hub \in Names
  BY LifecycleAssumption DEF Inv, TypeOK, Device, None, Names
<1>4. /\ k \in Instances /\ k \in 0..MaxInstances /\ inst[k].state = "open"
      /\ inst[k].name = Hub /\ k <= created
  <2>1. k \in Instances /\ k \in 0..MaxInstances
    BY <1>1, <1>2, <1>3 DEF Instances
  <2>2. inst[k].state = "open" /\ inst[k].name = Hub
    BY <1>1, <1>2, <1>3 DEF Inv, Shape, RegisteredIsOpen
  <2> QED BY <2>1, <2>2, InUse DEF Inv
<1>5. /\ inst[i].state = "open" /\ inst[i].name # Hub
      /\ mpc = "idle" \/ (mpc = "making" /\ making = i)
      /\ i <= created /\ i # k
      /\ r \in Device
      /\ r.name = inst[i].name /\ r.state = inst[i].state /\ r.users = inst[i].users
      /\ r.held = inst[i].held /\ r.hub[c] = k
      /\ \A d \in Caps : d # c => r.hub[d] = inst[i].hub[d]
  <2>1. IsChecked(i, c, k, r)
    BY <1>1, <1>2, <1>4, Checking
  <2>2. i # k
    BY <2>1, <1>4 DEF IsChecked
  <2> QED BY <2>1, <2>2 DEF IsChecked
<1>6. PICK q : q = [inst[k] EXCEPT !.users = @ + 1]
  OBVIOUS
<1>7. /\ q \in Device /\ q.name = Hub /\ q.state = "open" /\ q.users = inst[k].users + 1
      /\ q.held = inst[k].held /\ q.hub = inst[k].hub /\ inst[k].users \in Nat
  BY <1>3, <1>4, <1>6 DEF Device
<1>8. /\ inst' \in [Instances -> Device] /\ openDevices' = openDevices
      /\ inst'[k] = q /\ inst'[i] = r
      /\ \A j \in Instances : j # k /\ j # i => inst'[j] = inst[j]
  <2>1. /\ inst' = [[inst EXCEPT ![k] = q] EXCEPT ![i] = r]
        /\ openDevices' = openDevices
    <3>1. /\ inst' = [[[inst EXCEPT ![k].users = @ + 1] EXCEPT ![i].hub[c] = k]
                        EXCEPT ![i].checks[c] = @ + 1]
          /\ openDevices' = openDevices
      BY <1>1 DEF HealthCheckOpenHub, Claim, World, Becomes
    <3>2. [inst EXCEPT ![k].users = @ + 1] = [inst EXCEPT ![k] = q]
      BY <1>3, <1>4, <1>6
    <3>a. PICK f : f = [inst EXCEPT ![k] = q]
      OBVIOUS
    <3>3. DOMAIN f = Instances /\ f[i] = inst[i]
      BY <3>a, <1>3, <1>4, <1>5
    <3>4. PICK b : b = [inst[i] EXCEPT !.hub[c] = k]
      OBVIOUS
    <3>5. [f EXCEPT ![i].hub[c] = k] = [f EXCEPT ![i] = b]
      BY <3>3, <3>4
    <3>6. r = [b EXCEPT !.checks[c] = @ + 1]
      <4>1. inst[i] \in Device
        BY <1>3
      <4> QED BY <4>1, <3>4, <1>1 DEF Checked, Device
    <3>7. [[f EXCEPT ![i] = b] EXCEPT ![i].checks[c] = @ + 1] = [f EXCEPT ![i] = r]
      BY <3>3, <3>6
    <3> QED BY <3>1, <3>2, <3>a, <3>5, <3>7
  <2> QED BY <2>1, <1>3, <1>4, <1>5, <1>7
<1>9. TypeOK'
  BY <1>2, <1>3, <1>8 DEF Inv, TypeOK, Device
<1>10. ASSUME NEW j \in Instances
       PROVE  /\ inst'[j].name = inst[j].name /\ inst'[j].state = inst[j].state
              /\ inst'[j].held = inst[j].held
              /\ inst'[j].users = IF j = k THEN inst[j].users + 1 ELSE inst[j].users
              /\ \A d \in Caps : inst'[j].hub[d] = IF <<j, d>> = <<i, c>> THEN k
                                                   ELSE inst[j].hub[d]
  BY <1>4, <1>5, <1>7, <1>8
<1>11. Shape'
  <2>1. \A j \in Instances : j > created' => inst'[j] = Blank
    BY <1>2, <1>3, <1>4, <1>5, <1>8, SMTT(40) DEF Inv, Shape, Instances
  <2>2. ASSUME NEW j \in Instances, NEW d \in Caps, inst'[j].hub[d] # None
        PROVE  /\ inst'[j].state = "open" /\ inst'[j].name # Hub
               /\ inst'[j].hub[d] <= created' /\ inst'[inst'[j].hub[d]].name = Hub
    <3>1. CASE <<j, d>> = <<i, c>>
      BY <3>1, <1>2, <1>4, <1>5, <1>10
    <3>2. CASE <<j, d>> # <<i, c>>
      <4>1. PICK x : x = inst[j].hub[d]
        OBVIOUS
      <4>2. inst'[j].hub[d] = x /\ x # None /\ x \in Instances
        <5>1. inst[j].hub[d] \in 0..MaxInstances
          BY <1>3 DEF Device
        <5> QED BY <5>1, <4>1, <3>2, <2>2, <1>3, <1>10 DEF Instances
      <4>3. inst[j].state = "open" /\ inst[j].name # Hub /\ x <= created /\ inst[x].name = Hub
        BY <4>1, <4>2 DEF Inv, Shape
      <4> QED BY <4>2, <4>3, <1>2, <1>10
    <3> QED BY <3>1, <3>2
  <2>3. \A j \in Instances : inst'[j].name = Hub =>
                               (inst'[j].state = "open" <=> inst'[j].users >= 1)
    BY <1>4, <1>7, <1>10 DEF Inv, Shape
  <2>4. ASSUME NEW m \in Names, openDevices'[m] # None
        PROVE  inst'[openDevices'[m]].state = "open" /\ inst'[openDevices'[m]].name = m
    <3>1. /\ openDevices[m] \in Instances
          /\ inst[openDevices[m]].state = "open" /\ inst[openDevices[m]].name = m
      BY <2>4, <1>3, <1>8 DEF Inv, Shape, RegisteredIsOpen, Instances
    <3> QED BY <3>1, <1>8, <1>10
  <2> QED BY <2>1, <2>2, <2>3, <2>4, <1>2 DEF Inv, Shape, RegisteredIsOpen
<1>12. MakingInv'
  <2>1. CASE mpc = "idle"
    BY <2>1, <1>2 DEF Inv, MakingInv
  <2>2. CASE mpc = "making" /\ making = i
    <3>1. /\ making \in 1..created /\ inst[i].held = 0
          /\ \A j \in Instances, d \in Caps : inst[j].hub[d] # i
          /\ ~stale => openDevices[inst[i].name] = i
      BY <2>2 DEF Inv, MakingInv
    <3>2. \A j \in Instances, d \in Caps : inst'[j].hub[d] # i
      BY <3>1, <1>5, <1>10
    <3> QED BY <2>2, <3>1, <3>2, <1>2, <1>8, <1>10 DEF MakingInv
  <2> QED BY <2>1, <2>2, <1>5
<1>13. TodoInv' /\ RegInv'
  <2>1. todo = {}
    BY <1>5 DEF Inv, TodoInv
  <2>2. TodoInv'
    BY <2>1, <1>2, <1>5 DEF TodoInv
  <2>3. RegInv'
    BY <1>2, <1>8, <1>10 DEF Inv, RegInv
  <2> QED BY <2>2, <2>3
<1>14. Takes(inst, inst', i, c, k)
  BY <1>10 DEF Takes
<1>15. /\ Cardinality(Refs(k)') \in Nat /\ Cardinality(Refs(k)) \in Nat
       /\ Cardinality(Refs(k)') <= Cardinality(Refs(k)) + 1
       /\ ~doubled' => Cardinality(Refs(k)') = Cardinality(Refs(k)) + 1
  <2>1. Cardinality(RefsIn(inst', k)) = Cardinality(RefsIn(inst, k))
          + (IF inst[i].hub[c] = k THEN 0 ELSE 1)
    BY <1>14, RefsTaken
  <2>2. ~doubled' => inst[i].hub[c] # k
    BY <1>2, Zenon
  <2>3. Cardinality(RefsIn(inst', k)) \in Nat /\ Cardinality(RefsIn(inst, k)) \in Nat
    BY RefsFinite
  <2> QED BY <2>1, <2>2, <2>3 DEF Refs
<1>16. ASSUME NEW h \in Instances, h # k
       PROVE  /\ Refs(h)' \subseteq Refs(h)
              /\ Cardinality(Refs(h)') \in Nat /\ Cardinality(Refs(h)) \in Nat
              /\ Cardinality(Refs(h)') <= Cardinality(Refs(h))
              /\ ~doubled' => Cardinality(Refs(h)') = Cardinality(Refs(h))
  <2>1. /\ RefsIn(inst', h) \subseteq RefsIn(inst, h)
        /\ Cardinality(RefsIn(inst, h)) =
             Cardinality(RefsIn(inst', h))
             + (IF inst[i].hub[c] = h THEN 1 ELSE 0)
    BY <1>14, <1>16, RefsLost
  <2>2. ~doubled' => inst[i].hub[c] # h
    <3>1. h # None
      BY DEF Instances, None
    <3> QED BY <3>1, <1>2, Zenon
  <2>3. Cardinality(RefsIn(inst', h)) \in Nat /\ Cardinality(RefsIn(inst, h)) \in Nat
    BY RefsFinite
  <2> QED BY <2>1, <2>2, <2>3 DEF Refs
<1>17. \A h \in Instances : /\ Direct(h)' = Direct(h)
                            /\ Direct(h) \in Nat /\ inst[h].users \in Nat
  BY <1>2, <1>10, CountsAreNaturals DEF Direct, Inv
<1>18. LowerInv'
  <2>1. ASSUME ~stale', mpc' \in {"idle", "making"}, NEW h \in Instances, inst'[h].name = Hub
        PROVE  /\ inst'[h].state = "open" => inst'[h].users >= Holders(h)'
               /\ inst'[h].state # "open" => Refs(h)' = {}
    <3>1. /\ inst[h].name = Hub /\ inst'[h].state = inst[h].state
          /\ inst[h].state = "open" => inst[h].users >= Direct(h) + Cardinality(Refs(h))
          /\ inst[h].state # "open" => Refs(h) = {}
      BY <2>1, <1>2, <1>10 DEF Inv, LowerInv, Holders
    <3>2. CASE h = k
      <4>1. inst'[k].users >= Direct(k)' + Cardinality(Refs(k)')
        BY <3>1, <3>2, <1>4, <1>10, <1>15, <1>17
      <4> QED BY <3>2, <4>1, <1>4, <1>10 DEF Holders
    <3>3. CASE h # k
      <4>1. inst'[h].users = inst[h].users
        BY <3>3, <1>10
      <4>2. inst'[h].state = "open" => inst'[h].users >= Direct(h)' + Cardinality(Refs(h)')
        BY <3>1, <3>3, <4>1, <1>16, <1>17
      <4>3. inst'[h].state # "open" => Refs(h)' = {}
        BY <3>1, <3>3, <1>16
      <4> QED BY <4>2, <4>3 DEF Holders
    <3> QED BY <3>2, <3>3
  <2> QED BY <2>1 DEF LowerInv
<1>19. UpperInv'
  <2>1. ASSUME ~doubled', NEW h \in Instances, inst'[h].name = Hub, inst'[h].state = "open"
        PROVE  inst'[h].users <= Holders(h)'
    <3>1. ~doubled
      BY <2>1, <1>2, Zenon
    <3>2. inst[h].users <= Direct(h) + Cardinality(Refs(h))
      BY <2>1, <3>1, <1>10 DEF Inv, UpperInv, Holders
    <3>3. inst'[h].users <= Direct(h)' + Cardinality(Refs(h)')
      BY <2>1, <3>2, <1>10, <1>15, <1>16, <1>17
    <3> QED BY <3>3 DEF Holders
  <2> QED BY <2>1 DEF UpperInv
<1> QED BY <1>9, <1>11, <1>12, <1>13, <1>18, <1>19 DEF Inv

\* A check whose new hub fails leaves only a closed instance behind.
LEMMA HealthCheckHubFailsKeeps ==
  ASSUME Inv, NEW i \in Instances, NEW c \in Caps, HealthCheckHubFails(i, c)
  PROVE  Inv'
<1>1. PICK k, r, q : /\ k = created + 1 /\ r = [inst[i] EXCEPT !.checks[c] = @ + 1]
                     /\ q = [Constructed(Hub) EXCEPT !.users = 0, !.state = "closed"]
  OBVIOUS
<1>2. /\ CanCheck(i, c) /\ created < MaxInstances /\ created' = k
      /\ inst' = [inst EXCEPT ![k] = q, ![i].checks[c] = @ + 1]
      /\ UNCHANGED <<openDevices, mpc, making, todo, context, stale, doubled>>
  BY <1>1 DEF HealthCheckHubFails
<1>3. /\ k \in Instances /\ k # None /\ k \in 0..MaxInstances /\ inst[k] = Blank
      /\ context # k /\ \A j \in Instances, d \in Caps : inst[j].hub[d] # k
  BY <1>1, <1>2, NextInstance DEF Inv
<1>4. /\ inst \in [Instances -> Device] /\ openDevices \in [Names -> 0..MaxInstances]
      /\ created \in Nat /\ MaxInstances \in Nat /\ None = 0 /\ k = created + 1
      /\ inst[i].state = "open" /\ i # k
  <2>1. inst[i].state = "open" /\ Blank.state = "none"
    BY <1>2 DEF CanCheck, Blank
  <2> QED BY <2>1, <1>1, <1>3, LifecycleAssumption DEF Inv, TypeOK, Device, None
<1>5. /\ q \in Device /\ q.name = Hub /\ q.state = "closed" /\ q.users = 0 /\ q.held = 0
      /\ q.hub = [d \in Caps |-> None]
      /\ Blank.name = Hub /\ Blank.state = "none" /\ Blank.users = 0 /\ Blank.held = 0
      /\ Blank.hub = [d \in Caps |-> None]
  <2>1. /\ Constructed(Hub) \in Device
        /\ Constructed(Hub).name = Hub /\ Constructed(Hub).held = 0
        /\ Constructed(Hub).hub = [d \in Caps |-> None]
        /\ Blank.name = Hub /\ Blank.state = "none" /\ Blank.users = 0 /\ Blank.held = 0
        /\ Blank.hub = [d \in Caps |-> None]
    <3>1. Hub \in Names
      BY DEF Names
    <3> QED BY <3>1, NewRecord, Zenon
  <2> QED BY <2>1, <1>1 DEF Device
<1>6. /\ r \in Device /\ r.name = inst[i].name /\ r.state = inst[i].state
      /\ r.users = inst[i].users /\ r.held = inst[i].held /\ r.hub = inst[i].hub
  <2>1. inst[i] \in Device /\ inst[i].checks \in [Caps -> Nat]
    BY <1>4 DEF Device
  <2>2. [inst[i].checks EXCEPT ![c] = @ + 1] \in [Caps -> Nat]
    BY <2>1
  <2> QED BY <2>1, <2>2, <1>1 DEF Device
<1>7. /\ inst' \in [Instances -> Device] /\ inst'[k] = q /\ inst'[i] = r
      /\ \A j \in Instances : j # k /\ j # i => inst'[j] = inst[j]
  <2>1. inst' = [[inst EXCEPT ![k] = q] EXCEPT ![i] = r]
    BY <1>1, <1>2, <1>3, <1>4
  <2> QED BY <2>1, <1>3, <1>4, <1>5, <1>6
<1>8. TypeOK'
  BY <1>2, <1>3, <1>4, <1>7 DEF Inv, TypeOK, Device
<1>9. ASSUME NEW j \in Instances
      PROVE  /\ inst'[j].name = inst[j].name /\ inst'[j].users = inst[j].users
             /\ inst'[j].held = inst[j].held /\ inst'[j].hub = inst[j].hub
             /\ inst'[j].state = "open" <=> inst[j].state = "open"
  BY <1>3, <1>5, <1>6, <1>7
<1>10. \A h : Refs(h)' = Refs(h)
  <2>1. \A j \in Instances, d \in Caps : inst'[j].hub[d] = inst[j].hub[d]
    BY <1>9
  <2> QED BY <2>1, RefsKept DEF Refs
<1>11. Shape'
  <2>1. \A j \in Instances : j > created' => inst'[j] = Blank
    <3>1. i <= created
      BY <1>4, InUse DEF Inv
    <3> QED BY <3>1, <1>2, <1>4, <1>7 DEF Inv, Shape, Instances
  <2>2. ASSUME NEW j \in Instances, NEW d \in Caps, inst'[j].hub[d] # None
        PROVE  /\ inst'[j].state = "open" /\ inst'[j].name # Hub
               /\ inst'[j].hub[d] <= created' /\ inst'[inst'[j].hub[d]].name = Hub
    <3>1. PICK x : x = inst[j].hub[d]
      OBVIOUS
    <3>2. inst'[j].hub[d] = x /\ x # None /\ x \in Instances
      <4>1. inst[j].hub[d] \in 0..MaxInstances
        BY <1>4 DEF Device
      <4> QED BY <4>1, <3>1, <2>2, <1>4, <1>9 DEF Instances
    <3>3. inst[j].state = "open" /\ inst[j].name # Hub /\ x <= created /\ inst[x].name = Hub
      BY <3>1, <3>2 DEF Inv, Shape
    <3>4. x <= created'
      BY <3>2, <3>3, <1>2, <1>4 DEF Instances
    <3> QED BY <3>2, <3>3, <3>4, <1>9
  <2>3. \A j \in Instances : inst'[j].name = Hub =>
                               (inst'[j].state = "open" <=> inst'[j].users >= 1)
    BY <1>9 DEF Inv, Shape
  <2>4. ASSUME NEW m \in Names, openDevices'[m] # None
        PROVE  inst'[openDevices'[m]].state = "open" /\ inst'[openDevices'[m]].name = m
    <3>1. /\ openDevices[m] \in Instances
          /\ inst[openDevices[m]].state = "open" /\ inst[openDevices[m]].name = m
      BY <2>4, <1>2, <1>4 DEF Inv, Shape, RegisteredIsOpen, Instances
    <3> QED BY <3>1, <1>2, <1>9
  <2>5. context' <= created'
    <3>1. context \in Nat /\ context <= created
      BY DEF Inv, TypeOK, Shape
    <3> QED BY <3>1, <1>2, <1>4
  <2> QED BY <2>1, <2>2, <2>3, <2>4, <2>5 DEF Shape, RegisteredIsOpen
<1>12. MakingInv'
  <2>1. CASE mpc = "making"
    <3>1. making \in 1..created /\ making \in Instances
      BY <2>1, <1>4 DEF Inv, MakingInv, TypeOK, Instances
    <3>2. making \in 1..created'
      BY <3>1, <1>2, <1>4
    <3>3. /\ inst[making].held = 0
          /\ \A j \in Instances, d \in Caps : inst[j].hub[d] # making
          /\ ~stale => openDevices[inst[making].name] = making
      BY <2>1 DEF Inv, MakingInv
    <3>4. /\ inst'[making].held = 0 /\ inst'[making].name = inst[making].name
          /\ \A j \in Instances, d \in Caps : inst'[j].hub[d] # making
      BY <3>1, <3>3, <1>9
    <3> QED BY <2>1, <3>2, <3>3, <3>4, <1>2 DEF MakingInv
  <2>2. CASE mpc # "making"
    BY <2>2, <1>2 DEF Inv, MakingInv
  <2> QED BY <2>1, <2>2
<1>13. TodoInv' /\ RegInv'
  <2>1. todo = {} /\ mpc \in {"idle", "making"}
    BY <1>2 DEF Inv, TodoInv, CanCheck
  <2>2. TodoInv'
    BY <2>1, <1>2 DEF TodoInv
  <2>3. RegInv'
    BY <1>2, <1>9 DEF Inv, RegInv
  <2> QED BY <2>2, <2>3
<1>14. \A h \in Instances : Holders(h)' = Holders(h)
  BY <1>2, <1>9, <1>10 DEF Holders, Direct
<1>15. LowerInv' /\ UpperInv'
  BY <1>2, <1>9, <1>10, <1>14 DEF Inv, LowerInv, UpperInv
<1> QED BY <1>8, <1>11, <1>12, <1>13, <1>15 DEF Inv

-----------------------------------------------------------------------------
(* The actions that hand a device out.                                     *)

\* A step that gives i d more users, and as many holders.
UserStep(i, d) ==
  /\ UNCHANGED <<created, openDevices, todo, stale, doubled>>
  /\ inst' \in [Instances -> Device]
  /\ \A j \in Instances : j # i => inst'[j] = inst[j]
  /\ inst'[i].name = inst[i].name /\ inst'[i].state = inst[i].state
  /\ inst'[i].hub = inst[i].hub
  /\ inst'[i].users = inst[i].users + d
  /\ d = 0 \/ inst[i].state = "open"
  /\ \A h \in Instances : h # i => Direct(h)' = Direct(h)
  /\ inst[i].name = Hub => Direct(i)' = Direct(i) + d
  /\ context' \in 0..created
  /\ mpc \in {"idle", "making"} /\ mpc' = "idle" /\ making' = None

LEMMA UserStepKeeps ==
  ASSUME Inv, NEW i \in Instances, i <= created, NEW d \in Nat, UserStep(i, d)
  PROVE  Inv'
<1>1. /\ UNCHANGED <<created, openDevices, todo, stale, doubled>>
      /\ inst' \in [Instances -> Device]
      /\ mpc \in {"idle", "making"} /\ mpc' = "idle" /\ making' = None
      /\ context' \in 0..created
  BY DEF UserStep
<1>2. ASSUME NEW j \in Instances
      PROVE  /\ inst'[j].name = inst[j].name /\ inst'[j].state = inst[j].state
             /\ inst'[j].hub = inst[j].hub
             /\ j > created => inst'[j] = inst[j]
  BY DEF UserStep, Inv, TypeOK, Instances
<1>3. /\ inst \in [Instances -> Device] /\ openDevices \in [Names -> 0..MaxInstances]
      /\ created \in 0..MaxInstances /\ MaxInstances \in Nat /\ None = 0
  BY LifecycleAssumption DEF Inv, TypeOK, Device, None
<1>4. TypeOK'
  BY <1>1, <1>3 DEF Inv, TypeOK, Device
<1>5. \A h : Refs(h)' = Refs(h)
  <2>1. \A j \in Instances, c \in Caps : inst'[j].hub[c] = inst[j].hub[c]
    BY <1>2
  <2> QED BY <2>1, RefsKept DEF Refs
<1>6. ASSUME NEW h \in Instances, inst[h].name = Hub
      PROVE  \E e \in Nat : /\ inst'[h].users = inst[h].users + e
                            /\ Direct(h)' = Direct(h) + e
                            /\ e = 0 \/ inst[h].state = "open"
  <2>1. Direct(h) \in Nat /\ inst[h].users \in Nat /\ 0 \in Nat
    BY CountsAreNaturals DEF Inv
  <2>2. CASE h = i
    BY <2>1, <2>2, <1>6 DEF UserStep
  <2>3. CASE h # i
    <3>1. inst'[h].users = inst[h].users + 0 /\ Direct(h)' = Direct(h) + 0
      BY <2>1, <2>3 DEF UserStep
    <3> QED BY <2>1, <3>1
  <2> QED BY <2>2, <2>3
<1>7. Shape'
  <2>1. ASSUME NEW j \in Instances, NEW c \in Caps, inst'[j].hub[c] # None
        PROVE  /\ inst'[j].state = "open" /\ inst'[j].name # Hub
               /\ inst'[j].hub[c] <= created' /\ inst'[inst'[j].hub[c]].name = Hub
    <3>1. PICK x : x = inst[j].hub[c]
      OBVIOUS
    <3>2. inst'[j].hub[c] = x /\ x # None /\ x \in Instances
      <4>1. inst[j].hub[c] \in 0..MaxInstances
        BY <1>3 DEF Device
      <4> QED BY <4>1, <3>1, <2>1, <1>2, <1>3, SMTT(40) DEF Instances
    <3>3. inst[j].state = "open" /\ inst[j].name # Hub /\ x <= created /\ inst[x].name = Hub
      BY <3>1, <3>2 DEF Inv, Shape
    <3> QED BY <3>2, <3>3, <1>1, <1>2
  <2>2. ASSUME NEW j \in Instances, inst'[j].name = Hub
        PROVE  inst'[j].state = "open" <=> inst'[j].users >= 1
    <3>1. inst[j].name = Hub /\ inst'[j].state = inst[j].state /\ inst[j].users \in Nat
      BY <2>2, <1>2, CountsAreNaturals DEF Inv
    <3>2. PICK e \in Nat : inst'[j].users = inst[j].users + e /\ (e = 0 \/ inst[j].state = "open")
      BY <3>1, <1>6
    <3> QED BY <3>1, <3>2 DEF Inv, Shape
  <2>3. ASSUME NEW m \in Names, openDevices'[m] # None
        PROVE  inst'[openDevices'[m]].state = "open" /\ inst'[openDevices'[m]].name = m
    <3>1. /\ openDevices[m] \in Instances
          /\ inst[openDevices[m]].state = "open" /\ inst[openDevices[m]].name = m
      BY <2>3, <1>1, <1>3 DEF Inv, Shape, RegisteredIsOpen, Instances
    <3> QED BY <3>1, <1>1, <1>2
  <2>4. context' <= created' /\ \A j \in Instances : j > created' => inst'[j] = Blank
    BY <1>1, <1>2, <1>3 DEF Inv, Shape
  <2> QED BY <2>1, <2>2, <2>3, <2>4 DEF Shape, RegisteredIsOpen
<1>8. MakingInv' /\ TodoInv' /\ RegInv'
  <2>1. todo = {}
    BY <1>1 DEF Inv, TodoInv
  <2>2. TodoInv' /\ MakingInv'
    BY <2>1, <1>1 DEF TodoInv, MakingInv
  <2>3. RegInv'
    BY <1>1, <1>2 DEF Inv, RegInv
  <2> QED BY <2>2, <2>3
<1>9. ASSUME ~stale', NEW h \in Instances, inst'[h].name = Hub
      PROVE  /\ inst'[h].state = "open" => inst'[h].users >= Holders(h)'
             /\ inst'[h].state # "open" => Refs(h)' = {}
  <2>1. inst[h].name = Hub /\ inst'[h].state = inst[h].state /\ Refs(h)' = Refs(h)
    BY <1>2, <1>5, <1>9
  <2>2. PICK e \in Nat : inst'[h].users = inst[h].users + e /\ Direct(h)' = Direct(h) + e
    BY <2>1, <1>6
  <2>3. /\ inst[h].state = "open" => inst[h].users >= Direct(h) + Cardinality(Refs(h))
        /\ inst[h].state # "open" => Refs(h) = {}
    BY <2>1, <1>1, <1>9 DEF Inv, LowerInv, Holders
  <2>4. inst[h].users \in Nat /\ Direct(h) \in Nat /\ Cardinality(Refs(h)) \in Nat
    BY CountsAreNaturals DEF Inv
  <2>5. inst'[h].state = "open" => inst'[h].users >= Direct(h)' + Cardinality(Refs(h)')
    BY <2>1, <2>2, <2>3, <2>4
  <2> QED BY <2>1, <2>3, <2>5 DEF Holders
<1>10. ASSUME ~doubled', NEW h \in Instances, inst'[h].name = Hub, inst'[h].state = "open"
       PROVE  inst'[h].users <= Holders(h)'
  <2>1. inst[h].name = Hub /\ inst[h].state = "open" /\ Refs(h)' = Refs(h)
    BY <1>2, <1>5, <1>10
  <2>2. PICK e \in Nat : inst'[h].users = inst[h].users + e /\ Direct(h)' = Direct(h) + e
    BY <2>1, <1>6
  <2>3. inst[h].users <= Direct(h) + Cardinality(Refs(h))
    BY <2>1, <1>1, <1>10 DEF Inv, UpperInv, Holders
  <2>4. inst[h].users \in Nat /\ Direct(h) \in Nat /\ Cardinality(Refs(h)) \in Nat
    BY CountsAreNaturals DEF Inv
  <2>5. inst'[h].users <= Direct(h)' + Cardinality(Refs(h)')
    BY <2>1, <2>2, <2>3, <2>4
  <2> QED BY <2>5 DEF Holders
<1> QED BY <1>4, <1>7, <1>8, <1>9, <1>10 DEF Inv, LowerInv, UpperInv

\* What the steps that hand out i have in common.
LEMMA HandedOut ==
  ASSUME Inv, NEW i \in Instances
  PROVE  /\ inst[i] \in Device /\ inst \in [Instances -> Device]
         /\ inst[i].users \in Nat /\ inst[i].held \in Nat /\ i # None
         /\ context \in 0..created
         /\ \A h \in Instances : h # None
         /\ mpc = "idle" => making = None
BY LifecycleAssumption DEF Inv, TypeOK, Device, Shape, MakingInv, Instances, None

LEMMA MakeReadyKeeps ==
  ASSUME Inv, MakeReady
  PROVE  Inv'
<1>1. PICK i : i = making
  OBVIOUS
<1>2. /\ mpc = "making" /\ mpc' = "idle" /\ making' = None
      /\ inst' = [inst EXCEPT ![i].ref = TRUE, ![i].held = 1]
      /\ UNCHANGED <<created, openDevices, todo, context, stale, doubled>>
  BY <1>1 DEF MakeReady
<1>3. i \in Instances /\ i <= created /\ inst[i].held = 0
  BY <1>1, <1>2 DEF Inv, TypeOK, MakingInv, Instances
<1>4. /\ inst[i] \in Device /\ inst \in [Instances -> Device]
      /\ inst[i].users \in Nat /\ i # None /\ context \in 0..created
      /\ \A h \in Instances : h # None
  BY <1>3, HandedOut
<1>5. PICK r : r = [inst[i] EXCEPT !.ref = TRUE, !.held = 1]
  OBVIOUS
<1>6. /\ r \in Device /\ r.name = inst[i].name /\ r.state = inst[i].state
      /\ r.hub = inst[i].hub /\ r.users = inst[i].users /\ r.held = 1
  BY <1>4, <1>5 DEF Device
<1>7. /\ inst' = [inst EXCEPT ![i] = r] /\ inst' \in [Instances -> Device]
      /\ inst'[i] = r /\ \A j \in Instances : j # i => inst'[j] = inst[j]
  BY <1>2, <1>3, <1>4, <1>5, <1>6
<1>8. Direct(i)' = Direct(i) + 0
  BY <1>1, <1>2, <1>3, <1>4, <1>6, <1>7 DEF Direct, One
<1>9. \A h \in Instances : h # i => Direct(h)' = Direct(h)
  BY <1>1, <1>2, <1>4, <1>7 DEF Direct, One
<1>10. UserStep(i, 0)
  BY <1>2, <1>4, <1>6, <1>7, <1>8, <1>9 DEF UserStep
<1> QED BY <1>3, <1>10, UserStepKeeps

LEMMA CreateOpenKeeps ==
  ASSUME Inv, NEW n \in Names, CreateOpen(n)
  PROVE  Inv'
<1>1. PICK i : i = openDevices[n]
  OBVIOUS
<1>2. /\ mpc = "idle" /\ i # None
      /\ UNCHANGED <<created, openDevices, mpc, making, todo, context, stale, doubled>>
      /\ IF n = Hub THEN inst' = [inst EXCEPT ![i].users = @ + 1, ![i].held = @ + 1,
                                              ![i].ref = TRUE]
                    ELSE inst' = [inst EXCEPT ![i].ref = TRUE]
  BY <1>1 DEF CreateOpen
<1>3. i \in Instances /\ i <= created /\ inst[i].state = "open" /\ inst[i].name = n
  <2>1. i \in Instances
    BY <1>1, <1>2, LifecycleAssumption DEF Inv, TypeOK, Instances, None
  <2>2. inst[i].state = "open" /\ inst[i].name = n
    BY <1>1, <1>2 DEF Inv, Shape, RegisteredIsOpen
  <2> QED BY <2>1, <2>2, InUse DEF Inv
<1>4. /\ inst[i] \in Device /\ inst \in [Instances -> Device]
      /\ inst[i].users \in Nat /\ inst[i].held \in Nat /\ i # None /\ context \in 0..created
      /\ making = None
  BY <1>2, <1>3, HandedOut
<1>5. PICK r : r = IF n = Hub
                   THEN [inst[i] EXCEPT !.users = @ + 1, !.held = @ + 1, !.ref = TRUE]
                   ELSE [inst[i] EXCEPT !.ref = TRUE]
  OBVIOUS
<1>6. PICK d : d = IF n = Hub THEN 1 ELSE 0
  OBVIOUS
<1>7. /\ r \in Device /\ r.name = inst[i].name /\ r.state = inst[i].state
      /\ r.hub = inst[i].hub /\ r.users = inst[i].users + d /\ r.held = inst[i].held + d
      /\ d \in Nat
  <2>1. CASE n = Hub
    <3>1. r = [inst[i] EXCEPT !.users = @ + 1, !.held = @ + 1, !.ref = TRUE] /\ d = 1
      BY <2>1, <1>5, <1>6
    <3>2. inst[i].users + 1 \in Nat /\ inst[i].held + 1 \in Nat
      BY <1>4
    <3>3. /\ r \in Device /\ r.name = inst[i].name /\ r.state = inst[i].state
          /\ r.hub = inst[i].hub /\ r.users = inst[i].users + 1 /\ r.held = inst[i].held + 1
      BY <3>1, <3>2, <1>4 DEF Device
    <3> QED BY <3>1, <3>3
  <2>2. CASE n # Hub
    <3>1. r = [inst[i] EXCEPT !.ref = TRUE] /\ d = 0
      BY <2>2, <1>5, <1>6
    <3>2. /\ r \in Device /\ r.name = inst[i].name /\ r.state = inst[i].state
          /\ r.hub = inst[i].hub /\ r.users = inst[i].users /\ r.held = inst[i].held
      BY <3>1, <1>4 DEF Device
    <3> QED BY <3>1, <3>2, <1>4
  <2> QED BY <2>1, <2>2
<1>8. /\ inst' = [inst EXCEPT ![i] = r] /\ inst' \in [Instances -> Device]
      /\ inst'[i] = r /\ \A j \in Instances : j # i => inst'[j] = inst[j]
  BY <1>2, <1>3, <1>4, <1>5, <1>7
<1>9. Direct(i)' = Direct(i) + d /\ \A h \in Instances : h # i => Direct(h)' = Direct(h)
  BY <1>2, <1>4, <1>7, <1>8 DEF Direct, One
<1>10. UserStep(i, d)
  BY <1>2, <1>3, <1>4, <1>7, <1>8, <1>9 DEF UserStep
<1> QED BY <1>3, <1>7, <1>10, UserStepKeeps

LEMMA EnterKeeps ==
  ASSUME Inv, Enter
  PROVE  Inv'
<1>1. PICK i : i = openDevices[Hub]
  OBVIOUS
<1>2. /\ mpc = "idle" /\ context = None /\ i # None
      /\ inst' = [inst EXCEPT ![i].users = @ + 1] /\ context' = i
      /\ UNCHANGED <<created, openDevices, mpc, making, todo, stale, doubled>>
  BY <1>1 DEF Enter
<1>3. i \in Instances /\ i <= created /\ inst[i].state = "open"
  <2>1. i \in Instances /\ Hub \in Names
    BY <1>1, <1>2, LifecycleAssumption DEF Inv, TypeOK, Instances, None, Names
  <2>2. inst[i].state = "open"
    BY <1>1, <1>2, <2>1 DEF Inv, Shape, RegisteredIsOpen
  <2> QED BY <2>1, <2>2, InUse DEF Inv
<1>4. /\ inst[i] \in Device /\ inst \in [Instances -> Device]
      /\ inst[i].users \in Nat /\ inst[i].held \in Nat /\ i # None /\ making = None
      /\ \A h \in Instances : h # None
  BY <1>2, <1>3, HandedOut
<1>5. PICK r : r = [inst[i] EXCEPT !.users = @ + 1]
  OBVIOUS
<1>6. /\ r \in Device /\ r.name = inst[i].name /\ r.state = inst[i].state
      /\ r.hub = inst[i].hub /\ r.users = inst[i].users + 1 /\ r.held = inst[i].held
  BY <1>4, <1>5 DEF Device
<1>7. /\ inst' = [inst EXCEPT ![i] = r] /\ inst' \in [Instances -> Device]
      /\ inst'[i] = r /\ \A j \in Instances : j # i => inst'[j] = inst[j]
  BY <1>2, <1>3, <1>4, <1>5, <1>6
<1>8. Direct(i)' = Direct(i) + 1 /\ \A h \in Instances : h # i => Direct(h)' = Direct(h)
  BY <1>2, <1>3, <1>4, <1>6, <1>7 DEF Direct, One
<1>9. context' \in 0..created
  BY <1>2, <1>3, LifecycleAssumption DEF Instances, Inv, TypeOK
<1>10. UserStep(i, 1)
  BY <1>2, <1>3, <1>4, <1>6, <1>7, <1>8, <1>9 DEF UserStep
<1> QED BY <1>3, <1>10, UserStepKeeps

LEMMA DropReferenceKeeps ==
  ASSUME Inv, NEW i \in Instances, DropReference(i)
  PROVE  Inv'
<1>1. /\ mpc = "idle" /\ inst[i].ref
      /\ inst' = [inst EXCEPT ![i].ref = FALSE]
      /\ UNCHANGED <<created, openDevices, mpc, making, todo, context, stale, doubled>>
  BY DEF DropReference
<1>2. /\ inst[i] \in Device /\ inst \in [Instances -> Device]
      /\ inst[i].users \in Nat /\ i # None /\ context \in 0..created /\ making = None
  BY <1>1, HandedOut
<1>3. i <= created
  BY <1>1, InUse DEF Inv
<1>4. PICK r : r = [inst[i] EXCEPT !.ref = FALSE]
  OBVIOUS
<1>5. /\ r \in Device /\ r.name = inst[i].name /\ r.state = inst[i].state
      /\ r.hub = inst[i].hub /\ r.users = inst[i].users + 0 /\ r.held = inst[i].held
  <2>1. /\ r \in Device /\ r.name = inst[i].name /\ r.state = inst[i].state
        /\ r.hub = inst[i].hub /\ r.users = inst[i].users /\ r.held = inst[i].held
    BY <1>2, <1>4 DEF Device
  <2> QED BY <1>2, <2>1
<1>6. /\ inst' = [inst EXCEPT ![i] = r] /\ inst' \in [Instances -> Device]
      /\ inst'[i] = r /\ \A j \in Instances : j # i => inst'[j] = inst[j]
  BY <1>1, <1>2, <1>4, <1>5
<1>7. \A h \in Instances : Direct(h)' = Direct(h)
  BY <1>1, <1>5, <1>6 DEF Direct
<1>8. Direct(i)' = Direct(i) + 0
  <2>1. Direct(i) \in Nat
    BY CountsAreNaturals DEF Inv
  <2> QED BY <2>1, <1>7
<1>9. UserStep(i, 0)
  BY <1>1, <1>2, <1>5, <1>6, <1>7, <1>8 DEF UserStep
<1> QED BY <1>3, <1>9, UserStepKeeps

-----------------------------------------------------------------------------
(* The invariant and what follows from it.                                 *)

\* Nothing has been created.
LEMMA Initially == Init => Inv
<1> SUFFICES ASSUME Init PROVE Inv
  OBVIOUS
<1>1. Hub \in Names /\ MaxInstances \in Nat /\ None = 0
  BY LifecycleAssumption DEF Names, None
<1>2. /\ Blank \in Device /\ Blank.name = Hub /\ Blank.state = "none" /\ Blank.users = 0
      /\ Blank.hub = [c \in Caps |-> None]
  BY <1>1, NewRecord, Zenon
<1>3. \A i \in Instances : inst[i] = Blank
  BY DEF Init
<1>4. TypeOK
  <2>1. inst \in [Instances -> Device]
    BY <1>2 DEF Init
  <2>2. openDevices \in [Names -> 0..MaxInstances]
    BY <1>1 DEF Init
  <2> QED BY <1>1, <2>1, <2>2 DEF Init, TypeOK, Device
<1>5. \A h \in Instances : Refs(h) = {}
  BY <1>1, <1>2, <1>3 DEF Refs, RefsIn, Instances
<1>6. Shape /\ MakingInv /\ TodoInv
  BY <1>1, <1>2, <1>3 DEF Init, Shape, RegisteredIsOpen, MakingInv, TodoInv
<1>7. RegInv /\ LowerInv /\ UpperInv
  BY <1>2, <1>3, <1>5 DEF RegInv, LowerInv, UpperInv
<1> QED BY <1>4, <1>6, <1>7 DEF Inv

\* Every step keeps the invariant.
LEMMA Inductive == Inv /\ [Next]_vars => Inv'
<1> SUFFICES ASSUME Inv, [Next]_vars PROVE Inv'
  OBVIOUS
<1>1. ASSUME NEW n \in Names, CreateNew(n) \/ CreateOpen(n) \/ EnterNew(n) PROVE Inv'
  BY <1>1, CreateNewKeeps, CreateOpenKeeps
<1>2. CASE MakeReady \/ MakeReadyFails \/ Enter \/ Exit
  BY <1>2, MakeReadyKeeps, MakeReadyFailsKeeps, EnterKeeps, ExitKeeps
<1>3. ASSUME NEW i \in Instances, NEW c \in Caps,
             HealthCheckOpenHub(i, c) \/ HealthCheckNewHub(i, c) \/ HealthCheckHubFails(i, c)
      PROVE  Inv'
  BY <1>3, HealthCheckOpenHubKeeps, HealthCheckNewHubKeeps, HealthCheckHubFailsKeeps
<1>4. ASSUME NEW i \in Instances, Close(i) \/ DropReference(i) \/ Del(i) PROVE Inv'
  BY <1>4, CloseKeeps, DropReferenceKeeps, DelKeeps
<1>5. CASE CloseOpenDevices \/ CloseAll \/ ForceAll
  BY <1>5, CloseOpenDevicesKeeps, CloseAllKeeps, ForceAllKeeps
<1>6. CASE UNCHANGED vars
  BY <1>6 DEF vars, Inv, TypeOK, Shape, RegisteredIsOpen, MakingInv, TodoInv, RegInv,
     LowerInv, UpperInv, Holders, Direct, Refs
<1> QED BY <1>1, <1>2, <1>3, <1>4, <1>5, <1>6 DEF Next

\* The invariant says what is to be shown.
LEMMA InvIsRight == Inv => RegistryIsRight
<1> SUFFICES ASSUME Inv PROVE RegistryIsRight
  OBVIOUS
<1>1. HubOpenWhileHeld
  <2>1. SUFFICES ASSUME ~stale, mpc \in {"idle", "making"}, NEW i \in Instances, NEW c \in Caps,
                        inst[i].state = "open", inst[i].hub[c] # None
                 PROVE  inst[inst[i].hub[c]].state = "open"
    BY DEF HubOpenWhileHeld
  <2>2. PICK h : h = inst[i].hub[c]
    OBVIOUS
  <2>3. h \in Instances /\ inst[h].name = Hub
    <3>1. inst[i].hub[c] \in 0..MaxInstances
      BY DEF Inv, TypeOK
    <3> QED BY <2>1, <2>2, <3>1 DEF Inv, Shape, Instances, None
  <2>4. <<i, c>> \in Refs(h)
    BY <2>2 DEF Refs, RefsIn
  <2> QED BY <2>1, <2>2, <2>3, <2>4 DEF Inv, LowerInv
<1>2. OneOpenInstance
  BY DEF Inv, RegInv, OneOpenInstance
<1>3. HubReleased
  <2>1. SUFFICES ASSUME ~doubled, mpc = "idle", NEW h \in Instances,
                        inst[h].state = "open", inst[h].name = Hub
                 PROVE  \/ inst[h].held > 0 \/ context = h
                        \/ \E i \in Instances, c \in Caps : inst[i].hub[c] = h
    BY DEF HubReleased, HubsInUse
  <2>2. /\ inst[h].users >= 1 /\ inst[h].users <= Direct(h) + Cardinality(Refs(h))
        /\ making = None /\ h # None
    BY <2>1 DEF Inv, Shape, UpperInv, Holders, MakingInv, Instances, None
  <2>3. /\ inst[h].users \in Nat /\ inst[h].held \in Nat /\ Cardinality(Refs(h)) \in Nat
    BY CountsAreNaturals DEF Inv, TypeOK
  <2>4. inst[h].held > 0 \/ context = h \/ Cardinality(Refs(h)) # 0
    BY <2>2, <2>3 DEF Direct, One
  <2>5. Cardinality(Refs(h)) # 0 => \E i \in Instances, c \in Caps : inst[i].hub[c] = h
    <3>1. SUFFICES ASSUME Cardinality(Refs(h)) # 0
                   PROVE  \E i \in Instances, c \in Caps : inst[i].hub[c] = h
      OBVIOUS
    <3>2. Refs(h) # {}
      BY <3>1, NoRefs
    <3>3. PICK p \in Instances \X Caps : inst[p[1]].hub[p[2]] = h
      BY <3>2 DEF Refs, RefsIn
    <3> QED BY <3>3
  <2> QED BY <2>4, <2>5
<1> QED BY <1>1, <1>2, <1>3 DEF RegistryIsRight, Inv, Shape

\* Registry, instances and hubs agree, whatever is created, closed, closed again
\* or collected in whatever order: manager.py's _open_devices, the instances'
\* close() and the users that a hub counts.
THEOREM RegistryCorrect == Spec => []RegistryIsRight
<1>1. Init => Inv
  BY Initially
<1>2. Inv /\ [Next]_vars => Inv'
  BY Inductive
<1>3. Inv => RegistryIsRight
  BY InvIsRight
<1> QED BY <1>1, <1>2, <1>3, PTL DEF Spec

-----------------------------------------------------------------------------
(* The configuration files (DeviceConfig), for any number of Managers,     *)
(* devices, aliases, operations and crashes.                               *)

\* A save or reload that a Manager has still to do.
Step == [kind : {"dev", "opt", "truncateDev", "truncateOpt", "load"}, devs : SUBSET Devices,
         opts : {<<>>} \cup [Devices -> Options], target : SUBSET Devices]

IsStep(step) ==
  /\ step \in Step
  /\ step.kind = "opt" => step.opts \in [Devices -> Options]
  /\ step.kind # "opt" => step.target = {}

Memory == [status : Statuses, devs : SUBSET Devices, opts : [Devices -> Options],
           aliases : [Keys -> Devices \cup {NoName}],
           otherAliases : [Keys -> Devices \cup {NoName}]]

Files == [dev : SUBSET Devices, devOk : BOOLEAN, opt : [Devices -> Options], optOk : BOOLEAN]

\* One operation at a time has saves to do.
StepsOK ==
  /\ pending \in [Managers -> Seq(Step)]
  /\ \A m \in Managers : \A i \in 1..Len(pending[m]) : IsStep(pending[m][i])
  /\ \A m, n \in Managers : pending[m] # <<>> /\ pending[n] # <<>> => m = n

Saves(m, i, kind) == i \in 1..Len(pending[m]) /\ pending[m][i].kind = kind

\* What is still to be saved of a device the operation is not about is what the
\* device was told, and the device neither leaves nor enters the files before.
WillBeAsTold ==
  /\ \A d \in disk.dev : disk.opt[d] = told[d]
  /\ \A m \in Managers, i \in Nat : Saves(m, i, "opt") =>
       \A d \in Devices \ pending[m][i].target :
         /\ d \in disk.dev => pending[m][i].opts[d] = told[d]
         /\ \A j \in 1..(i - 1) : /\ pending[m][j].kind # "opt"
                                  /\ pending[m][j].kind = "dev" =>
                                       (d \in pending[m][j].devs <=> d \in disk.dev)

\* The last save of the devices is of all that are known.
WillBeKnown ==
  /\ \A m \in Managers, i \in Nat :
       Saves(m, i, "dev") /\ (\A j \in Nat : j > i => ~Saves(m, j, "dev"))
         => pending[m][i].devs = known
  /\ (\A m \in Managers, i \in Nat : ~Saves(m, i, "dev")) => disk.dev = known

\* No option is the name of a device, and no two devices have the same alias.
Clean(opts) ==
  /\ \A d \in Devices : opts[d] \notin Devices \cup {Removed}
  /\ \A d, e \in Devices : d # e /\ opts[d] = opts[e] => opts[d] \in {NoAlias, Absent}

AllClean ==
  /\ Clean(disk.opt)
  /\ \A m \in Managers : Clean(mem[m].opts)
  /\ \A m \in Managers, i \in Nat : Saves(m, i, "opt") => Clean(pending[m][i].opts)

\* The alias maps lead from a key to the one device that claims it, and only one
\* of the two maps has it.
InStep(mm) ==
  \A k \in Keys :
    /\ mm.aliases[k] = NoName \/ mm.otherAliases[k] = NoName
    /\ \A d \in Claims(mm.devs, mm.opts, k) : Resolve(mm, k) = d
    /\ Claims(mm.devs, mm.opts, k) = {} => Resolve(mm, k) = NoName

ConfigInv ==
  /\ ConfigTypeOK /\ StepsOK
  /\ ~outdated => WillBeAsTold
  /\ ~outdated /\ crashes = 0 => WillBeKnown
  /\ tidy => AllClean /\ (\A m \in Managers : InStep(mem[m]))

-----------------------------------------------------------------------------
(* Loading the files.                                                      *)

\* Every set of natural numbers that is not empty has a least element.
LEMMA LeastNatural ==
  ASSUME NEW T \in SUBSET Nat, T # {}
  PROVE  \E x \in T : \A y \in T : x <= y
<1> DEFINE R == OpToRel(<, Nat)
<1>1. IsWellFoundedOn(R, Nat)
  BY NatLessThanWellFounded
<1>2. \A x, y \in Nat : x < y => <<x, y>> \in R
  BY DEF OpToRel
<1> HIDE DEF R
<1>3. PICK x \in T : \A y \in T : ~ (<<y, x>> \in R)
  BY <1>1, WFMin
<1>4. \A y \in T : y \in Nat /\ x \in Nat /\ ~ (y < x)
  BY <1>2, <1>3
<1> QED BY <1>4

\* Of the elements of a finite set of numbers, the one with the fewest greater
\* ones has none.
LEMMA MaxIsMember ==
  ASSUME NEW S \in SUBSET Nat, IsFiniteSet(S), S # {}
  PROVE  Max(S) \in S
<1> DEFINE Above(x) == {y \in S : y > x}
           T == {Cardinality(Above(x)) : x \in S}
<1>1. \A x \in S : IsFiniteSet(Above(x)) /\ Cardinality(Above(x)) \in Nat
  <2> SUFFICES ASSUME NEW x \in S PROVE IsFiniteSet(Above(x)) /\ Cardinality(Above(x)) \in Nat
    OBVIOUS
  <2>1. Above(x) \in SUBSET S
    OBVIOUS
  <2> HIDE DEF Above
  <2> QED BY <2>1, FS_Subset, FS_CardinalityType
<1>2. PICK x \in S : \A y \in S : Cardinality(Above(x)) <= Cardinality(Above(y))
  <2>1. T \in SUBSET Nat /\ T # {}
    BY <1>1
  <2> HIDE DEF T
  <2>2. PICK t \in T : \A u \in T : t <= u
    BY <2>1, LeastNatural
  <2> QED BY <2>2 DEF T
<1>3. \A y \in S : x >= y
  <2> SUFFICES ASSUME NEW y \in S, ~(x >= y) PROVE FALSE
    OBVIOUS
  <2>0. y > x /\ ~(y > y) /\ \A z \in S : z > y => z > x
    OBVIOUS
  <2>1. Above(y) \in SUBSET Above(x) /\ y \in Above(x) /\ y \notin Above(y)
    BY <2>0, Zenon
  <2>2. IsFiniteSet(Above(x)) /\ Cardinality(Above(y)) \in Nat /\ Cardinality(Above(x)) \in Nat
    BY <1>1
  <2>3. Cardinality(Above(x)) <= Cardinality(Above(y))
    BY <1>2
  <2> HIDE DEF Above
  <2>4. Above(y) # Above(x)
    BY <2>1
  <2>5. Cardinality(Above(y)) < Cardinality(Above(x))
    BY <2>1, <2>2, <2>4, FS_Subset
  <2> QED BY <2>2, <2>3, <2>5
<1> QED BY <1>3 DEF Max

\* Claimants of a key are devices, and a later one takes the key.
LEMMA CreateAliasesRight ==
  ASSUME NEW devs \in SUBSET Devices, NEW opts \in [Devices -> Options]
  PROVE  /\ CreateAliases(devs, opts) \in [Keys -> Devices \cup {NoName}]
         /\ \A k \in Keys :
              /\ Claims(devs, opts, k) = {} => CreateAliases(devs, opts)[k] = NoName
              /\ Claims(devs, opts, k) # {} =>
                   CreateAliases(devs, opts)[k] \in Claims(devs, opts, k)
<1>1. ASSUME NEW k \in Keys, Claims(devs, opts, k) # {}
      PROVE  Max(Claims(devs, opts, k)) \in Claims(devs, opts, k)
  <2>1. Claims(devs, opts, k) \in SUBSET Devices
    BY DEF Claims
  <2>2. Claims(devs, opts, k) \in SUBSET Nat /\ IsFiniteSet(Claims(devs, opts, k))
    BY <2>1, ConfigAssumption, FS_Subset
  <2> QED BY <1>1, <2>2, MaxIsMember
<1>2. \A k \in Keys : Claims(devs, opts, k) \subseteq Devices
  BY DEF Claims
<1> QED BY <1>1, <1>2 DEF CreateAliases

\* Of clean options, only one device claims a key.
LEMMA OneClaims ==
  ASSUME NEW devs \in SUBSET Devices, NEW opts, Clean(opts), NEW k \in Keys,
         NEW d \in Claims(devs, opts, k), NEW e \in Claims(devs, opts, k)
  PROVE  d = e
<1>1. k # NoAlias /\ k # Absent
  BY ConfigAssumption DEF Keys
<1>2. d \in Devices /\ e \in Devices /\ (k = d \/ k = opts[d]) /\ (k = e \/ k = opts[e])
  BY DEF Claims
<1> QED BY <1>1, <1>2 DEF Clean

LEMMA DownIsMemory ==
  ASSUME NEW s \in Statuses
  PROVE  /\ [Down EXCEPT !.status = s] \in Memory
         /\ [Down EXCEPT !.status = s].devs = {}
         /\ Clean([Down EXCEPT !.status = s].opts) /\ InStep([Down EXCEPT !.status = s])
<1>1. /\ [Down EXCEPT !.status = s] \in Memory
      /\ [Down EXCEPT !.status = s].devs = {}
  BY DEF Down, Memory, Options
<1>2. Clean([Down EXCEPT !.status = s].opts)
  BY ConfigAssumption DEF Down, Clean
<1>3. InStep([Down EXCEPT !.status = s])
  BY DEF Down, InStep, Resolve, Claims
<1> QED BY <1>1, <1>2, <1>3

\* A Manager that reads the files has what they say, each device with options,
\* and alias maps that lead to the devices.
LEMMA LoadedRight ==
  ASSUME NEW dk \in Files
  PROVE  /\ Loaded(dk) \in Memory
         /\ \A d \in Loaded(dk).devs : Loaded(dk).opts[d] # Absent
         /\ Clean(dk.opt) => Clean(Loaded(dk).opts) /\ InStep(Loaded(dk))
<1>1. CASE ~dk.devOk \/ ~dk.optOk
  <2>1. Loaded(dk) = [Down EXCEPT !.status = "DeviceError"]
    BY <1>1 DEF Loaded
  <2> QED BY <2>1, DownIsMemory DEF Statuses
<1>2. CASE dk.devOk /\ dk.optOk /\ \E d \in dk.dev : dk.opt[d] = Absent
  <2>1. Loaded(dk) = [Down EXCEPT !.status = "KeyError"]
    BY <1>2 DEF Loaded
  <2> QED BY <2>1, DownIsMemory DEF Statuses
<1>3. CASE dk.devOk /\ dk.optOk /\ \A d \in dk.dev : dk.opt[d] # Absent
  <2> DEFINE opts == [d \in Devices |-> IF d \in dk.dev THEN dk.opt[d] ELSE Absent]
             mine == CreateAliases(dk.dev \ Hubs, opts)
             others == CreateAliases(dk.dev \cap Hubs, opts)
  <2>1. Loaded(dk) = [status |-> "up", devs |-> dk.dev, opts |-> opts,
                      aliases |-> mine, otherAliases |-> others]
    BY <1>3 DEF Loaded
  <2>2. /\ dk.dev \in SUBSET Devices /\ dk.opt \in [Devices -> Options]
        /\ opts \in [Devices -> Options] /\ \A d \in dk.dev : opts[d] = dk.opt[d] /\ opts[d] # Absent
    BY <1>3 DEF Files, Options
  <2>3. \A d \in Devices : opts[d] = dk.opt[d] \/ opts[d] = Absent
    OBVIOUS
  <2> HIDE DEF opts
  <2>4. /\ mine \in [Keys -> Devices \cup {NoName}]
        /\ \A k \in Keys : /\ Claims(dk.dev \ Hubs, opts, k) = {} => mine[k] = NoName
                           /\ Claims(dk.dev \ Hubs, opts, k) # {} =>
                                mine[k] \in Claims(dk.dev \ Hubs, opts, k)
    BY <2>2, CreateAliasesRight
  <2>5. /\ others \in [Keys -> Devices \cup {NoName}]
        /\ \A k \in Keys : /\ Claims(dk.dev \cap Hubs, opts, k) = {} => others[k] = NoName
                           /\ Claims(dk.dev \cap Hubs, opts, k) # {} =>
                                others[k] \in Claims(dk.dev \cap Hubs, opts, k)
    BY <2>2, CreateAliasesRight
  <2> HIDE DEF mine, others
  <2>6. Loaded(dk) \in Memory
    BY <2>1, <2>2, <2>4, <2>5 DEF Memory, Statuses
  <2>7. \A d \in Loaded(dk).devs : Loaded(dk).opts[d] # Absent
    BY <2>1, <2>2
  <2>8. ASSUME Clean(dk.opt) PROVE Clean(opts)
    BY <2>3, <2>8, ConfigAssumption DEF Clean
  <2>9. ASSUME Clean(opts) PROVE InStep(Loaded(dk))
    <3> SUFFICES ASSUME NEW k \in Keys
                 PROVE  /\ mine[k] = NoName \/ others[k] = NoName
                        /\ \A d \in Claims(dk.dev, opts, k) :
                             (IF others[k] # NoName THEN others[k] ELSE mine[k]) = d
                        /\ Claims(dk.dev, opts, k) = {} => others[k] = NoName /\ mine[k] = NoName
      BY <2>1 DEF InStep, Resolve
    <3>1. \A d, e \in Claims(dk.dev, opts, k) : d = e
      BY <2>2, <2>9, OneClaims
    <3>2. /\ Claims(dk.dev, opts, k) =
               Claims(dk.dev \ Hubs, opts, k) \cup Claims(dk.dev \cap Hubs, opts, k)
          /\ Claims(dk.dev \ Hubs, opts, k) \cap Claims(dk.dev \cap Hubs, opts, k) = {}
      BY DEF Claims
    <3>3. \A d \in Claims(dk.dev, opts, k) : d # NoName
      BY <2>2, ConfigAssumption DEF Claims, NoName
    <3> HIDE DEF Claims
    <3> QED BY <2>4, <2>5, <3>1, <3>2, <3>3
  <2> QED BY <2>1, <2>6, <2>7, <2>8, <2>9
<1> QED BY <1>1, <1>2, <1>3

-----------------------------------------------------------------------------
(* Beginning an operation.                                                 *)

\* What an operation may be about to save: of the devices it is not about what
\* the Manager has, and of the devices what is then known.
Tells(m, steps) ==
  \A i \in 1..Len(steps) : steps[i].kind = "opt" =>
    \A d \in Devices \ steps[i].target :
      /\ d \in mem[m].devs => steps[i].opts[d] = mem[m].opts[d]
      /\ \A j \in 1..(i - 1) : /\ steps[j].kind # "opt"
                               /\ steps[j].kind = "dev" =>
                                    (d \in steps[j].devs <=> d \in mem[m].devs)

LeadsTo(steps, devs) ==
  /\ \A i \in 1..Len(steps) : steps[i].kind = "dev" =>
       \/ steps[i].devs = devs
       \/ \E j \in 1..Len(steps) : j > i /\ steps[j].kind = "dev"
  /\ (\A i \in 1..Len(steps) : steps[i].kind # "dev") => devs = known

LEMMA BeginKeeps ==
  ASSUME ConfigInv, NEW m \in Managers, Begin(m),
         NEW steps \in Seq(Step), \A i \in 1..Len(steps) : IsStep(steps[i]),
         pending' = [pending EXCEPT ![m] = steps],
         disk' = disk, told' = told, crashes' = crashes,
         Tells(m, steps), mem[m].devs = known => LeadsTo(steps, known'),
         tidy' => tidy,
         tidy' => \A i \in 1..Len(steps) : steps[i].kind = "opt" => Clean(steps[i].opts)
  PROVE  /\ StepsOK' /\ ops' \in 0..MaxOps
         /\ outdated' \in BOOLEAN
         /\ ~outdated' => WillBeAsTold'
         /\ ~outdated' /\ crashes' = 0 => WillBeKnown'
         /\ tidy' => \A n \in Managers, i \in Nat : Saves(n, i, "opt")' => Clean(pending'[n][i].opts)
<1>1. /\ pending \in [Managers -> Seq(Step)] /\ \A n \in Managers : pending[n] = <<>>
      /\ ops < MaxOps /\ ops' = ops + 1 /\ outdated' = (outdated \/ ~Current(m))
      /\ ops \in 0..MaxOps /\ MaxOps \in Nat /\ outdated \in BOOLEAN
  BY ConfigAssumption DEF ConfigInv, StepsOK, Begin, Quiet, ConfigTypeOK
<1>2. /\ pending' \in [Managers -> Seq(Step)] /\ pending'[m] = steps
      /\ \A n \in Managers \ {m} : pending'[n] = <<>>
      /\ \A n \in Managers : pending'[n] # <<>> => n = m
  BY <1>1
<1>3. \A n \in Managers, i \in Nat, k \in {"opt", "dev"} :
        Saves(n, i, k)' => n = m /\ i \in 1..Len(steps) /\ steps[i].kind = k
  BY <1>2 DEF Saves
<1>4. \A i \in 1..Len(steps) : i \in Nat /\ Saves(m, i, steps[i].kind)'
  BY <1>2 DEF Saves
<1>5. StepsOK'
  <2>1. \A n \in Managers : \A i \in 1..Len(pending'[n]) : IsStep(pending'[n][i])
    BY <1>2
  <2> QED BY <1>2, <2>1 DEF StepsOK
<1>6. ASSUME ~outdated' PROVE WillBeAsTold'
  <2>1. ~outdated /\ Current(m)
    BY <1>1, <1>6
  <2>2. WillBeAsTold
    BY <2>1 DEF ConfigInv
  <2>3. /\ \A d \in disk.dev : disk.opt[d] = told[d] /\ mem[m].opts[d] = disk.opt[d]
        /\ mem[m].devs = disk.dev
    BY <2>1, <2>2 DEF WillBeAsTold, Current
  <2>4. ASSUME NEW n \in Managers, NEW i \in Nat, Saves(n, i, "opt")',
               NEW d \in Devices \ pending'[n][i].target
        PROVE  /\ d \in disk.dev => pending'[n][i].opts[d] = told[d]
               /\ \A j \in 1..(i - 1) : /\ pending'[n][j].kind # "opt"
                                        /\ pending'[n][j].kind = "dev" =>
                                             (d \in pending'[n][j].devs <=> d \in disk.dev)
    <3>1. n = m /\ i \in 1..Len(steps) /\ steps[i].kind = "opt"
      BY <1>3, <2>4
    <3> QED BY <1>2, <2>3, <2>4, <3>1 DEF Tells
  <2> QED BY <2>3, <2>4 DEF WillBeAsTold
<1>7. ASSUME ~outdated', crashes' = 0 PROVE WillBeKnown'
  <2>1. ~outdated /\ Current(m) /\ crashes = 0
    BY <1>1, <1>7
  <2>2. WillBeKnown
    BY <2>1 DEF ConfigInv
  <2>3. disk.dev = known /\ LeadsTo(steps, known')
    BY <1>1, <2>1, <2>2 DEF WillBeKnown, Saves, Current
  <2>4. ASSUME NEW n \in Managers, NEW i \in Nat, Saves(n, i, "dev")',
               \A j \in Nat : j > i => ~Saves(n, j, "dev")'
        PROVE  pending'[n][i].devs = known'
    <3>1. n = m /\ i \in 1..Len(steps) /\ steps[i].kind = "dev"
      BY <1>3, <2>4
    <3>2. ~ \E j \in 1..Len(steps) : j > i /\ steps[j].kind = "dev"
      BY <1>4, <2>4, <3>1
    <3> QED BY <1>2, <2>3, <3>1, <3>2 DEF LeadsTo
  <2>5. ASSUME \A n \in Managers, i \in Nat : ~Saves(n, i, "dev")'
        PROVE  disk'.dev = known'
    <3>1. \A i \in 1..Len(steps) : steps[i].kind # "dev"
      BY <1>4, <2>5
    <3> QED BY <2>3, <3>1 DEF LeadsTo
  <2> QED BY <2>4, <2>5 DEF WillBeKnown
<1>8. ASSUME tidy', NEW n \in Managers, NEW i \in Nat, Saves(n, i, "opt")'
      PROVE  Clean(pending'[n][i].opts)
  BY <1>2, <1>3, <1>8
<1>9. ops' \in 0..MaxOps /\ outdated' \in BOOLEAN
  BY <1>1
<1> QED BY <1>5, <1>6, <1>7, <1>8, <1>9

\* An operation that changes nothing yet but what is to be saved.
LEMMA OperationKeeps ==
  ASSUME ConfigInv, NEW m \in Managers, Begin(m),
         NEW steps \in Seq(Step), \A i \in 1..Len(steps) : IsStep(steps[i]),
         pending' = [pending EXCEPT ![m] = steps],
         UNCHANGED <<disk, mem, told, tidy, crashes>>, known' \in SUBSET Devices,
         Tells(m, steps), mem[m].devs = known => LeadsTo(steps, known'),
         tidy => \A i \in 1..Len(steps) : steps[i].kind = "opt" => Clean(steps[i].opts)
  PROVE  ConfigInv'
<1>1. /\ disk' = disk /\ mem' = mem /\ told' = told /\ tidy' = tidy /\ crashes' = crashes
      /\ ConfigTypeOK
  BY DEF ConfigInv
<1>2. /\ tidy' => tidy
      /\ tidy' => \A i \in 1..Len(steps) : steps[i].kind = "opt" => Clean(steps[i].opts)
  BY <1>1
<1>3. /\ StepsOK' /\ ops' \in 0..MaxOps /\ outdated' \in BOOLEAN
      /\ ~outdated' => WillBeAsTold'
      /\ ~outdated' /\ crashes' = 0 => WillBeKnown'
      /\ tidy' => \A n \in Managers, i \in Nat : Saves(n, i, "opt")' => Clean(pending'[n][i].opts)
  BY <1>1, <1>2, BeginKeeps
<1>4. ConfigTypeOK'
  BY <1>1, <1>3 DEF ConfigTypeOK
<1>5. ASSUME tidy' PROVE AllClean' /\ \A n \in Managers : InStep(mem[n])'
  <2>1. /\ AllClean /\ \A n \in Managers : InStep(mem[n])
    BY <1>1, <1>5 DEF ConfigInv
  <2>2. Clean(disk.opt)' /\ \A n \in Managers : Clean(mem[n].opts)'
    BY <1>1, <2>1 DEF AllClean, Clean
  <2>3. \A n \in Managers, i \in Nat : Saves(n, i, "opt")' => Clean(pending[n][i].opts)'
    BY <1>3, <1>5 DEF Clean
  <2>4. \A n \in Managers : InStep(mem[n])'
    BY <1>1, <2>1 DEF InStep, Resolve, Claims
  <2> QED BY <2>2, <2>3, <2>4 DEF AllClean
<1> QED BY <1>3, <1>4, <1>5 DEF ConfigInv

\* Setting the options of some devices to "None", or leaving them out.
LEMMA WithRight ==
  ASSUME NEW opts \in [Devices -> Options], NEW devs \in SUBSET Devices,
         NEW a \in {NoAlias, Absent}
  PROVE  /\ With(opts, devs, a) \in [Devices -> Options]
         /\ \A d \in devs : With(opts, devs, a)[d] = a
         /\ \A d \in Devices \ devs : With(opts, devs, a)[d] = opts[d]
         /\ Clean(opts) => Clean(With(opts, devs, a))
BY ConfigAssumption DEF With, Options, Clean

\* The steps operations are made of.
LEMMA StepsAre ==
  /\ \A devs \in SUBSET Devices :
       /\ IsStep(SaveDevices(devs))
       /\ SaveDevices(devs).kind = "dev" /\ SaveDevices(devs).devs = devs
  /\ \A opts \in [Devices -> Options], target \in SUBSET Devices :
       /\ IsStep(SaveOptions(opts, target))
       /\ SaveOptions(opts, target).kind = "opt" /\ SaveOptions(opts, target).opts = opts
       /\ SaveOptions(opts, target).target = target
  /\ \A file \in {"truncateDev", "truncateOpt"} :
       IsStep(Truncate(file)) /\ Truncate(file).kind = file
  /\ IsStep(Reload) /\ Reload.kind = "load"
BY DEF IsStep, Step, SaveDevices, SaveOptions, Truncate, Reload

\* Saving the devices, then the options, and reloading.
LEMMA SaveBothKeeps ==
  ASSUME ConfigInv, NEW m \in Managers, Begin(m),
         NEW devs \in SUBSET Devices, NEW opts \in [Devices -> Options], NEW target \in SUBSET Devices,
         pending' = [pending EXCEPT ![m] = <<SaveDevices(devs), SaveOptions(opts, target), Reload>>],
         UNCHANGED <<disk, mem, told, tidy, crashes>>, known' \in SUBSET Devices,
         \A d \in Devices \ target : /\ opts[d] = mem[m].opts[d]
                                     /\ d \in devs <=> d \in mem[m].devs,
         Clean(mem[m].opts) => Clean(opts),
         mem[m].devs = known => known' = devs
  PROVE  ConfigInv'
<1> DEFINE a == SaveDevices(devs)
           b == SaveOptions(opts, target)
           c == Reload
           steps == <<a, b, c>>
<1>1. /\ IsStep(a) /\ IsStep(b) /\ IsStep(c) /\ a \in Step /\ b \in Step /\ c \in Step
      /\ a.kind = "dev" /\ a.devs = devs
      /\ b.kind = "opt" /\ b.opts = opts /\ b.target = target /\ c.kind = "load"
  BY StepsAre DEF IsStep
<1> HIDE DEF a, b, c
<1>2. /\ steps \in Seq(Step) /\ Len(steps) = 3
      /\ steps[1] = a /\ steps[2] = b /\ steps[3] = c
  BY <1>1
<1>3. \A i \in 1..Len(steps) : i = 1 \/ i = 2 \/ i = 3
  BY <1>2
<1>4. pending' = [pending EXCEPT ![m] = steps]
  BY DEF a, b, c
<1> HIDE DEF steps
<1>5. \A i \in 1..Len(steps) : IsStep(steps[i])
  BY <1>1, <1>2, <1>3
<1>6. Tells(m, steps)
  BY <1>1, <1>2, <1>3 DEF Tells
<1>7. mem[m].devs = known => LeadsTo(steps, known')
  BY <1>1, <1>2, <1>3 DEF LeadsTo
<1>8. tidy => \A i \in 1..Len(steps) : steps[i].kind = "opt" => Clean(steps[i].opts)
  BY <1>1, <1>2, <1>3 DEF ConfigInv, AllClean
<1> QED BY <1>2, <1>4, <1>5, <1>6, <1>7, <1>8, OperationKeeps

-----------------------------------------------------------------------------
(* The operations.                                                         *)

LEMMA Typing ==
  ASSUME ConfigInv
  PROVE  /\ disk \in Files /\ \A m \in Managers : mem[m] \in Memory
         /\ mem \in [Managers -> Memory]
         /\ known \in SUBSET Devices /\ told \in [Devices -> Options] /\ tidy \in BOOLEAN
         /\ \A m \in Managers : /\ mem[m].devs \in SUBSET Devices
                                /\ mem[m].opts \in [Devices -> Options]
                                /\ mem[m].aliases \in [Keys -> Devices \cup {NoName}]
                                /\ mem[m].otherAliases \in [Keys -> Devices \cup {NoName}]
                                /\ \A d \in mem[m].devs : mem[m].opts[d] # Absent
BY DEF ConfigInv, ConfigTypeOK, Files, Memory

LEMMA DetectKeeps ==
  ASSUME ConfigInv, NEW m \in Managers, NEW new \in SUBSET Devices, Detect(m, new)
  PROVE  ConfigInv'
<1> DEFINE devs == mem[m].devs \cup new
           opts == With(mem[m].opts, new, NoAlias)
<1>1. /\ Begin(m) /\ UNCHANGED <<disk, mem, told, tidy, crashes>> /\ known' = known \cup new
      /\ pending' = [pending EXCEPT ![m] = <<SaveDevices(devs), SaveOptions(opts, new), Reload>>]
  BY DEF Detect
<1>2. devs \in SUBSET Devices /\ known' \in SUBSET Devices /\ mem[m].opts \in [Devices -> Options]
  BY <1>1, Typing
<1>3. /\ opts \in [Devices -> Options]
      /\ Clean(mem[m].opts) => Clean(opts)
      /\ \A d \in Devices \ new : opts[d] = mem[m].opts[d]
  BY <1>2, WithRight
<1>4. /\ \A d \in Devices \ new : d \in devs <=> d \in mem[m].devs
      /\ mem[m].devs = known => known' = devs
  BY <1>1
<1> HIDE DEF devs, opts
<1> QED BY <1>1, <1>2, <1>3, <1>4, SaveBothKeeps

LEMMA DeleteKeeps ==
  ASSUME ConfigInv, NEW m \in Managers, NEW d \in Devices, Delete(m, d)
  PROVE  ConfigInv'
<1> DEFINE devs == mem[m].devs \ {d}
           opts == With(mem[m].opts, {d}, Absent)
<1>1. /\ Begin(m) /\ UNCHANGED <<disk, mem, told, tidy, crashes>> /\ known' = known \ {d}
      /\ pending' = [pending EXCEPT ![m] = <<SaveDevices(devs), SaveOptions(opts, {d}), Reload>>]
  BY DEF Delete
<1>2. devs \in SUBSET Devices /\ known' \in SUBSET Devices /\ mem[m].opts \in [Devices -> Options]
  BY <1>1, Typing
<1>3. /\ opts \in [Devices -> Options]
      /\ Clean(mem[m].opts) => Clean(opts)
      /\ \A e \in Devices \ {d} : opts[e] = mem[m].opts[e]
  BY <1>2, WithRight
<1>4. /\ {d} \in SUBSET Devices
      /\ \A e \in Devices \ {d} : e \in devs <=> e \in mem[m].devs
      /\ mem[m].devs = known => known' = devs
  BY <1>1
<1> HIDE DEF devs, opts
<1>5. /\ \A e \in Devices \ {d} : /\ opts[e] = mem[m].opts[e]
                                  /\ e \in devs <=> e \in mem[m].devs
      /\ Clean(mem[m].opts) => Clean(opts)
      /\ mem[m].devs = known => known' = devs
  BY <1>3, <1>4
<1> DEFINE target == {d}
<1>6. /\ target \in SUBSET Devices
      /\ pending' = [pending EXCEPT ![m] =
                       <<SaveDevices(devs), SaveOptions(opts, target), Reload>>]
      /\ \A e \in Devices \ target : /\ opts[e] = mem[m].opts[e]
                                     /\ e \in devs <=> e \in mem[m].devs
  BY <1>1, <1>4, <1>5
<1> HIDE DEF target
<1> QED BY <1>1, <1>2, <1>3, <1>5, <1>6, SaveBothKeeps

\* Nothing is to be saved when the device is not found.
LEMMA RedetectKeeps ==
  ASSUME ConfigInv, NEW m \in Managers, NEW d \in Devices, NEW found \in BOOLEAN,
         Redetect(m, d, found)
  PROVE  ConfigInv'
<1> DEFINE devs == mem[m].devs
           opts == mem[m].opts
<1>1. /\ Begin(m) /\ UNCHANGED <<disk, mem, told, tidy, crashes>> /\ known' = known
      /\ pending' = IF found
                    THEN [pending EXCEPT ![m] = <<SaveDevices(devs), SaveOptions(opts, {}), Reload>>]
                    ELSE pending
  BY DEF Redetect, Preserved
<1>2. devs \in SUBSET Devices /\ known' \in SUBSET Devices /\ opts \in [Devices -> Options]
  BY <1>1, Typing
<1>3. CASE found
  <2>1. /\ {} \in SUBSET Devices
        /\ \A e \in Devices \ {} : opts[e] = mem[m].opts[e] /\ (e \in devs <=> e \in mem[m].devs)
        /\ Clean(mem[m].opts) => Clean(opts)
        /\ mem[m].devs = known => known' = devs
    BY <1>1
  <2>2. pending' = [pending EXCEPT ![m] = <<SaveDevices(devs), SaveOptions(opts, {}), Reload>>]
    BY <1>1, <1>3
  <2> HIDE DEF devs, opts
  <2> QED BY <1>1, <1>2, <2>1, <2>2, SaveBothKeeps
<1>4. CASE ~found
  <2> DEFINE steps == <<>>
  <2>1. steps \in Seq(Step) /\ Len(steps) = 0
    OBVIOUS
  <2>2. pending' = [pending EXCEPT ![m] = steps]
    BY <1>1, <1>4 DEF Begin, Idle, ConfigInv, StepsOK
  <2> HIDE DEF steps
  <2>3. /\ \A i \in 1..Len(steps) : IsStep(steps[i])
        /\ Tells(m, steps) /\ LeadsTo(steps, known')
        /\ tidy => \A i \in 1..Len(steps) : steps[i].kind = "opt" => Clean(steps[i].opts)
    BY <1>1, <2>1 DEF Tells, LeadsTo
  <2> QED BY <1>1, <1>2, <2>1, <2>2, <2>3, OperationKeeps
<1> QED BY <1>3, <1>4

\* Everything is emptied first, so all the options to be saved are new ones.
LEMMA DetectOverwriteKeeps ==
  ASSUME ConfigInv, NEW m \in Managers, NEW new \in SUBSET Devices, DetectOverwrite(m, new)
  PROVE  ConfigInv'
<1> DEFINE none == [d \in Devices |-> Absent]
           opts == With(none, new, NoAlias)
           a == Truncate("truncateDev")
           b == SaveDevices({})
           c == Truncate("truncateOpt")
           d == SaveOptions(none, Devices)
           e == Reload
           f == SaveDevices(new)
           g == SaveOptions(opts, Devices)
           steps == <<a, b, c, d, e, f, g, e>>
<1>1. /\ Begin(m) /\ UNCHANGED <<disk, mem, told, tidy, crashes>> /\ known' = new
      /\ pending' = [pending EXCEPT ![m] = steps]
  BY DEF DetectOverwrite
<1>2. none \in [Devices -> Options] /\ Clean(none)
  BY ConfigAssumption DEF Options, Clean
<1>3. opts \in [Devices -> Options] /\ Clean(opts)
  BY <1>2, WithRight
<1> HIDE DEF none, opts
<1>4. /\ IsStep(a) /\ IsStep(b) /\ IsStep(c) /\ IsStep(d) /\ IsStep(e) /\ IsStep(f) /\ IsStep(g)
      /\ a.kind = "truncateDev" /\ b.kind = "dev" /\ c.kind = "truncateOpt" /\ d.kind = "opt"
      /\ e.kind = "load" /\ f.kind = "dev" /\ g.kind = "opt"
      /\ f.devs = new /\ d.opts = none /\ g.opts = opts /\ d.target = Devices /\ g.target = Devices
  BY <1>2, <1>3, StepsAre
<1>5. /\ a \in Step /\ b \in Step /\ c \in Step /\ d \in Step /\ e \in Step /\ f \in Step /\ g \in Step
  BY <1>4 DEF IsStep
<1> HIDE DEF a, b, c, d, e, f, g
<1>6. /\ steps \in Seq(Step) /\ Len(steps) = 8
      /\ steps[1] = a /\ steps[2] = b /\ steps[3] = c /\ steps[4] = d
      /\ steps[5] = e /\ steps[6] = f /\ steps[7] = g /\ steps[8] = e
  BY <1>5
<1>7. \A i \in 1..Len(steps) : \/ i = 1 \/ i = 2 \/ i = 3 \/ i = 4
                               \/ i = 5 \/ i = 6 \/ i = 7 \/ i = 8
  BY <1>6
<1> HIDE DEF steps
<1>8. \A i \in 1..Len(steps) : IsStep(steps[i])
  BY <1>4, <1>6, <1>7
<1>9. \A i \in 1..Len(steps) : steps[i].kind = "opt" =>
        Devices \ steps[i].target = {} /\ Clean(steps[i].opts)
  BY <1>2, <1>3, <1>4, <1>6, <1>7
<1>10. Tells(m, steps)
  BY <1>9 DEF Tells
<1>11. LeadsTo(steps, known')
  <2>1. \A i \in 1..Len(steps) : steps[i].kind = "dev" => i = 2 \/ i = 6
    BY <1>4, <1>6, <1>7
  <2>2. 6 \in 1..Len(steps) /\ 6 > 2 /\ steps[6].kind = "dev" /\ steps[6].devs = known'
    BY <1>1, <1>4, <1>6
  <2> QED BY <2>1, <2>2 DEF LeadsTo
<1> QED BY <1>1, <1>6, <1>8, <1>9, <1>10, <1>11, OperationKeeps

\* Saving the options of one device.
LEMMA SaveOneBegins ==
  ASSUME ConfigInv, NEW m \in Managers, Begin(m), NEW d \in Devices,
         NEW opts \in [Devices -> Options],
         pending' = [pending EXCEPT ![m] = <<SaveOptions(opts, {d})>>],
         UNCHANGED <<disk, known, told, crashes>>,
         \A e \in Devices \ {d} : opts[e] = mem[m].opts[e],
         tidy' => tidy /\ Clean(opts)
  PROVE  /\ StepsOK' /\ ops' \in 0..MaxOps
         /\ outdated' \in BOOLEAN
         /\ ~outdated' => WillBeAsTold'
         /\ ~outdated' /\ crashes' = 0 => WillBeKnown'
         /\ tidy' => \A n \in Managers, i \in Nat : Saves(n, i, "opt")' => Clean(pending'[n][i].opts)
<1> DEFINE a == SaveOptions(opts, {d})
           steps == <<a>>
<1>1. IsStep(a) /\ a \in Step /\ a.kind = "opt" /\ a.opts = opts /\ a.target = {d}
  <2>1. {d} \in SUBSET Devices
    OBVIOUS
  <2>2. IsStep(a) /\ a.kind = "opt" /\ a.opts = opts /\ a.target = {d}
    BY <2>1, StepsAre
  <2> QED BY <2>2 DEF IsStep
<1> HIDE DEF a
<1>2. steps \in Seq(Step) /\ Len(steps) = 1 /\ steps[1] = a
  BY <1>1
<1>3. pending' = [pending EXCEPT ![m] = steps]
  BY DEF a
<1> HIDE DEF steps
<1>4. \A i \in 1..Len(steps) : i = 1 /\ IsStep(steps[i])
  BY <1>1, <1>2
<1>5. Tells(m, steps) /\ LeadsTo(steps, known')
  BY <1>1, <1>2, <1>4 DEF Tells, LeadsTo
<1>6. tidy' => \A i \in 1..Len(steps) : steps[i].kind = "opt" => Clean(steps[i].opts)
  BY <1>1, <1>2, <1>4
<1>7. disk' = disk /\ told' = told /\ crashes' = crashes /\ (tidy' => tidy)
  OBVIOUS
<1> QED BY <1>2, <1>3, <1>4, <1>5, <1>6, <1>7, BeginKeeps

LEMMA RemoveAliasKeeps ==
  ASSUME ConfigInv, NEW m \in Managers, NEW d \in Devices, RemoveAlias(m, d)
  PROVE  ConfigInv'
<1> DEFINE opts == [mem[m].opts EXCEPT ![d] = Removed]
<1>1. /\ Begin(m) /\ UNCHANGED <<disk, known, told, crashes>> /\ tidy' = FALSE
      /\ mem' = [mem EXCEPT ![m].opts = opts]
      /\ pending' = [pending EXCEPT ![m] = <<SaveOptions(opts, {d})>>]
  BY DEF RemoveAlias
<1>2. /\ opts \in [Devices -> Options] /\ \A e \in Devices \ {d} : opts[e] = mem[m].opts[e]
      /\ opts[d] = Removed
  BY Typing DEF Options
<1> HIDE DEF opts
<1>3. /\ StepsOK' /\ ops' \in 0..MaxOps
      /\ outdated' \in BOOLEAN
      /\ ~outdated' => WillBeAsTold'
      /\ ~outdated' /\ crashes' = 0 => WillBeKnown'
  BY <1>1, <1>2, SaveOneBegins
<1>4. /\ mem' \in [Managers -> Memory] /\ mem'[m].devs = mem[m].devs /\ mem'[m].opts = opts
      /\ \A n \in Managers \ {m} : mem'[n] = mem[n]
  <2> DEFINE mm == mem[m]
             nn == [mm EXCEPT !.opts = opts]
  <2>1. mem' = [mem EXCEPT ![m] = nn] /\ mm \in Memory
    BY <1>1, Typing
  <2> HIDE DEF mm
  <2>2. nn \in Memory /\ nn.devs = mm.devs /\ nn.opts = opts
    BY <1>2, <2>1 DEF Memory
  <2> HIDE DEF nn
  <2> QED BY <2>1, <2>2, Typing DEF mm
<1>5. \A n \in Managers : \A e \in mem'[n].devs : mem'[n].opts[e] # Absent
  <2> SUFFICES ASSUME NEW n \in Managers, NEW e \in mem'[n].devs PROVE mem'[n].opts[e] # Absent
    OBVIOUS
  <2>1. CASE n = m
    <3>1. e \in mem[m].devs /\ mem[m].opts[e] # Absent /\ e \in Devices
      BY <1>4, <2>1, Typing
    <3>2. Removed # Absent /\ (opts[e] = Removed \/ opts[e] = mem[m].opts[e])
      BY <1>2, <3>1, ConfigAssumption
    <3> QED BY <1>4, <2>1, <3>1, <3>2
  <2>2. CASE n # m
    BY <1>4, <2>2, Typing
  <2> QED BY <2>1, <2>2
<1>6. ConfigTypeOK'
  BY <1>1, <1>3, <1>4, <1>5 DEF ConfigInv, ConfigTypeOK, Memory
<1> QED BY <1>1, <1>3, <1>6 DEF ConfigInv

\* With a free alias the maps follow: the old key leads nowhere, in neither map,
\* and the new one is in no other map, or else a KeyError comes before it.
LEMMA RealignedInStep ==
  ASSUME NEW mm \in Memory, Clean(mm.opts), InStep(mm), NEW d \in mm.devs,
         NEW a \in Keys \cup {NoAlias},
         a = NoAlias \/ (a \notin Devices /\ \A e \in Devices \ {d} : mm.opts[e] # a),
         mm.opts[d] # Absent, ~AliasKeyError(mm, d),
         NEW nn \in Memory, nn.devs = mm.devs, nn.opts = [mm.opts EXCEPT ![d] = a],
         nn.otherAliases = mm.otherAliases,
         nn.aliases = RealignAlias(mm.aliases, a, mm.opts[d], d)
  PROVE  Clean(nn.opts) /\ InStep(nn)
<1> DEFINE old == mm.opts[d]
<1>1. /\ mm.devs \in SUBSET Devices /\ d \in Devices /\ d # NoName
      /\ mm.opts \in [Devices -> Options] /\ nn.opts \in [Devices -> Options]
      /\ nn.opts[d] = a /\ \A e \in Devices \ {d} : nn.opts[e] = mm.opts[e]
      /\ mm.aliases \in [Keys -> Devices \cup {NoName}]
      /\ mm.otherAliases \in [Keys -> Devices \cup {NoName}]
  BY ConfigAssumption DEF Memory, NoName
<1>2. Clean(nn.opts)
  <2>1. a \notin Devices \cup {Removed}
    BY ConfigAssumption DEF Keys
  <2>2. \A e \in Devices : nn.opts[e] \notin Devices \cup {Removed}
    BY <1>1, <2>1 DEF Clean
  <2>3. \A e, f \in Devices : e # f /\ nn.opts[e] = nn.opts[f] => nn.opts[e] \in {NoAlias, Absent}
    BY <1>1 DEF Clean
  <2> QED BY <2>2, <2>3 DEF Clean
<1>3. \A k \in Keys : nn.aliases[k] = IF k = a THEN d ELSE IF k = old THEN NoName ELSE mm.aliases[k]
  BY DEF RealignAlias
<1>4. NoAlias \notin Keys /\ Absent \notin Keys
  BY ConfigAssumption DEF Keys
<1>5. old = NoAlias \/ (old \in Keys /\ mm.aliases[old] # NoName /\ mm.otherAliases[old] = NoName)
  BY <1>1 DEF AliasKeyError, Clean, InStep, Options
<1> SUFFICES ASSUME NEW k \in Keys
             PROVE  /\ nn.aliases[k] = NoName \/ nn.otherAliases[k] = NoName
                    /\ \A e \in Claims(nn.devs, nn.opts, k) : Resolve(nn, k) = e
                    /\ Claims(nn.devs, nn.opts, k) = {} => Resolve(nn, k) = NoName
  BY <1>2 DEF InStep
<1>6. CASE k = a
  <2>1. a \notin Devices /\ \A e \in Devices \ {d} : mm.opts[e] # a
    BY <1>4, <1>6
  <2>2. Claims(nn.devs, nn.opts, k) = {d}
    BY <1>1, <1>6, <2>1 DEF Claims
  <2>3. mm.otherAliases[k] = NoName
    <3>1. CASE k = old
      BY <1>4, <1>5, <3>1
    <3>2. CASE k # old
      <4>1. Claims(mm.devs, mm.opts, k) = {}
        BY <1>1, <1>6, <2>1, <3>2 DEF Claims
      <4> QED BY <4>1 DEF InStep, Resolve
    <3> QED BY <3>1, <3>2
  <2> QED BY <1>3, <1>6, <2>2, <2>3 DEF Resolve
<1>7. CASE k # a /\ k = old
  <2>1. mm.otherAliases[k] = NoName /\ nn.aliases[k] = NoName
    BY <1>3, <1>4, <1>5, <1>7
  <2>2. Claims(nn.devs, nn.opts, k) = {}
    BY <1>1, <1>4, <1>7 DEF Claims, Clean
  <2> QED BY <2>1, <2>2 DEF Resolve
<1>8. CASE k # a /\ k # old
  <2>1. nn.aliases[k] = mm.aliases[k]
    BY <1>3, <1>8
  <2>2. Claims(nn.devs, nn.opts, k) = Claims(mm.devs, mm.opts, k)
    BY <1>1, <1>8 DEF Claims
  <2> QED BY <2>1, <2>2 DEF InStep, Resolve
<1> QED BY <1>6, <1>7, <1>8

LEMMA SetAliasKeeps ==
  ASSUME ConfigInv, NEW m \in Managers, NEW d \in Devices, NEW a \in Keys \cup {NoAlias},
         SetAlias(m, d, a)
  PROVE  ConfigInv'
<1>1. CASE AliasKeyError(mem[m], d)
  <2> DEFINE steps == <<>>
  <2>1. /\ Begin(m) /\ UNCHANGED <<disk, mem, pending, known, told, crashes>>
        /\ tidy' = (tidy /\ FreeAlias(m, d, a))
    BY <1>1 DEF SetAlias
  <2>2. steps \in Seq(Step) /\ Len(steps) = 0
    OBVIOUS
  <2>3. pending' = [pending EXCEPT ![m] = steps]
    BY <2>1 DEF Begin, Idle, ConfigInv, StepsOK
  <2> HIDE DEF steps
  <2>4. /\ \A i \in 1..Len(steps) : IsStep(steps[i])
        /\ Tells(m, steps) /\ LeadsTo(steps, known')
        /\ \A i \in 1..Len(steps) : steps[i].kind = "opt" => Clean(steps[i].opts)
    BY <2>1, <2>2 DEF Tells, LeadsTo
  <2>5. /\ StepsOK' /\ ops' \in 0..MaxOps
        /\ outdated' \in BOOLEAN
        /\ ~outdated' => WillBeAsTold'
        /\ ~outdated' /\ crashes' = 0 => WillBeKnown'
        /\ tidy' => \A n \in Managers, i \in Nat : Saves(n, i, "opt")' => Clean(pending'[n][i].opts)
    BY <2>1, <2>2, <2>3, <2>4, BeginKeeps
  <2>6. ConfigTypeOK'
    BY <2>1, <2>5 DEF ConfigInv, ConfigTypeOK
  <2>7. ASSUME tidy' PROVE AllClean' /\ \A n \in Managers : InStep(mem[n])'
    <3>1. /\ AllClean /\ \A n \in Managers : InStep(mem[n])
      BY <2>1, <2>7 DEF ConfigInv
    <3>2. Clean(disk.opt)' /\ \A n \in Managers : Clean(mem[n].opts)'
      BY <2>1, <3>1 DEF AllClean, Clean
    <3>3. \A n \in Managers, i \in Nat : Saves(n, i, "opt")' => Clean(pending[n][i].opts)'
      BY <2>5, <2>7 DEF Clean
    <3>4. \A n \in Managers : InStep(mem[n])'
      BY <2>1, <3>1 DEF InStep, Resolve, Claims
    <3> QED BY <3>2, <3>3, <3>4 DEF AllClean
  <2> QED BY <2>5, <2>6, <2>7 DEF ConfigInv
<1>2. CASE ~AliasKeyError(mem[m], d)
  <2> DEFINE opts == [mem[m].opts EXCEPT ![d] = a]
             al == RealignAlias(mem[m].aliases, a, mem[m].opts[d], d)
  <2>1. /\ Begin(m) /\ UNCHANGED <<disk, known, told, crashes>>
        /\ tidy' = (tidy /\ FreeAlias(m, d, a)) /\ d \in mem[m].devs
        /\ mem' = [mem EXCEPT ![m].opts = opts, ![m].aliases = al]
        /\ pending' = [pending EXCEPT ![m] = <<SaveOptions(opts, {d})>>]
    BY <1>2 DEF SetAlias
  <2>2. a \in Options /\ a # Absent
    BY ConfigAssumption DEF Options, Keys
  <2>3. /\ opts \in [Devices -> Options] /\ \A e \in Devices \ {d} : opts[e] = mem[m].opts[e]
        /\ opts[d] = a
    BY <2>2, Typing
  <2>4. al \in [Keys -> Devices \cup {NoName}]
    BY Typing DEF RealignAlias
  <2>5. /\ mem' \in [Managers -> Memory] /\ mem'[m].devs = mem[m].devs /\ mem'[m].opts = opts
        /\ mem'[m].aliases = al /\ mem'[m].otherAliases = mem[m].otherAliases
        /\ \A n \in Managers \ {m} : mem'[n] = mem[n]
    <3> DEFINE mm == mem[m]
               nn == [mm EXCEPT !.opts = opts, !.aliases = al]
    <3> HIDE DEF opts, al
    <3>1. mem' = [mem EXCEPT ![m] = nn] /\ mm \in Memory
      BY <2>1, Typing
    <3> HIDE DEF mm
    <3>2. /\ nn \in Memory /\ nn.devs = mm.devs /\ nn.opts = opts
          /\ nn.aliases = al /\ nn.otherAliases = mm.otherAliases
      BY <2>3, <2>4, <3>1 DEF Memory
    <3> HIDE DEF nn
    <3> QED BY <3>1, <3>2, Typing DEF mm
  <2>6. ASSUME tidy' PROVE Clean(opts) /\ InStep(mem'[m])
    <3>1. /\ tidy /\ FreeAlias(m, d, a) /\ Clean(mem[m].opts) /\ InStep(mem[m])
      BY <2>1, <2>6 DEF ConfigInv, AllClean
    <3>2. a = NoAlias \/ (a \notin Devices /\ \A e \in Devices \ {d} : mem[m].opts[e] # a)
      BY <3>1 DEF FreeAlias
    <3> DEFINE mm == mem[m]
               nn == mem'[m]
    <3>3. mm.opts[d] # Absent /\ mm \in Memory /\ nn \in Memory /\ d \in mm.devs
      BY <2>1, <2>5, Typing
    <3>4. /\ nn.devs = mm.devs /\ nn.opts = [mm.opts EXCEPT ![d] = a]
          /\ nn.otherAliases = mm.otherAliases
          /\ nn.aliases = RealignAlias(mm.aliases, a, mm.opts[d], d)
      BY <2>5
    <3>5. /\ Clean(mm.opts) /\ InStep(mm) /\ ~AliasKeyError(mm, d)
          /\ a = NoAlias \/ (a \notin Devices /\ \A e \in Devices \ {d} : mm.opts[e] # a)
      BY <1>2, <3>1, <3>2
    <3> HIDE DEF mm, nn, opts, al
    <3>6. Clean(nn.opts) /\ InStep(nn)
      BY <3>3, <3>4, <3>5, RealignedInStep
    <3> QED BY <2>5, <3>6 DEF nn
  <2> HIDE DEF opts, al
  <2>7. tidy' => tidy /\ Clean(opts)
    BY <2>1, <2>6
  <2>8. /\ StepsOK' /\ ops' \in 0..MaxOps
        /\ outdated' \in BOOLEAN
        /\ ~outdated' => WillBeAsTold'
        /\ ~outdated' /\ crashes' = 0 => WillBeKnown'
        /\ tidy' => \A n \in Managers, i \in Nat : Saves(n, i, "opt")' => Clean(pending'[n][i].opts)
    BY <2>1, <2>3, <2>7, SaveOneBegins
  <2>9. \A n \in Managers : \A e \in mem'[n].devs : mem'[n].opts[e] # Absent
    <3> SUFFICES ASSUME NEW n \in Managers, NEW e \in mem'[n].devs PROVE mem'[n].opts[e] # Absent
      OBVIOUS
    <3>1. CASE n = m
      BY <2>2, <2>3, <2>5, <3>1, Typing
    <3>2. CASE n # m
      BY <2>5, <3>2, Typing
    <3> QED BY <3>1, <3>2
  <2>10. ConfigTypeOK'
    <3>1. tidy' \in BOOLEAN
      BY <2>1
    <3> QED BY <2>1, <2>5, <2>8, <2>9, <3>1 DEF ConfigInv, ConfigTypeOK, Memory
  <2>11. ASSUME tidy' PROVE AllClean' /\ \A n \in Managers : InStep(mem[n])'
    <3>1. /\ AllClean /\ \A n \in Managers : InStep(mem[n])
      BY <2>1, <2>11 DEF ConfigInv
    <3>2. Clean(disk.opt)'
      BY <2>1, <3>1 DEF AllClean, Clean
    <3>3. \A n \in Managers : Clean(mem'[n].opts) /\ InStep(mem'[n])
      BY <2>5, <2>6, <2>11, <3>1 DEF AllClean
    <3> QED BY <2>8, <2>11, <3>2, <3>3 DEF AllClean, Clean, InStep, Resolve, Claims
  <2> QED BY <2>8, <2>10, <2>11 DEF ConfigInv
<1> QED BY <1>1, <1>2

\* A Manager that starts or ends changes nothing but its own memory.
LEMMA MemoryKeeps ==
  ASSUME ConfigInv, NEW m \in Managers, NEW mm \in Memory,
         \A d \in mm.devs : mm.opts[d] # Absent,
         tidy => Clean(mm.opts) /\ InStep(mm),
         mem' = [mem EXCEPT ![m] = mm],
         UNCHANGED <<disk, known, told, tidy, outdated, ops>>
  PROVE  /\ crashes' \in 0..MaxCrashes => ConfigTypeOK'
         /\ tidy' => /\ Clean(disk'.opt)
                     /\ \A n \in Managers : Clean(mem'[n].opts) /\ InStep(mem'[n])
<1>1. mem' \in [Managers -> Memory] /\ mem'[m] = mm /\ \A n \in Managers \ {m} : mem'[n] = mem[n]
  BY Typing
<1>2. \A n \in Managers : \A d \in mem'[n].devs : mem'[n].opts[d] # Absent
  BY <1>1, Typing
<1>3. crashes' \in 0..MaxCrashes => ConfigTypeOK'
  BY <1>1, <1>2 DEF ConfigInv, ConfigTypeOK, Memory
<1>4. ASSUME tidy
      PROVE  /\ Clean(disk.opt)
             /\ \A n \in Managers : Clean(mem'[n].opts) /\ InStep(mem'[n])
  BY <1>1, <1>4 DEF ConfigInv, AllClean
<1> QED BY <1>3, <1>4

LEMMA StartKeeps ==
  ASSUME ConfigInv, NEW m \in Managers, Start(m)
  PROVE  ConfigInv'
<1>1. /\ mem' = [mem EXCEPT ![m] = Loaded(disk)]
      /\ UNCHANGED <<disk, pending, known, told, tidy, outdated, ops, crashes>>
  BY DEF Start
<1>2. /\ Loaded(disk) \in Memory /\ \A d \in Loaded(disk).devs : Loaded(disk).opts[d] # Absent
      /\ Clean(disk.opt) => Clean(Loaded(disk).opts) /\ InStep(Loaded(disk))
  BY Typing, LoadedRight
<1>3. tidy => Clean(Loaded(disk).opts) /\ InStep(Loaded(disk))
  BY <1>2 DEF ConfigInv, AllClean
<1>4. /\ crashes' \in 0..MaxCrashes => ConfigTypeOK'
      /\ tidy' => /\ Clean(disk'.opt)
                  /\ \A n \in Managers : Clean(mem'[n].opts) /\ InStep(mem'[n])
  BY <1>1, <1>2, <1>3, MemoryKeeps
<1>5. ConfigTypeOK' /\ StepsOK'
  BY <1>1, <1>4 DEF ConfigInv, ConfigTypeOK, StepsOK
<1>6. ~outdated' => WillBeAsTold'
  BY <1>1 DEF ConfigInv, WillBeAsTold, Saves
<1>7. ~outdated' /\ crashes' = 0 => WillBeKnown'
  BY <1>1 DEF ConfigInv, WillBeKnown, Saves
<1>8. ASSUME tidy' PROVE AllClean' /\ \A n \in Managers : InStep(mem[n])'
  <2>1. \A n \in Managers, i \in Nat : Saves(n, i, "opt")' => Clean(pending'[n][i].opts)
    BY <1>1, <1>8 DEF ConfigInv, AllClean, Saves
  <2> QED BY <1>4, <1>8, <2>1 DEF AllClean, Clean, InStep, Resolve, Claims
<1> QED BY <1>5, <1>6, <1>7, <1>8 DEF ConfigInv

LEMMA CrashKeeps ==
  ASSUME ConfigInv, NEW m \in Managers, Crash(m)
  PROVE  ConfigInv'
<1> DEFINE none == [Down EXCEPT !.status = "down"]
<1>1. /\ mem' = [mem EXCEPT ![m] = Down] /\ pending' = [pending EXCEPT ![m] = <<>>]
      /\ UNCHANGED <<disk, known, told, tidy, outdated, ops>>
      /\ crashes < MaxCrashes /\ crashes' = crashes + 1
  BY DEF Crash
<1>2. Down = none
  BY DEF Down
<1>3. /\ none \in Memory /\ none.devs = {} /\ Clean(none.opts) /\ InStep(none)
  BY DownIsMemory DEF Statuses
<1>4. crashes' \in 0..MaxCrashes /\ crashes' # 0
  BY <1>1, ConfigAssumption DEF ConfigInv, ConfigTypeOK
<1> HIDE DEF none
<1>5. /\ ConfigTypeOK'
      /\ tidy' => /\ Clean(disk'.opt)
                  /\ \A n \in Managers : Clean(mem'[n].opts) /\ InStep(mem'[n])
  BY <1>1, <1>2, <1>3, <1>4, MemoryKeeps
<1>6. /\ pending' \in [Managers -> Seq(Step)] /\ pending'[m] = <<>>
      /\ \A n \in Managers : pending'[n] = pending[n] \/ pending'[n] = <<>>
  BY <1>1 DEF ConfigInv, StepsOK
<1>7. StepsOK'
  BY <1>6 DEF ConfigInv, StepsOK
<1>8. \A n \in Managers, i \in Nat : Saves(n, i, "opt")' => Saves(n, i, "opt") /\ pending'[n] = pending[n]
  BY <1>6 DEF Saves
<1>9. ~outdated' => WillBeAsTold'
  BY <1>1, <1>8 DEF ConfigInv, WillBeAsTold
<1>10. ASSUME tidy' PROVE AllClean' /\ \A n \in Managers : InStep(mem[n])'
  <2>1. \A n \in Managers, i \in Nat : Saves(n, i, "opt")' => Clean(pending'[n][i].opts)
    BY <1>1, <1>8, <1>10 DEF ConfigInv, AllClean
  <2> QED BY <1>5, <1>10, <2>1 DEF AllClean, Clean, InStep, Resolve, Claims
<1> QED BY <1>4, <1>5, <1>7, <1>9, <1>10 DEF ConfigInv

-----------------------------------------------------------------------------
(* Saving.                                                                 *)

\* One step less to do.
LEMMA StepDone ==
  ASSUME ConfigInv, NEW m \in Managers, Save(m)
  PROVE  LET step == Head(pending[m]) IN
         /\ step \in Step /\ IsStep(step) /\ step = pending[m][1] /\ 1 \in 1..Len(pending[m])
         /\ pending' \in [Managers -> Seq(Step)]
         /\ \A n \in Managers : n # m => pending[n] = <<>> /\ pending'[n] = <<>>
         /\ \A i \in 1..Len(pending'[m]) : /\ i \in Nat /\ i + 1 \in 1..Len(pending[m])
                                           /\ pending'[m][i] = pending[m][i + 1]
         /\ \A i \in 1..Len(pending[m]) : i = 1 \/ i - 1 \in 1..Len(pending'[m])
         /\ StepsOK'
<1> DEFINE p == pending[m]
<1>1. /\ p # <<>> /\ p \in Seq(Step) /\ pending' = [pending EXCEPT ![m] = Tail(p)]
      /\ pending \in [Managers -> Seq(Step)]
      /\ \A n \in Managers : pending[n] # <<>> => n = m
      /\ \A i \in 1..Len(p) : IsStep(p[i])
  BY DEF Save, ConfigInv, StepsOK
<1> HIDE DEF p
<1>2. /\ Len(p) \in Nat \ {0} /\ Head(p) = p[1] /\ 1 \in 1..Len(p) /\ Head(p) \in Step
      /\ Tail(p) \in Seq(Step) /\ Len(Tail(p)) = Len(p) - 1
      /\ \A i \in 1..Len(Tail(p)) : i \in Nat /\ i + 1 \in 1..Len(p) /\ Tail(p)[i] = p[i + 1]
  BY <1>1
<1>3. /\ pending' \in [Managers -> Seq(Step)] /\ pending'[m] = Tail(p)
      /\ \A n \in Managers : n # m => pending[n] = <<>> /\ pending'[n] = <<>>
  BY <1>1, <1>2
<1>4. \A i \in 1..Len(p) : i = 1 \/ i - 1 \in 1..Len(Tail(p))
  BY <1>2
<1>5. StepsOK'
  <2>1. \A n \in Managers : \A i \in 1..Len(pending'[n]) : IsStep(pending'[n][i])
    BY <1>1, <1>2, <1>3
  <2>2. \A l, n \in Managers : pending'[l] # <<>> /\ pending'[n] # <<>> => l = n
    BY <1>3
  <2> QED BY <1>3, <2>1, <2>2 DEF StepsOK
<1> QED BY <1>1, <1>2, <1>3, <1>4, <1>5 DEF p

LEMMA FilesSaved ==
  ASSUME ConfigInv, NEW m \in Managers, Save(m)
  PROVE  LET step == Head(pending[m]) IN
         /\ disk' \in Files /\ told' \in [Devices -> Options]
         /\ step.kind = "dev" =>
              /\ disk'.dev = step.devs /\ disk'.opt = disk.opt
              /\ \A d \in step.devs : told'[d] = IF d \in disk.dev THEN told[d] ELSE disk.opt[d]
         /\ step.kind = "opt" =>
              /\ disk'.dev = disk.dev /\ disk'.opt = step.opts
              /\ \A d \in Devices :
                   told'[d] = IF d \in step.target THEN step.opts[d] ELSE told[d]
         /\ step.kind \notin {"dev", "opt"} =>
              disk'.dev = disk.dev /\ disk'.opt = disk.opt /\ told' = told
<1> DEFINE step == Head(pending[m])
<1>1. step \in Step /\ IsStep(step)
  BY StepDone
<1>2. disk' = SaveConfigToFile(step)
  BY DEF Save
<1>3. told' = [d \in Devices |->
                 CASE step.kind = "dev" /\ d \notin step.devs -> Absent
                   [] step.kind = "dev" /\ d \in step.devs \ disk.dev -> disk.opt[d]
                   [] d \in step.target -> step.opts[d]
                   [] OTHER -> told[d]]
  BY DEF Save
<1> HIDE DEF step
<1>4. /\ disk \in Files /\ told \in [Devices -> Options] /\ Absent \in Options
  BY Typing DEF Options
<1>5. CASE step.kind = "dev"
  <2>1. /\ disk' = [disk EXCEPT !.dev = step.devs, !.devOk = TRUE]
        /\ step.target = {} /\ step.devs \in SUBSET Devices
    BY <1>1, <1>2, <1>5 DEF SaveConfigToFile, IsStep, Step
  <2>2. told' = [d \in Devices |-> IF d \notin step.devs THEN Absent
                                   ELSE IF d \notin disk.dev THEN disk.opt[d] ELSE told[d]]
    BY <1>3, <1>5, <2>1
  <2> QED BY <1>4, <1>5, <2>1, <2>2 DEF step, Files
<1>6. CASE step.kind = "opt"
  <2>1. /\ disk' = [disk EXCEPT !.opt = step.opts, !.optOk = TRUE]
        /\ step.opts \in [Devices -> Options]
    BY <1>1, <1>2, <1>6 DEF SaveConfigToFile, IsStep
  <2>2. told' = [d \in Devices |-> IF d \in step.target THEN step.opts[d] ELSE told[d]]
    BY <1>3, <1>6
  <2> QED BY <1>4, <1>6, <2>1, <2>2 DEF step, Files
<1>7. CASE step.kind \notin {"dev", "opt"}
  <2>1. step.kind \in {"truncateDev", "truncateOpt", "load"} /\ step.target = {}
    BY <1>1, <1>7 DEF IsStep, Step
  <2>2. disk' \in Files /\ disk'.dev = disk.dev /\ disk'.opt = disk.opt
    BY <1>2, <1>4, <2>1 DEF SaveConfigToFile, Files
  <2>3. told' = [d \in Devices |-> told[d]]
    BY <1>3, <2>1
  <2> QED BY <1>4, <1>7, <2>2, <2>3 DEF step
<1> QED BY <1>5, <1>6, <1>7

\* What is left to do of another kind was left before.
LEMMA LeftToDo ==
  ASSUME ConfigInv, NEW m \in Managers, Save(m),
         NEW n \in Managers, NEW i \in Nat, NEW kind, Saves(n, i, kind)'
  PROVE  /\ n = m /\ Saves(m, i + 1, kind) /\ i + 1 \in Nat
         /\ pending'[m][i] = pending[m][i + 1]
         /\ \A j \in 1..(i - 1) : /\ pending'[m][j] = pending[m][j + 1]
                                  /\ j + 1 \in 1..((i + 1) - 1)
<1>1. /\ i \in 1..Len(pending'[n]) /\ pending'[n][i].kind = kind
  BY DEF Saves
<1>2. n = m
  <2> SUFFICES ASSUME n # m PROVE FALSE
    OBVIOUS
  <2>1. pending'[n] = <<>>
    BY StepDone
  <2> QED BY <1>1, <2>1
<1>3. /\ \A l \in 1..Len(pending'[m]) : /\ l \in Nat /\ l + 1 \in 1..Len(pending[m])
                                        /\ pending'[m][l] = pending[m][l + 1]
      /\ Len(pending'[m]) \in Nat
  BY StepDone
<1>4. /\ i + 1 \in 1..Len(pending[m]) /\ pending'[m][i] = pending[m][i + 1]
  BY <1>1, <1>2, <1>3
<1>5. \A j \in 1..(i - 1) : j \in 1..Len(pending'[m]) /\ j + 1 \in 1..((i + 1) - 1)
  BY <1>1, <1>2, <1>3
<1> QED BY <1>1, <1>2, <1>3, <1>4, <1>5 DEF Saves

LEMMA SaveAsTold ==
  ASSUME ConfigInv, NEW m \in Managers, Save(m), WillBeAsTold
  PROVE  WillBeAsTold'
<1> DEFINE step == Head(pending[m])
<1>1. /\ step \in Step /\ IsStep(step) /\ step = pending[m][1] /\ 1 \in 1..Len(pending[m])
  BY StepDone
<1>2. step.kind = "opt" => Saves(m, 1, "opt")
  BY <1>1 DEF Saves
<1>3. /\ step.kind = "dev" =>
           /\ disk'.dev = step.devs /\ disk'.opt = disk.opt
           /\ \A d \in step.devs : told'[d] = IF d \in disk.dev THEN told[d] ELSE disk.opt[d]
      /\ step.kind = "opt" =>
           /\ disk'.dev = disk.dev /\ disk'.opt = step.opts
           /\ \A d \in Devices :
                told'[d] = IF d \in step.target THEN step.opts[d] ELSE told[d]
      /\ step.kind \notin {"dev", "opt"} =>
           disk'.dev = disk.dev /\ disk'.opt = disk.opt /\ told' = told
  BY FilesSaved
<1>4. disk.dev \in SUBSET Devices
  BY Typing DEF Files
<1> HIDE DEF step
<1>5. \A d \in disk'.dev : disk'.opt[d] = told'[d]
  <2>1. CASE step.kind = "dev"
    BY <1>3, <2>1 DEF WillBeAsTold
  <2>2. CASE step.kind = "opt"
    <3> SUFFICES ASSUME NEW d \in disk.dev PROVE step.opts[d] = told'[d]
      BY <1>3, <2>2
    <3>1. CASE d \in step.target
      BY <1>3, <1>4, <2>2, <3>1
    <3>2. CASE d \notin step.target
      <4>1. step.opts[d] = told[d]
        BY <1>1, <1>2, <1>4, <2>2, <3>2 DEF WillBeAsTold
      <4> QED BY <1>3, <1>4, <2>2, <3>2, <4>1
    <3> QED BY <3>1, <3>2
  <2>3. CASE step.kind \notin {"dev", "opt"}
    BY <1>3, <2>3 DEF WillBeAsTold
  <2> QED BY <2>1, <2>2, <2>3
<1>6. ASSUME NEW n \in Managers, NEW i \in Nat, Saves(n, i, "opt")',
             NEW d \in Devices \ pending'[n][i].target
      PROVE  /\ d \in disk'.dev => pending'[n][i].opts[d] = told'[d]
             /\ \A j \in 1..(i - 1) : /\ pending'[n][j].kind # "opt"
                                      /\ pending'[n][j].kind = "dev" =>
                                           (d \in pending'[n][j].devs <=> d \in disk'.dev)
  <2>1. /\ n = m /\ Saves(m, i + 1, "opt") /\ i + 1 \in Nat
        /\ pending'[m][i] = pending[m][i + 1]
        /\ \A j \in 1..(i - 1) : /\ pending'[m][j] = pending[m][j + 1]
                                 /\ j + 1 \in 1..((i + 1) - 1)
    BY <1>6, LeftToDo
  <2>2. d \in Devices \ pending[m][i + 1].target
    BY <1>6, <2>1
  <2>3. /\ d \in disk.dev => pending[m][i + 1].opts[d] = told[d]
        /\ \A j \in 1..((i + 1) - 1) : /\ pending[m][j].kind # "opt"
                                       /\ pending[m][j].kind = "dev" =>
                                            (d \in pending[m][j].devs <=> d \in disk.dev)
    BY <2>1, <2>2 DEF WillBeAsTold
  <2>4. 1 \in 1..((i + 1) - 1)
    BY <1>6 DEF Saves
  <2>5. step.kind # "opt" /\ (step.kind = "dev" => (d \in step.devs <=> d \in disk.dev))
    BY <1>1, <2>3, <2>4
  <2>6. (d \in disk'.dev <=> d \in disk.dev) /\ (d \in disk.dev => told'[d] = told[d])
    BY <1>3, <2>5
  <2>7. d \in disk'.dev => pending'[n][i].opts[d] = told'[d]
    BY <2>1, <2>3, <2>6
  <2>8. ASSUME NEW j \in 1..(i - 1)
        PROVE  /\ pending'[n][j].kind # "opt"
               /\ pending'[n][j].kind = "dev" =>
                    (d \in pending'[n][j].devs <=> d \in disk'.dev)
    <3>1. pending'[n][j] = pending[m][j + 1] /\ j + 1 \in 1..((i + 1) - 1)
      BY <2>1
    <3> QED BY <2>3, <2>6, <3>1
  <2> QED BY <2>7, <2>8
<1> QED BY <1>5, <1>6 DEF WillBeAsTold

LEMMA SaveKnown ==
  ASSUME ConfigInv, NEW m \in Managers, Save(m), WillBeKnown
  PROVE  WillBeKnown'
<1> DEFINE step == Head(pending[m])
<1>1. /\ step \in Step /\ step = pending[m][1] /\ 1 \in 1..Len(pending[m])
      /\ \A n \in Managers : n # m => pending[n] = <<>>
      /\ \A i \in 1..Len(pending[m]) : i = 1 \/ i - 1 \in 1..Len(pending'[m])
      /\ \A i \in 1..Len(pending'[m]) : pending'[m][i] = pending[m][i + 1]
      /\ pending \in [Managers -> Seq(Step)]
  BY StepDone DEF ConfigInv, StepsOK
<1>2. known' = known
  BY DEF Save
<1>3. /\ step.kind = "dev" => disk'.dev = step.devs
      /\ step.kind # "dev" => disk'.dev = disk.dev
  BY FilesSaved
<1> HIDE DEF step
<1>4. \A j \in Nat : Saves(m, j, "dev") =>
        (j = 1 /\ step.kind = "dev") \/ (j - 1 \in Nat /\ Saves(m, j - 1, "dev")')
  <2> SUFFICES ASSUME NEW j \in Nat, Saves(m, j, "dev"), j # 1
               PROVE  j - 1 \in Nat /\ Saves(m, j - 1, "dev")'
    BY <1>1 DEF Saves
  <2>1. j \in 1..Len(pending[m]) /\ pending[m][j].kind = "dev"
    BY DEF Saves
  <2>2. j - 1 \in 1..Len(pending'[m]) /\ pending'[m][j - 1] = pending[m][(j - 1) + 1]
    BY <1>1, <2>1
  <2>3. (j - 1) + 1 = j /\ j - 1 \in Nat
    BY <2>1
  <2> QED BY <2>1, <2>2, <2>3 DEF Saves
<1>5. ASSUME NEW n \in Managers, NEW i \in Nat, Saves(n, i, "dev")',
             \A j \in Nat : j > i => ~Saves(n, j, "dev")'
      PROVE  pending'[n][i].devs = known'
  <2>1. /\ n = m /\ Saves(m, i + 1, "dev") /\ i + 1 \in Nat
        /\ pending'[m][i] = pending[m][i + 1]
    BY <1>5, LeftToDo
  <2>2. ASSUME NEW j \in Nat, j > i + 1 PROVE ~Saves(m, j, "dev")
    <3>1. j # 1 /\ (j - 1 \in Nat => j - 1 > i)
      BY <2>2
    <3> QED BY <1>4, <1>5, <2>1, <3>1
  <2> QED BY <1>2, <2>1, <2>2 DEF WillBeKnown
<1>6. ASSUME \A n \in Managers, i \in Nat : ~Saves(n, i, "dev")'
      PROVE  disk'.dev = known'
  <2>1. \A j \in Nat : Saves(m, j, "dev") => j = 1 /\ step.kind = "dev"
    BY <1>4, <1>6
  <2>2. CASE step.kind = "dev"
    <3>1. Saves(m, 1, "dev") /\ \A j \in Nat : j > 1 => ~Saves(m, j, "dev")
      BY <1>1, <2>1, <2>2 DEF Saves
    <3>2. pending[m][1].devs = known
      BY <3>1 DEF WillBeKnown
    <3> QED BY <1>1, <1>2, <1>3, <2>2, <3>2
  <2>3. CASE step.kind # "dev"
    <3>1. \A n \in Managers, j \in Nat : ~Saves(n, j, "dev")
      BY <1>1, <2>1, <2>3 DEF Saves
    <3> QED BY <1>2, <1>3, <2>3, <3>1 DEF WillBeKnown
  <2> QED BY <2>2, <2>3
<1> QED BY <1>5, <1>6 DEF WillBeKnown

\* The Manager's memory changes only when it reloads.
LEMMA SaveMemory ==
  ASSUME ConfigInv, NEW m \in Managers, Save(m)
  PROVE  /\ mem' \in [Managers -> Memory]
         /\ \A n \in Managers : \A d \in mem'[n].devs : mem'[n].opts[d] # Absent
         /\ tidy => \A n \in Managers : Clean(mem'[n].opts) /\ InStep(mem'[n])
<1>1. mem' = mem \/ mem' = [mem EXCEPT ![m] = Loaded(disk)]
  BY DEF Save
<1>2. /\ Loaded(disk) \in Memory /\ \A d \in Loaded(disk).devs : Loaded(disk).opts[d] # Absent
      /\ Clean(disk.opt) => Clean(Loaded(disk).opts) /\ InStep(Loaded(disk))
  BY Typing, LoadedRight
<1>3. \A n \in Managers : mem'[n] = mem[n] \/ mem'[n] = Loaded(disk)
  BY <1>1, Typing
<1>4. mem' \in [Managers -> Memory]
  BY <1>1, <1>2, Typing
<1>5. ASSUME NEW n \in Managers
      PROVE  \A d \in mem'[n].devs : mem'[n].opts[d] # Absent
  BY <1>2, <1>3, Typing
<1>6. ASSUME tidy, NEW n \in Managers
      PROVE  Clean(mem'[n].opts) /\ InStep(mem'[n])
  BY <1>2, <1>3, <1>6 DEF ConfigInv, AllClean
<1> QED BY <1>4, <1>5, <1>6

LEMMA SaveKeeps ==
  ASSUME ConfigInv, NEW m \in Managers, Save(m)
  PROVE  ConfigInv'
<1>1. UNCHANGED <<known, tidy, outdated, ops, crashes>>
  BY DEF Save
<1>2. StepsOK' /\ disk' \in Files /\ told' \in [Devices -> Options]
  BY StepDone, FilesSaved
<1>3. /\ mem' \in [Managers -> Memory]
      /\ \A n \in Managers : \A d \in mem'[n].devs : mem'[n].opts[d] # Absent
  BY SaveMemory
<1>4. ConfigTypeOK'
  BY <1>1, <1>2, <1>3 DEF ConfigInv, ConfigTypeOK, Files, Memory
<1>5. ~outdated' => WillBeAsTold'
  BY <1>1, SaveAsTold DEF ConfigInv
<1>6. ~outdated' /\ crashes' = 0 => WillBeKnown'
  BY <1>1, SaveKnown DEF ConfigInv
<1>7. ASSUME tidy' PROVE AllClean' /\ \A n \in Managers : InStep(mem[n])'
  <2>1. tidy /\ AllClean
    BY <1>1, <1>7 DEF ConfigInv
  <2>2. \A n \in Managers : Clean(mem'[n].opts) /\ InStep(mem'[n])
    BY <2>1, SaveMemory
  <2>3. disk'.opt = disk.opt \/ (disk'.opt = pending[m][1].opts /\ Saves(m, 1, "opt"))
    <3> DEFINE step == Head(pending[m])
    <3>1. step = pending[m][1] /\ 1 \in 1..Len(pending[m])
      BY StepDone
    <3>2. /\ step.kind = "opt" => disk'.opt = step.opts
          /\ step.kind # "opt" => disk'.opt = disk.opt
      BY FilesSaved
    <3> HIDE DEF step
    <3> QED BY <3>1, <3>2 DEF Saves
  <2>4. Clean(disk'.opt)
    BY <2>1, <2>3 DEF AllClean
  <2>5. \A n \in Managers, i \in Nat : Saves(n, i, "opt")' => Clean(pending'[n][i].opts)
    BY <2>1, LeftToDo DEF AllClean
  <2> QED BY <2>2, <2>4, <2>5 DEF AllClean, Clean, InStep, Resolve, Claims
<1> QED BY <1>2, <1>4, <1>5, <1>6, <1>7 DEF ConfigInv

-----------------------------------------------------------------------------
(* The configuration is kept.                                              *)

LEMMA ConfigInitially == ConfigInit => ConfigInv
<1> SUFFICES ASSUME ConfigInit PROVE ConfigInv
  OBVIOUS
<1>1. /\ Down \in Memory /\ Down.devs = {} /\ Clean(Down.opts) /\ InStep(Down)
  <2>1. Down = [Down EXCEPT !.status = "down"]
    BY DEF Down
  <2> QED BY <2>1, DownIsMemory DEF Statuses
<1>2. \A m \in Managers : mem[m] = Down /\ pending[m] = <<>>
  BY DEF ConfigInit
<1>3. ConfigTypeOK
  <2>1. /\ mem \in [Managers -> Memory]
        /\ \A m \in Managers : \A d \in mem[m].devs : mem[m].opts[d] # Absent
    BY <1>1, <1>2 DEF ConfigInit
  <2>2. disk \in Files /\ known \subseteq Devices /\ told \in [Devices -> Options]
    BY DEF ConfigInit, Files, Options
  <2>3. tidy \in BOOLEAN /\ outdated \in BOOLEAN
    BY DEF ConfigInit
  <2>4. ops \in 0..MaxOps /\ crashes \in 0..MaxCrashes
    BY ConfigAssumption DEF ConfigInit
  <2> QED BY <2>1, <2>2, <2>3, <2>4 DEF ConfigTypeOK, Files, Memory
<1>4. StepsOK
  BY <1>2 DEF ConfigInit, StepsOK
<1>5. \A m \in Managers, i \in Nat, kind \in {"opt", "dev"} : ~Saves(m, i, kind)
  BY <1>2 DEF Saves
<1>6. WillBeAsTold /\ WillBeKnown
  BY <1>5 DEF ConfigInit, WillBeAsTold, WillBeKnown
<1>7. Clean(disk.opt)
  BY ConfigAssumption DEF ConfigInit, Clean
<1>8. AllClean /\ \A m \in Managers : InStep(mem[m])
  BY <1>1, <1>2, <1>5, <1>7 DEF AllClean
<1> QED BY <1>3, <1>4, <1>6, <1>8 DEF ConfigInv

LEMMA ConfigInductive == ConfigInv /\ [ConfigNext]_configVars => ConfigInv'
<1> SUFFICES ASSUME ConfigInv, [ConfigNext]_configVars PROVE ConfigInv'
  OBVIOUS
<1>1. CASE UNCHANGED configVars
  <2> USE <1>1 DEF configVars
  <2>1. ConfigTypeOK' /\ StepsOK'
    BY DEF ConfigInv, ConfigTypeOK, StepsOK
  <2>2. ~outdated' => WillBeAsTold'
    BY DEF ConfigInv, WillBeAsTold, Saves
  <2>3. ~outdated' /\ crashes' = 0 => WillBeKnown'
    BY DEF ConfigInv, WillBeKnown, Saves
  <2>4. tidy' => AllClean'
    BY DEF ConfigInv, AllClean, Saves, Clean
  <2>5. tidy' => \A m \in Managers : InStep(mem[m])'
    BY DEF ConfigInv, InStep, Resolve, Claims
  <2> QED BY <2>1, <2>2, <2>3, <2>4, <2>5 DEF ConfigInv
<1>2. ASSUME NEW m \in Managers, Start(m) PROVE ConfigInv'
  BY <1>2, StartKeeps
<1>3. ASSUME NEW m \in Managers, Crash(m) PROVE ConfigInv'
  BY <1>3, CrashKeeps
<1>4. ASSUME NEW m \in Managers, Save(m) PROVE ConfigInv'
  BY <1>4, SaveKeeps
<1>5. ASSUME NEW m \in Managers, NEW new \in SUBSET Devices, Detect(m, new) PROVE ConfigInv'
  BY <1>5, DetectKeeps
<1>6. ASSUME NEW m \in Managers, NEW new \in SUBSET Devices, DetectOverwrite(m, new)
      PROVE  ConfigInv'
  BY <1>6, DetectOverwriteKeeps
<1>7. ASSUME NEW m \in Managers, NEW d \in Devices, Delete(m, d) PROVE ConfigInv'
  BY <1>7, DeleteKeeps
<1>8. ASSUME NEW m \in Managers, NEW d \in Devices, RemoveAlias(m, d) PROVE ConfigInv'
  BY <1>8, RemoveAliasKeeps
<1>9. ASSUME NEW m \in Managers, NEW d \in Devices, NEW found \in BOOLEAN, Redetect(m, d, found)
      PROVE  ConfigInv'
  BY <1>9, RedetectKeeps
<1>10. ASSUME NEW m \in Managers, NEW d \in Devices, NEW a \in Keys \cup {NoAlias},
              SetAlias(m, d, a)
       PROVE  ConfigInv'
  BY <1>10, SetAliasKeeps
<1> QED BY <1>1, <1>2, <1>3, <1>4, <1>5, <1>6, <1>7, <1>8, <1>9, <1>10 DEF ConfigNext

LEMMA AliasesAreFresh == ConfigInv => AliasesFresh
<1> SUFFICES ASSUME ConfigInv, tidy, NEW m \in Managers, Idle(m), NEW k \in Keys
             PROVE  Resolve(mem[m], k) =
                      Resolve(Loaded([dev |-> mem[m].devs, devOk |-> TRUE,
                                      opt |-> mem[m].opts, optOk |-> TRUE]), k)
  BY DEF AliasesFresh
<1> DEFINE mm == mem[m]
           dk == [dev |-> mm.devs, devOk |-> TRUE, opt |-> mm.opts, optOk |-> TRUE]
           anew == Loaded(dk)
<1>1. /\ mm.devs \in SUBSET Devices /\ mm.opts \in [Devices -> Options]
      /\ \A d \in mm.devs : mm.opts[d] # Absent
  BY Typing
<1>2. Clean(mm.opts) /\ InStep(mm)
  BY DEF ConfigInv, AllClean
<1> HIDE DEF mm
<1>3. dk \in Files /\ dk.opt = mm.opts /\ dk.dev = mm.devs /\ dk.devOk /\ dk.optOk
  BY <1>1 DEF Files
<1> HIDE DEF dk
<1>4. InStep(anew)
  BY <1>2, <1>3, LoadedRight
<1>5. anew.devs = mm.devs /\ \A d \in mm.devs : anew.opts[d] = mm.opts[d]
  BY <1>1, <1>3 DEF Loaded
<1> HIDE DEF anew
<1>6. Claims(anew.devs, anew.opts, k) = Claims(mm.devs, mm.opts, k)
  BY <1>5 DEF Claims
<1>7. Resolve(mm, k) = Resolve(anew, k)
  <2>1. CASE Claims(mm.devs, mm.opts, k) = {}
    BY <1>2, <1>4, <1>6, <2>1 DEF InStep
  <2>2. CASE Claims(mm.devs, mm.opts, k) # {}
    BY <1>2, <1>4, <1>6, <2>2 DEF InStep
  <2> QED BY <2>1, <2>2
<1> QED BY <1>7 DEF anew, dk, mm

LEMMA ConfigInvIsKept == ConfigInv => ConfigIsKept
<1> SUFFICES ASSUME ConfigInv PROVE ConfigIsKept
  OBVIOUS
<1>1. ConfigTypeOK /\ AliasesFresh
  BY AliasesAreFresh DEF ConfigInv
<1>2. OptionsAsTold
  BY DEF ConfigInv, OptionsAsTold, WillBeAsTold
<1>3. ASSUME Quiet, crashes = 0, ~outdated PROVE disk.dev = known
  <2>1. \A m \in Managers, i \in Nat : ~Saves(m, i, "dev")
    BY <1>3 DEF Quiet, Saves
  <2> QED BY <1>3, <2>1 DEF ConfigInv, WillBeKnown
<1> QED BY <1>1, <1>2, <1>3 DEF ConfigIsKept, DevicesKept

\* Whatever devices are detected, redetected and deleted, and whatever aliases
\* are set and removed, by however many Managers that start and crash at any
\* time: the files keep what they were told, and names and aliases lead to the
\* devices that have them (manager.py, detect to remove_prop).
THEOREM ConfigurationIsKept == ConfigSpec => []ConfigIsKept
<1>1. ConfigSpec => []ConfigInv
  BY ConfigInitially, ConfigInductive, PTL DEF ConfigSpec
<1> QED BY <1>1, ConfigInvIsKept, PTL
=============================================================================
