------------------------- MODULE ClientRunner_proofs -------------------------
(***************************************************************************)
(* Proofs about the Python client, for any number of runners and of local  *)
(* services, and batches of any size: the shared local service is up while *)
(* somebody uses it, and an execution tells what became of its batch.      *)
(***************************************************************************)
EXTENDS ClientRunner, FiniteSetTheorems, SequenceTheorems, TLAPS

(* Owners and the local service.  While an owner starts a service it holds *)
(* the lock and there is no current service; nobody else is about to stop  *)
(* the one it starts, since a service taken out of reach by its last owner *)
(* has been up before and each start takes a number of its own.            *)
LocalTypeOK ==
  /\ at \in [Owners -> Places]
  /\ uses \in [Owners -> Services \cup {Configured, Null}]
  /\ service \in Services \cup {Null}
  /\ owners \in Nat
  /\ lock \in Owners \cup {Null}
  /\ server \in [Services -> {"none", "starting", "up", "exiting", "gone"}]
  /\ process \in {"running", "exiting", "cleaned"}

Begun(o) == uses[o] \in Services /\ server[uses[o]] # "none"

StartsAlone ==
  /\ lock # Null => at[lock] \in {"starting", "abandoning"}
  /\ \A o \in Owners :
       at[o] \in {"starting", "abandoning"} =>
         lock = o /\ service = Null /\ process = "running" /\ Begun(o)

StopsApart ==
  \A p \in Owners : at[p] = "taken" =>
    /\ Begun(p) /\ uses[p] # service
    /\ \A o \in Owners : at[o] = "starting" => uses[o] # uses[p]

ClosesLocal == \A o \in Owners : at[o] = "closing" => uses[o] # Configured

CleanedUp == process = "cleaned" => service = Null /\ owners = 0

ServedInv ==
  /\ LocalTypeOK
  /\ StartsAlone
  /\ StopsApart
  /\ ClosesLocal
  /\ CleanedUp
  /\ OpenIsServed

ServedOwners == {o \in Owners : Served(o)}

LEMMA OwnersFinite == IsFiniteSet(Owners)
  BY RunnerAssumption, FS_AddElement DEF Owners

LEMMA ServedFinite ==
  /\ IsFiniteSet(ServedOwners)
  /\ Cardinality(ServedOwners) \in Nat
  /\ Cardinality(ServedOwners) <= Cardinality(Owners)
  /\ Cardinality(Owners) \in Nat
  /\ Cardinality(ServedOwners) = 0 <=> ServedOwners = {}
  BY OwnersFinite, FS_Subset, FS_CardinalityType, FS_EmptySet DEF ServedOwners

LEMMA OwnersTyped ==
  ASSUME NEW o \in Owners  PROVE o # Null
  BY RunnerAssumption DEF Owners

LEMMA ServiceNumbers ==
  ASSUME NEW n \in Services  PROVE n # Configured /\ n # Null /\ n \in Nat
  BY RunnerAssumption DEF Services, Configured

LEMMA ServedInit == Init => ServedInv
<1> SUFFICES ASSUME Init PROVE ServedInv
  OBVIOUS
<1>1. LocalTypeOK
  BY DEF Init, LocalTypeOK, Places
<1>2. \A o \in Owners : at[o] = "new"
  BY DEF Init
<1>3. ServedOwners = {}
  BY <1>2 DEF ServedOwners, Served
<1>4. OpenIsServed
  BY <1>2, <1>3, ServedFinite DEF OpenIsServed, Init, Served, ServedOwners
<1>5. QED
  BY <1>1, <1>2, <1>4
  DEF ServedInv, StartsAlone, StopsApart, ClosesLocal, CleanedUp, Init

(* The owners that use the local service after a step, in terms of those   *)
(* before it.                                                              *)
LEMMA ServedSame ==
  ASSUME OpenIsServed, process' # "cleaned", process # "cleaned",
         \A o \in Owners : /\ Served(o)' <=> Served(o)
                           /\ Served(o) => uses'[o] = uses[o],
         owners' = owners, service' = service,
         server'[service] = server[service]
  PROVE  OpenIsServed'
<1>1. ServedOwners' = ServedOwners
  BY DEF ServedOwners
<1>2. QED
  BY <1>1 DEF OpenIsServed, ServedOwners

LEMMA AcquireServed ==
  ASSUME ServedInv, NEW o \in Owners,
         UseConfigured(o) \/ AcquireRunning(o) \/ AcquireStarts(o)
  PROVE  ServedInv'
<1>1. CASE UseConfigured(o)
  <2>1. LocalTypeOK'
    BY <1>1 DEF ServedInv, LocalTypeOK, UseConfigured, Go, Places
  <2>2. /\ at[o] = "new" /\ at'[o] = "open" /\ uses'[o] = Configured
        /\ \A p \in Owners \ {o} : at'[p] = at[p] /\ uses'[p] = uses[p]
        /\ process = "running"
    BY <1>1 DEF ServedInv, LocalTypeOK, UseConfigured, Go, Enters
  <2>3. \A p \in Owners : Served(p)' <=> Served(p)
    BY <2>2 DEF Served
  <2>4. \A p \in Owners : Served(p) => uses'[p] = uses[p]
    BY <2>2 DEF Served
  <2>5. OpenIsServed'
    BY <1>1, <2>2, <2>3, <2>4, ServedSame DEF UseConfigured, ServedInv
  <2>6. StartsAlone' /\ StopsApart' /\ ClosesLocal' /\ CleanedUp'
    BY <1>1, <2>2
    DEF ServedInv, LocalTypeOK, StartsAlone, StopsApart, ClosesLocal, CleanedUp, Begun,
        UseConfigured
  <2>7. QED
    BY <2>1, <2>5, <2>6 DEF ServedInv
<1>2. CASE AcquireRunning(o)
  <2>1. LocalTypeOK'
    BY <1>2 DEF ServedInv, LocalTypeOK, AcquireRunning, Go, Places
  <2>2. /\ at[o] = "new" /\ at'[o] = "open" /\ uses'[o] = service
        /\ \A p \in Owners \ {o} : at'[p] = at[p] /\ uses'[p] = uses[p]
        /\ process = "running" /\ service \in Services /\ owners \in Nat
        /\ service' = service /\ server' = server /\ owners' = owners + 1
        /\ process' = process /\ lock' = lock
    BY <1>2 DEF ServedInv, LocalTypeOK, AcquireRunning, Go, Enters
  <2>3. ServedOwners' = ServedOwners \cup {o} /\ o \notin ServedOwners
    BY <2>2, ServiceNumbers DEF ServedOwners, Served
  <2>4. Cardinality(ServedOwners') = Cardinality(ServedOwners) + 1
    BY <2>3, ServedFinite, FS_AddElement
  <2>5. owners = Cardinality(ServedOwners) /\ owners # 0 /\ server[service] = "up"
    <3>1. owners = Cardinality(ServedOwners) /\ owners # 0
      BY <2>2, ServiceNumbers DEF ServedInv, OpenIsServed, ServedOwners
    <3>2. PICK p \in Owners : Served(p)
      BY <3>1, ServedFinite DEF ServedOwners
    <3>3. QED
      BY <2>2, <3>1, <3>2 DEF ServedInv, OpenIsServed
  <2>6. OpenIsServed'
    <3>1. owners' = Cardinality(ServedOwners')
      BY <2>2, <2>4, <2>5
    <3>2. service' # Null /\ owners' # 0
      BY <2>2, ServiceNumbers
    <3>3. \A p \in Owners : Served(p)' => uses'[p] = service'
      BY <2>2 DEF Served, ServedInv, OpenIsServed
    <3>4. QED
      BY <2>2, <2>5, <3>1, <3>2, <3>3 DEF OpenIsServed, ServedOwners
  <2>7. StartsAlone' /\ StopsApart' /\ ClosesLocal' /\ CleanedUp'
    BY <1>2, <2>2
    DEF ServedInv, LocalTypeOK, StartsAlone, StopsApart, ClosesLocal, CleanedUp, Begun
  <2>8. QED
    BY <2>1, <2>6, <2>7 DEF ServedInv
<1>3. CASE AcquireStarts(o)
  <2>1. PICK n \in Services :
          /\ server[n] = "none"
          /\ server' = [server EXCEPT ![n] = "starting"]
          /\ uses' = [uses EXCEPT ![o] = n]
    <3>1. PICK n \in Services :
            /\ \A m \in Services : server[m] = "none" <=> m >= n
            /\ server' = [server EXCEPT ![n] = "starting"]
            /\ uses' = [uses EXCEPT ![o] = n]
      BY <1>3 DEF AcquireStarts
    <3>2. n >= n
      BY ServiceNumbers
    <3>3. QED
      BY <3>1, <3>2
  <2>2. LocalTypeOK'
    BY <1>3, <2>1 DEF ServedInv, LocalTypeOK, AcquireStarts, Go, Places
  <2>3. /\ at[o] = "new" /\ at'[o] = "starting" /\ uses'[o] = n
        /\ \A p \in Owners \ {o} : at'[p] = at[p] /\ uses'[p] = uses[p]
        /\ server'[n] = "starting"
        /\ \A m \in Services \ {n} : server'[m] = server[m]
        /\ process = "running" /\ process' = "running" /\ service = Null
        /\ service' = Null /\ owners' = owners /\ lock = Null /\ lock' = o
    BY <1>3, <2>1 DEF ServedInv, LocalTypeOK, AcquireStarts, Go, Enters
  <2>4. ServedOwners' = ServedOwners
    BY <2>3 DEF ServedOwners, Served
  <2>5. owners = 0 /\ ServedOwners = {}
    BY <2>3, ServedFinite DEF ServedInv, OpenIsServed, ServedOwners
  <2>6. OpenIsServed'
    BY <2>3, <2>4, <2>5, ServedFinite DEF OpenIsServed, ServedOwners
  <2>7. \A p \in Owners : Begun(p) /\ p # o => Begun(p)' /\ uses'[p] # n
    BY <2>1, <2>3 DEF Begun
  <2>8. StartsAlone'
    BY <2>3, OwnersTyped DEF StartsAlone, ServedInv, Begun
  <2>9. StopsApart'
    <3>1. ASSUME NEW p \in Owners, at'[p] = "taken"
          PROVE  /\ Begun(p)' /\ uses'[p] # service'
                 /\ \A q \in Owners : at'[q] = "starting" => uses'[q] # uses'[p]
      <4>1. p # o /\ at[p] = "taken" /\ Begun(p) /\ uses'[p] = uses[p]
        BY <2>3, <3>1 DEF StopsApart, ServedInv
      <4>2. Begun(p)' /\ uses'[p] # n
        BY <2>7, <4>1
      <4>3. uses'[p] # service'
        BY <2>3, <4>1, ServiceNumbers DEF Begun
      <4>4. \A q \in Owners : at'[q] = "starting" => q = o
        BY <2>3, OwnersTyped DEF StartsAlone, ServedInv
      <4>5. QED
        BY <2>3, <4>2, <4>3, <4>4
    <3>2. QED
      BY <3>1 DEF StopsApart
  <2>10. ClosesLocal' /\ CleanedUp'
    BY <2>3 DEF ServedInv, ClosesLocal, CleanedUp
  <2>11. QED
    BY <2>2, <2>6, <2>8, <2>9, <2>10 DEF ServedInv
<1>4. QED
  BY <1>1, <1>2, <1>3

LEMMA StartServed ==
  ASSUME ServedInv, NEW o \in Owners,
         StartReturns(o) \/ StartGivesUp(o) \/ AbandonReturns(o)
  PROVE  ServedInv'
<1>1. /\ lock = o /\ service = Null /\ process = "running" /\ Begun(o)
      /\ uses[o] \in Services /\ uses[o] # Null /\ uses[o] # Configured
  BY ServiceNumbers
  DEF StartReturns, StartGivesUp, AbandonReturns, ServedInv, StartsAlone, Begun
<1>2. owners = 0 /\ ServedOwners = {}
  BY <1>1, ServedFinite DEF ServedInv, OpenIsServed, ServedOwners
<1>3. \A p \in Owners \ {o} : at[p] \notin {"starting", "abandoning"}
  BY <1>1 DEF ServedInv, StartsAlone
<1>4. CASE StartReturns(o)
  <2>1. LocalTypeOK'
    BY <1>1, <1>4 DEF ServedInv, LocalTypeOK, StartReturns, Go, Places
  <2>2. /\ at[o] = "starting" /\ at'[o] = "open"
        /\ \A p \in Owners \ {o} : at'[p] = at[p]
        /\ uses' = uses /\ server' = server /\ server[uses[o]] = "up"
        /\ service' = uses[o] /\ owners' = 1 /\ lock' = Null /\ process' = process
    BY <1>2, <1>4 DEF ServedInv, LocalTypeOK, StartReturns, Go
  <2>3. ServedOwners' = {o}
    BY <1>1, <1>2, <2>2 DEF ServedOwners, Served
  <2>4. Cardinality(ServedOwners') = 1
    BY <2>3, FS_Singleton
  <2>5. OpenIsServed'
    BY <1>1, <2>2, <2>3, <2>4 DEF OpenIsServed, ServedOwners
  <2>6. StartsAlone'
    BY <1>3, <2>2 DEF StartsAlone
  <2>7. StopsApart'
    BY <1>3, <2>2 DEF StopsApart, ServedInv, Begun
  <2>8. ClosesLocal' /\ CleanedUp'
    BY <1>1, <2>2 DEF ServedInv, ClosesLocal, CleanedUp
  <2>9. QED
    BY <2>1, <2>5, <2>6, <2>7, <2>8 DEF ServedInv
<1>5. CASE StartGivesUp(o)
  <2>1. LocalTypeOK'
    BY <1>1, <1>5 DEF ServedInv, LocalTypeOK, StartGivesUp, Go, AskToExit, Places
  <2>2. /\ at[o] = "starting" /\ at'[o] = "abandoning"
        /\ \A p \in Owners \ {o} : at'[p] = at[p]
        /\ uses' = uses /\ service' = service /\ owners' = owners /\ lock' = lock
        /\ process' = process
        /\ \A n \in Services : server[n] # "none" => server'[n] # "none"
    BY <1>5 DEF ServedInv, LocalTypeOK, StartGivesUp, Go, AskToExit
  <2>3. ServedOwners' = {}
    BY <1>2, <2>2 DEF ServedOwners, Served
  <2>4. OpenIsServed'
    BY <1>1, <1>2, <2>2, <2>3, ServedFinite DEF OpenIsServed, ServedOwners
  <2>5. StartsAlone' /\ StopsApart' /\ ClosesLocal' /\ CleanedUp'
    BY <1>1, <2>2 DEF StartsAlone, StopsApart, ClosesLocal, CleanedUp, ServedInv, Begun
  <2>6. QED
    BY <2>1, <2>4, <2>5 DEF ServedInv
<1>6. CASE AbandonReturns(o)
  <2>1. LocalTypeOK'
    BY <1>6 DEF ServedInv, LocalTypeOK, AbandonReturns, Go, Places
  <2>2. /\ at'[o] = "refused" /\ uses'[o] = Null
        /\ \A p \in Owners \ {o} : at'[p] = at[p] /\ uses'[p] = uses[p]
        /\ service' = service /\ owners' = owners /\ lock' = Null
        /\ process' = process /\ server' = server
    BY <1>6 DEF ServedInv, LocalTypeOK, AbandonReturns, Go
  <2>3. ServedOwners' = {}
    BY <1>2, <2>2 DEF ServedOwners, Served
  <2>4. OpenIsServed'
    BY <1>1, <1>2, <2>2, <2>3, ServedFinite DEF OpenIsServed, ServedOwners
  <2>5. StartsAlone' /\ StopsApart' /\ ClosesLocal' /\ CleanedUp'
    BY <1>1, <1>3, <2>2
    DEF StartsAlone, StopsApart, ClosesLocal, CleanedUp, ServedInv, Begun
  <2>6. QED
    BY <2>1, <2>4, <2>5 DEF ServedInv
<1>7. QED
  BY <1>4, <1>5, <1>6

LEMMA ReleaseServed ==
  ASSUME ServedInv, NEW o \in Owners, Release(o)
  PROVE  ServedInv'
<1>1. /\ at[o] = "closing" /\ lock = Null /\ lock' = lock /\ server' = server
      /\ process' = process /\ owners \in Nat
      /\ \A p \in Owners : at[p] \notin {"starting", "abandoning"}
      /\ uses[o] # Configured
  BY OwnersTyped DEF Release, ServedInv, StartsAlone, LocalTypeOK, ClosesLocal
<1>2. LocalTypeOK'
  BY <1>1 DEF ServedInv, LocalTypeOK, Release, Fewer, Go, Places
<1>3. CASE process = "cleaned"
  <2>1. service = Null /\ owners = 0
    BY <1>3 DEF ServedInv, CleanedUp
  <2>2. /\ owners' = 0 /\ service' = Null /\ uses' = uses /\ at'[o] = "closed"
        /\ \A p \in Owners \ {o} : at'[p] = at[p]
    BY <2>1 DEF Release, Fewer, Go, ServedInv, LocalTypeOK
  <2>3. QED
    BY <1>1, <1>2, <1>3, <2>1, <2>2
    DEF ServedInv, OpenIsServed, StartsAlone, StopsApart, ClosesLocal, CleanedUp, Begun
<1>4. CASE process # "cleaned"
  <2>1. /\ Served(o) /\ owners = Cardinality(ServedOwners) /\ o \in ServedOwners
        /\ uses[o] = service /\ server[service] = "up"
    BY <1>1, <1>4 DEF Served, ServedInv, OpenIsServed, ServedOwners
  <2>2. owners > 0 /\ service \in Services
    BY <1>1, <1>4, <2>1, ServedFinite DEF ServedInv, OpenIsServed, LocalTypeOK
  <2>3. owners' = owners - 1
    BY <2>2 DEF Release, Fewer
  <2>4. /\ at'[o] \in {"taken", "closed"}
        /\ \A p \in Owners \ {o} : at'[p] = at[p] /\ uses'[p] = uses[p]
    BY DEF Release, Go, ServedInv, LocalTypeOK
  <2>5. ServedOwners' = ServedOwners \ {o}
    BY <2>4 DEF ServedOwners, Served
  <2>6. Cardinality(ServedOwners') = owners - 1
    BY <2>1, <2>5, ServedFinite, FS_RemoveElement
  <2>7. CASE owners = 1
    <3>1. service' = Null /\ uses'[o] = service /\ at'[o] = "taken"
      BY <2>2, <2>7, ServiceNumbers DEF Release, LastOwner, Go, ServedInv, LocalTypeOK
    <3>2. ServedOwners = {o}
      <4>1. PICK p : ServedOwners = {p}
        BY <2>1, <2>7, ServedFinite, FS_Singleton
      <4>2. QED
        BY <2>1, <4>1
    <3>3. OpenIsServed'
      BY <2>3, <2>5, <2>6, <2>7, <3>1, <3>2 DEF OpenIsServed, ServedOwners
    <3>4. StopsApart'
      <4>1. ASSUME NEW p \in Owners, at'[p] = "taken"
            PROVE  Begun(p)' /\ uses'[p] # service'
        <5>1. Begun(p)'
          BY <1>1, <2>1, <2>2, <2>4, <3>1, <4>1 DEF Begun, ServedInv, StopsApart
        <5>2. QED
          BY <3>1, <5>1, ServiceNumbers DEF Begun
      <4>2. \A p \in Owners : at'[p] # "starting"
        BY <1>1, <2>4
      <4>3. QED
        BY <4>1, <4>2 DEF StopsApart
    <3>5. StartsAlone' /\ ClosesLocal' /\ CleanedUp'
      BY <1>1, <1>4, <2>4 DEF StartsAlone, ClosesLocal, CleanedUp, ServedInv
    <3>6. QED
      BY <1>2, <3>3, <3>4, <3>5 DEF ServedInv
  <2>8. CASE owners # 1
    <3>1. service' = service /\ uses' = uses /\ at'[o] = "closed"
      BY <2>8 DEF Release, LastOwner, Go, ServedInv, LocalTypeOK
    <3>2. OpenIsServed'
      <4>1. owners' # 0 /\ service' # Null
        BY <1>1, <2>2, <2>3, <2>8, <3>1, ServiceNumbers
      <4>2. \A p \in Owners : Served(p)' => Served(p)
        BY <2>5 DEF ServedOwners
      <4>3. QED
        BY <1>1, <1>4, <2>1, <2>3, <2>6, <3>1, <4>1, <4>2
        DEF OpenIsServed, ServedOwners, ServedInv
    <3>3. StartsAlone' /\ StopsApart' /\ ClosesLocal' /\ CleanedUp'
      BY <1>1, <1>4, <2>4, <3>1
      DEF StartsAlone, StopsApart, ClosesLocal, CleanedUp, ServedInv, Begun
    <3>4. QED
      BY <1>2, <3>2, <3>3 DEF ServedInv
  <2>9. QED
    BY <2>7, <2>8
<1>5. QED
  BY <1>3, <1>4

LEMMA CloseServed ==
  ASSUME ServedInv, NEW o \in Owners, Close(o)
  PROVE  ServedInv'
<1>1. /\ at[o] = "open" /\ at'[o] = IF uses[o] = Configured THEN "closed" ELSE "closing"
      /\ \A p \in Owners \ {o} : at'[p] = at[p]
      /\ uses' = uses /\ service' = service /\ owners' = owners /\ lock' = lock
      /\ server' = server /\ process' = process
  BY DEF Close, Go, ServedInv, LocalTypeOK
<1>2. LocalTypeOK'
  BY DEF ServedInv, LocalTypeOK, Close, Go, Places
<1>3. ServedOwners' = ServedOwners
  BY <1>1 DEF ServedOwners, Served
<1>4. OpenIsServed'
  <2>1. \A p \in Owners : Served(p)' => Served(p)
    BY <1>3 DEF ServedOwners
  <2>2. QED
    BY <1>1, <1>3, <2>1 DEF OpenIsServed, ServedInv, ServedOwners
<1>5. StartsAlone'
  BY <1>1 DEF StartsAlone, ServedInv, LocalTypeOK, Begun
<1>6. StopsApart' /\ ClosesLocal' /\ CleanedUp'
  BY <1>1 DEF StopsApart, ClosesLocal, CleanedUp, ServedInv, Begun
<1>7. QED
  BY <1>2, <1>4, <1>5, <1>6 DEF ServedInv

LEMMA StopServed ==
  ASSUME ServedInv, NEW o \in Owners, Stop(o) \/ JoinReturns(o)
  PROVE  ServedInv'
<1>1. /\ at[o] \in {"taken", "joining"} /\ at'[o] \in {"joining", "closed"}
      /\ \A p \in Owners \ {o} : at'[p] = at[p]
      /\ uses' = uses /\ service' = service /\ owners' = owners /\ lock' = lock
      /\ process' = process
      /\ \A n \in Services : server[n] # "none" => server'[n] # "none"
  BY DEF Stop, JoinReturns, Go, AskToExit, ServedInv, LocalTypeOK
<1>2. LocalTypeOK'
  BY DEF ServedInv, LocalTypeOK, Stop, JoinReturns, Go, AskToExit, Places
<1>3. service # Null => server'[service] = server[service]
  BY DEF Stop, JoinReturns, AskToExit, ServedInv, StopsApart, LocalTypeOK
<1>4. ServedOwners' = ServedOwners
  BY <1>1 DEF ServedOwners, Served
<1>5. OpenIsServed'
  <2>1. \A p \in Owners : Served(p)' => Served(p)
    BY <1>4 DEF ServedOwners
  <2>2. process # "cleaned" => \A p \in Owners : Served(p) => service # Null
    <3>1. ASSUME process # "cleaned", NEW p \in Owners, Served(p)
          PROVE  service # Null
      <4>1. owners = Cardinality(ServedOwners) /\ ServedOwners # {}
        BY <3>1 DEF ServedInv, OpenIsServed, ServedOwners
      <4>2. QED
        BY <3>1, <4>1, ServedFinite DEF ServedInv, OpenIsServed
    <3>2. QED
      BY <3>1
  <2>3. QED
    BY <1>1, <1>3, <1>4, <2>1, <2>2 DEF OpenIsServed, ServedInv, ServedOwners
<1>6. StartsAlone'
  BY <1>1 DEF StartsAlone, ServedInv, LocalTypeOK, Begun
<1>7. StopsApart' /\ ClosesLocal' /\ CleanedUp'
  BY <1>1 DEF StopsApart, ClosesLocal, CleanedUp, ServedInv, Begun
<1>8. QED
  BY <1>2, <1>5, <1>6, <1>7 DEF ServedInv

LEMMA ServerServed ==
  ASSUME ServedInv, NEW n \in Services, ServerComesUp(n) \/ ServerEnds(n)
  PROVE  ServedInv'
<1>1. /\ at' = at /\ uses' = uses /\ service' = service /\ owners' = owners
      /\ lock' = lock /\ process' = process
      /\ \A m \in Services : /\ server[m] # "none" => server'[m] # "none"
                             /\ server[m] = "up" => server'[m] = "up"
  BY DEF ServerComesUp, ServerEnds, ServedInv, LocalTypeOK
<1>2. LocalTypeOK'
  BY DEF ServedInv, LocalTypeOK, ServerComesUp, ServerEnds
<1>3. ServedOwners' = ServedOwners
  BY <1>1 DEF ServedOwners, Served
<1>4. OpenIsServed'
  <2>1. \A p \in Owners : Served(p)' => Served(p)
    BY <1>3 DEF ServedOwners
  <2>2. process # "cleaned" => \A p \in Owners : Served(p) => service \in Services
    <3>1. ASSUME process # "cleaned", NEW p \in Owners, Served(p)
          PROVE  service \in Services
      <4>1. owners = Cardinality(ServedOwners) /\ ServedOwners # {}
        BY <3>1 DEF ServedInv, OpenIsServed, ServedOwners
      <4>2. QED
        BY <3>1, <4>1, ServedFinite DEF ServedInv, OpenIsServed, LocalTypeOK
    <3>2. QED
      BY <3>1
  <2>3. QED
    BY <1>1, <1>3, <2>1, <2>2 DEF OpenIsServed, ServedInv, ServedOwners
<1>5. StartsAlone' /\ StopsApart' /\ ClosesLocal' /\ CleanedUp'
  BY <1>1 DEF StartsAlone, StopsApart, ClosesLocal, CleanedUp, ServedInv, Begun
<1>6. QED
  BY <1>2, <1>4, <1>5 DEF ServedInv

LEMMA ExitServed ==
  ASSUME ServedInv, Exit \/ AtExit  PROVE ServedInv'
<1>1. CASE Exit
  <2>1. /\ at' = at /\ uses' = uses /\ service' = service /\ owners' = owners
        /\ lock' = lock /\ server' = server /\ process = "running"
        /\ process' = "exiting"
        /\ \A o \in Owners : at[o] \notin {"starting", "abandoning"}
    BY <1>1 DEF Exit
  <2>2. ServedOwners' = ServedOwners
    BY <2>1 DEF ServedOwners, Served
  <2>3. OpenIsServed'
    BY <2>1, <2>2 DEF OpenIsServed, ServedInv, ServedOwners, Served
  <2>4. LocalTypeOK' /\ StartsAlone' /\ StopsApart' /\ ClosesLocal' /\ CleanedUp'
    BY <2>1
    DEF LocalTypeOK, StartsAlone, StopsApart, ClosesLocal, CleanedUp, ServedInv, Begun
  <2>5. QED
    BY <2>3, <2>4 DEF ServedInv
<1>2. CASE AtExit
  <2>1. /\ at' = at /\ uses' = uses /\ lock' = lock /\ lock = Null
        /\ service' = Null /\ owners' = 0 /\ process' = "cleaned"
        /\ \A o \in Owners : at[o] \notin {"starting", "abandoning"}
    BY <1>2, OwnersTyped DEF AtExit, Cleanup, ServedInv, StartsAlone
  <2>2. LocalTypeOK' /\ \A n \in Services : server[n] # "none" => server'[n] # "none"
    BY <1>2 DEF ServedInv, LocalTypeOK, AtExit, Cleanup, AskToExit
  <2>3. StopsApart'
    BY <2>1, <2>2, ServiceNumbers DEF StopsApart, ServedInv, Begun
  <2>4. OpenIsServed' /\ StartsAlone' /\ ClosesLocal' /\ CleanedUp'
    BY <2>1 DEF OpenIsServed, StartsAlone, ClosesLocal, CleanedUp, ServedInv
  <2>5. QED
    BY <2>2, <2>3, <2>4 DEF ServedInv
<1>3. QED
  BY <1>1, <1>2

LEMMA LocalUnchanged == ServedInv /\ UNCHANGED localVars => ServedInv'
<1> SUFFICES ASSUME ServedInv, UNCHANGED localVars PROVE ServedInv'
  OBVIOUS
<1>1. /\ at' = at /\ uses' = uses /\ service' = service /\ owners' = owners
      /\ lock' = lock /\ server' = server /\ process' = process
  BY DEF localVars
<1>2. ServedOwners' = ServedOwners
  BY <1>1 DEF ServedOwners, Served
<1>3. OpenIsServed'
  BY <1>1, <1>2 DEF OpenIsServed, ServedInv, ServedOwners, Served
<1>4. LocalTypeOK' /\ StartsAlone' /\ StopsApart' /\ ClosesLocal' /\ CleanedUp'
  BY <1>1
  DEF LocalTypeOK, StartsAlone, StopsApart, ClosesLocal, CleanedUp, ServedInv, Begun
<1>5. QED
  BY <1>3, <1>4 DEF ServedInv

LEMMA ServedStep == ServedInv /\ [Next]_vars => ServedInv'
<1>1. SUFFICES ASSUME ServedInv, [Next]_vars PROVE ServedInv'
  OBVIOUS
<1>2. ASSUME NEW o \in Owners,
             \/ UseConfigured(o) \/ AcquireRunning(o) \/ AcquireStarts(o)
             \/ OwnerStep(o) \/ Close(o)
      PROVE  ServedInv'
  BY <1>1, <1>2, AcquireServed, StartServed, ReleaseServed, CloseServed, StopServed
  DEF OwnerStep
<1>3. ASSUME NEW n \in Services, ServerComesUp(n) \/ ServerEnds(n)
      PROVE  ServedInv'
  BY <1>1, <1>3, ServerServed
<1>4. CASE Exit \/ AtExit
  BY <1>1, <1>4, ExitServed
<1>5. ASSUME NEW r \in Runners,
             \/ Submit(r) \/ ExecutionStep(r) \/ DeadlinePasses(r)
             \/ ServiceAnswers(r) \/ ServiceCancels(r) \/ ServiceForgets(r)
      PROVE  ServedInv'
  <2>1. UNCHANGED localVars
    BY <1>5
    DEF Submit, ExecutionStep, ReadPage, ReadStatus, RequestFails, Wake, GiveUp,
        DeadlinePasses, ServiceAnswers, ServiceCancels, ServiceForgets
  <2>2. QED
    BY <1>1, <2>1, LocalUnchanged
<1>6. CASE UNCHANGED vars
  BY <1>1, <1>6, LocalUnchanged DEF vars
<1>7. QED
  BY <1>1, <1>2, <1>3, <1>4, <1>5, <1>6 DEF Next

(* Between acquire and release the local service of an owner is up and is  *)
(* the current one, and the count is that of its owners                    *)
(* (acquire_local_service and release_local_service), for any number of    *)
(* owners, whatever starts fail and whichever stops overlap with starts.   *)
THEOREM OpenOwnersServed == Spec => []OpenIsServed
<1>1. ServedInv => OpenIsServed
  BY DEF ServedInv
<1>2. QED
  BY <1>1, ServedInit, ServedStep, PTL DEF Spec

-----------------------------------------------------------------------------
(* What an execution is told.  The log of a batch answers each model once, *)
(* only appends, and is complete when the batch is announced; the steps of *)
(* the service are those of JobContract.                                   *)

Verdict == {"succeeded", "failed", "cancelled"}
Entry == [model : 1..MaxModels, verdict : Verdict]

Logged(r) ==
  /\ log[r] \in Seq(Entry)
  /\ \A k, m \in 1..Len(log[r]) : log[r][k].model = log[r][m].model => k = m
  /\ \A k \in 1..Len(log[r]) : log[r][k].model \in 1..accepted[r]
  /\ r \in announced => /\ accepted[r] > 0
                        /\ Jobs!ModelsIn(log[r]) = 1..accepted[r]

Answered(r) == accepted[r] > 0 /\ Jobs!ModelsIn(log[r]) = 1..accepted[r]

HasVerdict(r, v) == \E i \in 1..Len(log[r]) : log[r][i].verdict = v

Told(r) ==
  /\ call[r] # "omitted"
  /\ call[r] \in {"returned", "batch_error", "cancelled"} => Answered(r)
  /\ call[r] = "returned" => ~HasVerdict(r, "failed") /\ ~HasVerdict(r, "cancelled")
  /\ call[r] = "batch_error" => HasVerdict(r, "failed") /\ ~HasVerdict(r, "cancelled")
  /\ call[r] = "cancelled" => HasVerdict(r, "cancelled")

ClientTypeOK ==
  /\ call \in [Runners -> {"none"} \cup Waiting \cup Results]
  /\ cursor \in [Runners -> Nat] /\ DOMAIN seen = Runners
  /\ late \in [Runners -> BOOLEAN]
  /\ accepted \in [Runners -> 0..MaxModels] /\ DOMAIN log = Runners

ReadsOnce(r) == cursor[r] <= Len(log[r]) /\ OutcomesOnce(r)

ToldInv ==
  /\ ClientTypeOK
  /\ \A r \in Runners : Logged(r) /\ ReadsOnce(r) /\ Told(r)

(* A log that answers each model once is no longer than the batch, and has *)
(* its length when it is complete.                                         *)
LEMMA LogLength ==
  ASSUME ClientTypeOK, NEW r \in Runners, Logged(r)
  PROVE  /\ Len(log[r]) \in Nat /\ Len(log[r]) <= accepted[r]
         /\ accepted[r] \in Nat /\ accepted[r] <= MaxModels
<1>1. /\ log[r] \in Seq(Entry) /\ Len(log[r]) \in Nat
      /\ accepted[r] \in Nat /\ accepted[r] <= MaxModels
  BY RunnerAssumption, LenProperties DEF Logged, ClientTypeOK
<1> DEFINE f == [k \in 1..Len(log[r]) |-> log[r][k].model]
<1>2. f \in Injection(1..Len(log[r]), 1..accepted[r])
  BY <1>1 DEF Logged, Injection, IsInjective
<1>3. /\ IsFiniteSet(1..accepted[r]) /\ Cardinality(1..accepted[r]) = accepted[r]
      /\ Cardinality(1..Len(log[r])) = Len(log[r])
  <2>1. \A n \in Nat : IsFiniteSet(1..n) /\ Cardinality(1..n) = n
    BY FS_Interval
  <2>2. QED
    BY <1>1, <2>1
<1> HIDE DEF f
<1>4. Cardinality(1..Len(log[r])) <= Cardinality(1..accepted[r])
  BY <1>2, <1>3, FS_Injection
<1>5. QED
  BY <1>1, <1>3, <1>4

(* What has been read grows by the page that follows the cursor.           *)
LEMMA PageFollows ==
  ASSUME NEW S, NEW l \in Seq(S), NEW c \in Nat, c <= Len(l)
  PROVE  SubSeq(l, 1, c) \o SubSeq(l, c + 1, Len(l)) = SubSeq(l, 1, Len(l))
<1>1. Len(l) \in Nat
  BY LenProperties
<1>2. 1 \in 1..Len(l) + 1 /\ c \in (1 - 1)..Len(l) /\ Len(l) \in c..Len(l)
  BY <1>1
<1>3. QED
  BY <1>2, ConcatAdjacentSubSeq

(* Appending to a log leaves its beginning alone.                          *)
LEMMA PrefixKept ==
  ASSUME NEW S, NEW l \in Seq(S), NEW T, NEW new \in Seq(T), NEW c \in Nat,
         c <= Len(l), SubSeq(new, 1, Len(l)) = l, Len(l) <= Len(new)
  PROVE  SubSeq(new, 1, c) = SubSeq(l, 1, c)
<1>1. Len(l) \in Nat /\ Len(new) \in Nat
  BY LenProperties
<1>2. \A i \in 1..Len(l) : new[i] = l[i]
  BY <1>1, SubSeqProperties, ElementOfSeq
<1>3. QED
  BY <1>1, <1>2

LEMMA ToldInit == Init => ToldInv
<1> SUFFICES ASSUME Init PROVE ToldInv
  OBVIOUS
<1>1. ClientTypeOK
  BY RunnerAssumption DEF Init, ClientTypeOK, Jobs!ContractInit
<1>2. ASSUME NEW r \in Runners  PROVE Logged(r) /\ ReadsOnce(r) /\ Told(r)
  <2>1. log[r] = <<>> /\ announced = {} /\ cursor[r] = 0 /\ seen[r] = <<>>
        /\ call[r] = "none"
    BY DEF Init, Jobs!ContractInit
  <2>2. SubSeq(<<>>, 1, 0) = <<>>
    BY SubSeqEmpty
  <2>3. QED
    BY <2>1, <2>2 DEF Logged, ReadsOnce, OutcomesOnce, Told
<1>3. QED
  BY <1>1, <1>2 DEF ToldInv

(* What a step leaves to a runner that is not concerned.                   *)
LEMMA RunnerSame ==
  ASSUME NEW q \in Runners, Logged(q), ReadsOnce(q), Told(q),
         call'[q] = call[q], cursor'[q] = cursor[q], seen'[q] = seen[q],
         log'[q] = log[q], accepted'[q] = accepted[q],
         q \in announced' => q \in announced
  PROVE  Logged(q)' /\ ReadsOnce(q)' /\ Told(q)'
<1>1. Logged(q)'
  BY DEF Logged, Jobs!ModelsIn
<1>2. ReadsOnce(q)'
  BY DEF ReadsOnce, OutcomesOnce
<1>3. Told(q)'
  BY DEF Told, Answered, HasVerdict, Jobs!ModelsIn
<1>4. QED
  BY <1>1, <1>2, <1>3

(* A runner whose log does not change and that is given no result.         *)
LEMMA RunnerMoves ==
  ASSUME NEW r \in Runners, Logged(r), ReadsOnce(r)', ClientTypeOK',
         log'[r] = log[r], accepted'[r] = accepted[r], announced' = announced,
         call'[r] \notin {"omitted", "returned", "batch_error", "cancelled"}
  PROVE  Logged(r)' /\ Told(r)'
  BY DEF Logged, Told, Jobs!ModelsIn

LEMMA SubmitTold ==
  ASSUME ToldInv, NEW r \in Runners, Submit(r)
  PROVE  ToldInv'
<1>1. ClientTypeOK /\ \A q \in Runners : Logged(q) /\ ReadsOnce(q) /\ Told(q)
  BY DEF ToldInv
<1>2. /\ call[r] = "none" /\ call'[r] \in {"page", "failed"}
      /\ \A q \in Runners \ {r} : call'[q] = call[q]
      /\ cursor' = cursor /\ seen' = seen /\ late' = late /\ log' = log
      /\ announced' = announced
      /\ \/ accepted' = accepted
         \/ /\ accepted[r] = 0
            /\ \E n \in 1..MaxModels : accepted' = [accepted EXCEPT ![r] = n]
  BY <1>1 DEF Submit, Becomes, ClientTypeOK, Jobs!Accept
<1>3. ClientTypeOK'
  BY <1>1, <1>2, RunnerAssumption DEF ClientTypeOK, Submit, Becomes, Waiting, Results
<1>4. ReadsOnce(r)'
  BY <1>1, <1>2 DEF ReadsOnce, OutcomesOnce
<1>5. Logged(r)' /\ Told(r)'
  <2>1. CASE accepted' = accepted
    BY <1>1, <1>2, <1>3, <1>4, <2>1, RunnerMoves
  <2>2. CASE accepted[r] = 0
    <3>1. Len(log[r]) = 0
      BY <1>1, <2>2, LogLength
    <3>2. r \notin announced
      BY <1>1, <2>2 DEF Logged
    <3>3. QED
      BY <1>1, <1>2, <3>1, <3>2 DEF Logged, Told
  <2>3. QED
    BY <1>2, <2>1, <2>2
<1>6. ASSUME NEW q \in Runners \ {r}  PROVE Logged(q)' /\ ReadsOnce(q)' /\ Told(q)'
  <2>1. accepted'[q] = accepted[q]
    BY <1>1, <1>2 DEF ClientTypeOK
  <2>2. QED
    BY <1>1, <1>2, <2>1, RunnerSame
<1>7. QED
  BY <1>3, <1>4, <1>5, <1>6 DEF ToldInv

(* Ending an execution without a result.                                   *)
LEMMA EndsTold ==
  ASSUME ToldInv, NEW r \in Runners, NEW result \in {"failed", "timed_out"},
         Ends(r, result), UNCHANGED jobVars
  PROVE  ToldInv'
<1>1. ClientTypeOK /\ \A q \in Runners : Logged(q) /\ ReadsOnce(q) /\ Told(q)
  BY DEF ToldInv
<1>2. /\ call'[r] = result /\ cursor'[r] = 0 /\ seen'[r] = <<>>
      /\ \A q \in Runners \ {r} : /\ call'[q] = call[q] /\ cursor'[q] = cursor[q]
                                  /\ seen'[q] = seen[q]
      /\ log' = log /\ accepted' = accepted /\ announced' = announced
  BY <1>1 DEF Ends, Becomes, ClientTypeOK, jobVars
<1>3. ClientTypeOK'
  BY <1>1, <1>2 DEF ClientTypeOK, Ends, Becomes, Waiting, Results
<1>4. ReadsOnce(r)'
  BY <1>1, <1>2, LogLength, SubSeqEmpty DEF ReadsOnce, OutcomesOnce
<1>5. Logged(r)' /\ Told(r)'
  BY <1>1, <1>2, <1>3, <1>4, RunnerMoves
<1>6. ASSUME NEW q \in Runners \ {r}  PROVE Logged(q)' /\ ReadsOnce(q)' /\ Told(q)'
  BY <1>1, <1>2, RunnerSame
<1>7. QED
  BY <1>3, <1>4, <1>5, <1>6 DEF ToldInv

LEMMA ReadPageTold ==
  ASSUME ToldInv, NEW r \in Runners, ReadPage(r)
  PROVE  ToldInv'
<1>1. ClientTypeOK /\ \A q \in Runners : Logged(q) /\ ReadsOnce(q) /\ Told(q)
  BY DEF ToldInv
<1>2. /\ call'[r] = "status" /\ cursor'[r] = Len(log[r])
      /\ seen'[r] = seen[r] \o SubSeq(log[r], cursor[r] + 1, Len(log[r]))
      /\ \A q \in Runners \ {r} : /\ call'[q] = call[q] /\ cursor'[q] = cursor[q]
                                  /\ seen'[q] = seen[q]
      /\ log' = log /\ accepted' = accepted /\ announced' = announced /\ late' = late
      /\ DOMAIN seen' = DOMAIN seen
  BY <1>1 DEF ReadPage, Page, Becomes, ClientTypeOK, jobVars
<1>3. Len(log[r]) \in Nat /\ log[r] \in Seq(Entry) /\ cursor[r] \in Nat
      /\ cursor[r] <= Len(log[r]) /\ seen[r] = SubSeq(log[r], 1, cursor[r])
  BY <1>1, LogLength DEF Logged, ClientTypeOK, ReadsOnce, OutcomesOnce
<1>4. ClientTypeOK'
  BY <1>1, <1>2, <1>3 DEF ClientTypeOK, ReadPage, Becomes, Waiting
<1>5. ReadsOnce(r)'
  <2>1. SubSeq(log[r], 1, cursor[r]) \o SubSeq(log[r], cursor[r] + 1, Len(log[r]))
          = SubSeq(log[r], 1, Len(log[r]))
    BY <1>3, PageFollows
  <2>2. seen'[r] = SubSeq(log[r], 1, Len(log[r]))
    BY <1>2, <1>3, <2>1
  <2>3. cursor'[r] <= Len(log'[r]) /\ seen'[r] = SubSeq(log'[r], 1, cursor'[r])
    <3>1. log'[r] = log[r] /\ cursor'[r] = Len(log[r])
      BY <1>2
    <3>2. QED
      BY <1>3, <2>2, <3>1
  <2>4. QED
    BY <2>3 DEF ReadsOnce, OutcomesOnce
<1>6. Logged(r)' /\ Told(r)'
  BY <1>1, <1>2, <1>4, <1>5, RunnerMoves
<1>7. ASSUME NEW q \in Runners \ {r}  PROVE Logged(q)' /\ ReadsOnce(q)' /\ Told(q)'
  BY <1>1, <1>2, RunnerSame
<1>8. QED
  BY <1>4, <1>5, <1>6, <1>7 DEF ToldInv

(* What execute makes of a terminal batch it has read to the end.          *)
LEMMA OutcomeTold ==
  ASSUME ClientTypeOK, NEW r \in Runners, Logged(r), ReadsOnce(r),
         r \in announced, ~(cursor[r] < accepted[r])
  PROVE  /\ Answered(r)
         /\ WasCancelled(r) <=> HasVerdict(r, "cancelled")
         /\ ~WasCancelled(r) =>
              /\ Outcome(r) \in {"returned", "batch_error"}
              /\ Outcome(r) = "batch_error" <=> HasVerdict(r, "failed")
<1>1. /\ Answered(r) /\ log[r] \in Seq(Entry) /\ DOMAIN log[r] = 1..Len(log[r])
      /\ Len(log[r]) \in Nat /\ accepted[r] \in Nat /\ cursor[r] \in Nat
  BY LogLength, LenProperties DEF Logged, Answered, ClientTypeOK
<1>2. WasCancelled(r) <=> HasVerdict(r, "cancelled")
  BY <1>1 DEF WasCancelled, HasVerdict
<1>3. seen[r] = log[r]
  <2>1. cursor[r] = Len(log[r])
    BY <1>1, LogLength DEF ReadsOnce
  <2>2. QED
    BY <1>1, <2>1, SubSeqFull DEF ReadsOnce, OutcomesOnce
<1>4. \A v : SeenAs(r, v) =
               {log[r][i].model : i \in {j \in 1..Len(log[r]) : log[r][j].verdict = v}}
  BY <1>1, <1>3 DEF SeenAs
<1> DEFINE good == SeenAs(r, "succeeded")
           bad == SeenAs(r, "failed")
<1>5. ASSUME ~WasCancelled(r)
      PROVE  good \cup bad = 1..accepted[r]
  <2>1. \A i \in 1..Len(log[r]) : log[r][i].verdict \in {"succeeded", "failed"}
    <3>1. \A i \in 1..Len(log[r]) : log[r][i] \in Entry
      BY <1>1, ElementOfSeq
    <3>2. QED
      BY <1>1, <1>5, <3>1 DEF WasCancelled, Entry, Verdict
  <2>2. 1..accepted[r] = {log[r][i].model : i \in 1..Len(log[r])}
    BY <1>1 DEF Answered, Jobs!ModelsIn
  <2>3. QED
    BY <1>4, <2>1, <2>2
<1>6. good \cap bad = {}
  BY <1>4 DEF Logged
<1>7. good \in SUBSET (1..accepted[r]) /\ bad \in SUBSET (1..accepted[r])
  BY <1>4 DEF Logged
<1>8. /\ IsFiniteSet(good) /\ IsFiniteSet(bad)
      /\ Cardinality(good) \in Nat /\ Cardinality(bad) \in Nat
      /\ Cardinality(bad) > 0 <=> bad # {}
      /\ Cardinality(1..accepted[r]) = accepted[r]
  <2>1. IsFiniteSet(1..accepted[r]) /\ Cardinality(1..accepted[r]) = accepted[r]
    <3>1. \A n \in Nat : IsFiniteSet(1..n) /\ Cardinality(1..n) = n
      BY FS_Interval
    <3>2. QED
      BY <1>1, <3>1
  <2>2. IsFiniteSet(good) /\ IsFiniteSet(bad)
    BY <1>7, <2>1, FS_Subset
  <2>3. Cardinality(good) \in Nat /\ Cardinality(bad) \in Nat
    BY <2>2, FS_CardinalityType
  <2>4. Cardinality(bad) = 0 <=> bad = {}
    BY <2>2, FS_EmptySet
  <2>5. QED
    BY <2>1, <2>2, <2>3, <2>4
<1>9. bad # {} <=> HasVerdict(r, "failed")
  <2>1. bad = {log[r][i].model :
                 i \in {j \in 1..Len(log[r]) : log[r][j].verdict = "failed"}}
    BY <1>4
  <2>2. bad # {} <=> {j \in 1..Len(log[r]) : log[r][j].verdict = "failed"} # {}
    BY <2>1
  <2>3. QED
    BY <2>2 DEF HasVerdict
<1>10. ASSUME ~WasCancelled(r)
       PROVE  Cardinality(good) + Cardinality(bad) = accepted[r]
  <2>1. Cardinality(good \cup bad)
          = Cardinality(good) + Cardinality(bad) - Cardinality(good \cap bad)
    BY <1>8, FS_Union
  <2>2. Cardinality(good \cap bad) = 0
    BY <1>6, FS_EmptySet
  <2>3. Cardinality(good \cup bad) = accepted[r]
    BY <1>5, <1>8, <1>10
  <2> HIDE DEF good, bad
  <2>4. QED
    BY <1>8, <2>1, <2>2, <2>3
<1>11. ASSUME ~WasCancelled(r)
       PROVE  /\ Outcome(r) \in {"returned", "batch_error"}
              /\ Outcome(r) = "batch_error" <=> HasVerdict(r, "failed")
  BY <1>8, <1>9, <1>10, <1>11 DEF Outcome
<1>12. QED
  BY <1>1, <1>2, <1>11

LEMMA ReadStatusTold ==
  ASSUME ToldInv, NEW r \in Runners, ReadStatus(r)
  PROVE  ToldInv'
<1>1. ClientTypeOK /\ \A q \in Runners : Logged(q) /\ ReadsOnce(q) /\ Told(q)
  BY DEF ToldInv
<1>2. log' = log /\ accepted' = accepted /\ announced' = announced
  BY DEF ReadStatus, jobVars
<1>3. CASE AfterStatus(r) \in Waiting
  <2>1. /\ call'[r] \in Waiting /\ \A q \in Runners \ {r} : call'[q] = call[q]
        /\ cursor' = cursor /\ seen' = seen /\ late' = late
    BY <1>1, <1>3 DEF ReadStatus, Becomes, ClientTypeOK
  <2>2. ClientTypeOK'
    BY <1>1, <1>2, <1>3, <2>1 DEF ReadStatus, Becomes, ClientTypeOK
  <2>3. ReadsOnce(r)'
    BY <1>1, <1>2, <2>1 DEF ReadsOnce, OutcomesOnce
  <2>4. Logged(r)' /\ Told(r)'
    BY <1>1, <1>2, <2>1, <2>2, <2>3, RunnerMoves DEF Waiting
  <2>5. ASSUME NEW q \in Runners \ {r}  PROVE Logged(q)' /\ ReadsOnce(q)' /\ Told(q)'
    BY <1>1, <1>2, <2>1, RunnerSame
  <2>6. QED
    BY <2>2, <2>3, <2>4, <2>5 DEF ToldInv
<1>4. CASE AfterStatus(r) \notin Waiting
  <2>1. r \in announced /\ ~(cursor[r] < accepted[r])
    BY <1>4 DEF AfterStatus, Waiting
  <2>2. /\ Answered(r)
        /\ WasCancelled(r) <=> HasVerdict(r, "cancelled")
        /\ ~WasCancelled(r) =>
             /\ Outcome(r) \in {"returned", "batch_error"}
             /\ Outcome(r) = "batch_error" <=> HasVerdict(r, "failed")
    BY <1>1, <2>1, OutcomeTold
  <2>3. AfterStatus(r) = IF WasCancelled(r) THEN "cancelled" ELSE Outcome(r)
    BY <2>1 DEF AfterStatus
  <2>4. Ends(r, AfterStatus(r))
    BY <1>4 DEF ReadStatus
  <2>5. /\ call'[r] = AfterStatus(r) /\ cursor'[r] = 0 /\ seen'[r] = <<>>
        /\ \A q \in Runners \ {r} : /\ call'[q] = call[q] /\ cursor'[q] = cursor[q]
                                    /\ seen'[q] = seen[q]
    BY <1>1, <2>4 DEF Ends, Becomes, ClientTypeOK
  <2>6. AfterStatus(r) \in {"cancelled", "returned", "batch_error"}
    BY <2>2, <2>3
  <2>7. ClientTypeOK'
    BY <1>1, <1>2, <2>4, <2>6 DEF ClientTypeOK, Ends, Becomes, Results
  <2>8. ReadsOnce(r)'
    BY <1>1, <1>2, <2>5, LogLength, SubSeqEmpty DEF ReadsOnce, OutcomesOnce
  <2>9. Logged(r)'
    BY <1>1, <1>2 DEF Logged, Jobs!ModelsIn
  <2>10. Told(r)'
    <3>1. Answered(r)' /\ \A v : HasVerdict(r, v)' <=> HasVerdict(r, v)
      BY <1>2, <2>2 DEF Answered, HasVerdict, Jobs!ModelsIn
    <3>2. QED
      BY <2>2, <2>3, <2>5, <2>6, <3>1 DEF Told
  <2>11. ASSUME NEW q \in Runners \ {r}  PROVE Logged(q)' /\ ReadsOnce(q)' /\ Told(q)'
    BY <1>1, <1>2, <2>5, RunnerSame
  <2>12. QED
    BY <2>7, <2>8, <2>9, <2>10, <2>11 DEF ToldInv
<1>5. QED
  BY <1>3, <1>4

LEMMA WaitTold ==
  ASSUME ToldInv, NEW r \in Runners, Wake(r) \/ DeadlinePasses(r)
  PROVE  ToldInv'
<1>1. ClientTypeOK /\ \A q \in Runners : Logged(q) /\ ReadsOnce(q) /\ Told(q)
  BY DEF ToldInv
<1>2. /\ call'[r] \in Waiting /\ \A q \in Runners \ {r} : call'[q] = call[q]
      /\ cursor' = cursor /\ seen' = seen
      /\ log' = log /\ accepted' = accepted /\ announced' = announced
  BY <1>1 DEF Wake, DeadlinePasses, Becomes, ClientTypeOK, jobVars, Waiting
<1>3. ClientTypeOK'
  BY <1>1, <1>2 DEF Wake, DeadlinePasses, Becomes, ClientTypeOK, Waiting
<1>4. ReadsOnce(r)'
  BY <1>1, <1>2 DEF ReadsOnce, OutcomesOnce
<1>5. Logged(r)' /\ Told(r)'
  BY <1>1, <1>2, <1>3, <1>4, RunnerMoves DEF Waiting
<1>6. ASSUME NEW q \in Runners \ {r}  PROVE Logged(q)' /\ ReadsOnce(q)' /\ Told(q)'
  BY <1>1, <1>2, RunnerSame
<1>7. QED
  BY <1>3, <1>4, <1>5, <1>6 DEF ToldInv

(* A step of the service that answers models of the batch of r.            *)
LEMMA AnswerTold ==
  ASSUME ToldInv, NEW r \in Runners, call[r] \in Waiting,
         log'[r] \in Seq(Entry), Len(log[r]) <= Len(log'[r]),
         Jobs!Answer(r), UNCHANGED clientVars
  PROVE  ToldInv'
<1>1. ClientTypeOK /\ \A q \in Runners : Logged(q) /\ ReadsOnce(q) /\ Told(q)
  BY DEF ToldInv
<1>2. /\ call' = call /\ cursor' = cursor /\ seen' = seen /\ late' = late
      /\ accepted' = accepted
      /\ DOMAIN log' = DOMAIN log
      /\ \A q \in Runners \ {r} : log'[q] = log[q]
      /\ \A q \in Runners \ {r} : q \in announced' => q \in announced
      /\ r \in announced' =>
           accepted[r] > 0 /\ Jobs!ModelsIn(log'[r]) = 1..accepted[r]
      /\ SubSeq(log'[r], 1, Len(log[r])) = log[r]
      /\ \A k, m \in 1..Len(log'[r]) :
           log'[r][k].model = log'[r][m].model => k = m
      /\ Jobs!ModelsIn(log'[r]) \subseteq 1..accepted[r]
  BY <1>1 DEF Jobs!Answer, clientVars, ClientTypeOK
<1>3. ClientTypeOK'
  BY <1>1, <1>2 DEF ClientTypeOK
<1>4. Logged(r)'
  <2>1. DOMAIN log'[r] = 1..Len(log'[r])
    BY LenProperties
  <2>2. \A k \in 1..Len(log'[r]) : log'[r][k].model \in 1..accepted[r]
    BY <1>2, <2>1 DEF Jobs!ModelsIn
  <2>3. QED
    BY <1>2, <2>2 DEF Logged, Jobs!ModelsIn
<1>5. ReadsOnce(r)'
  <2>1. /\ cursor[r] \in Nat /\ cursor[r] <= Len(log[r]) /\ log[r] \in Seq(Entry)
        /\ Len(log[r]) \in Nat /\ Len(log'[r]) \in Nat
    BY <1>1, LogLength, LenProperties DEF ClientTypeOK, ReadsOnce, Logged
  <2>2. SubSeq(log'[r], 1, cursor[r]) = SubSeq(log[r], 1, cursor[r])
    BY <1>2, <2>1, PrefixKept
  <2>3. QED
    BY <1>1, <1>2, <2>1, <2>2 DEF ReadsOnce, OutcomesOnce
<1>6. Told(r)'
  BY <1>2 DEF Told, Waiting
<1>7. ASSUME NEW q \in Runners \ {r}  PROVE Logged(q)' /\ ReadsOnce(q)' /\ Told(q)'
  BY <1>1, <1>2, RunnerSame
<1>8. QED
  BY <1>3, <1>4, <1>5, <1>6, <1>7 DEF ToldInv

LEMMA ServiceAnswersTold ==
  ASSUME ToldInv, NEW r \in Runners, ServiceAnswers(r)
  PROVE  ToldInv'
<1>1. ClientTypeOK /\ Logged(r)
  BY DEF ToldInv
<1>2. PICK i \in OpenModels(r), v \in {"succeeded", "failed"} :
        log' = [log EXCEPT ![r] = Append(@, [model |-> i, verdict |-> v])]
  BY DEF ServiceAnswers
<1>3. i \in 1..MaxModels
  BY <1>1, <1>2, LogLength, RunnerAssumption DEF OpenModels
<1>4. [model |-> i, verdict |-> v] \in Entry
  BY <1>2, <1>3 DEF Entry, Verdict
<1>5. log[r] \in Seq(Entry) /\ log'[r] = Append(log[r], [model |-> i, verdict |-> v])
  BY <1>1, <1>2 DEF Logged, ClientTypeOK
<1>6. log'[r] \in Seq(Entry) /\ Len(log[r]) <= Len(log'[r])
  BY <1>4, <1>5, AppendProperties, LenProperties
<1>7. QED
  BY <1>6, AnswerTold DEF ServiceAnswers

LEMMA ServiceCancelsTold ==
  ASSUME ToldInv, NEW r \in Runners, ServiceCancels(r)
  PROVE  ToldInv'
<1>1. ClientTypeOK /\ Logged(r) /\ log[r] \in Seq(Entry) /\ Len(log[r]) \in Nat
  BY LogLength DEF ToldInv, Logged
<1> DEFINE n == Cardinality(OpenModels(r))
           next == [i \in 1..n |->
                     [model |-> CHOOSE m \in OpenModels(r) :
                        Cardinality({p \in OpenModels(r) : p < m}) = i - 1,
                      verdict |-> "cancelled"]]
<1>2. n \in Nat
  <2>1. accepted[r] \in Nat
    BY <1>1, LogLength
  <2>2. IsFiniteSet(1..accepted[r])
    BY <2>1, FS_Interval
  <2>3. IsFiniteSet(OpenModels(r))
    BY <2>2, FS_Subset DEF OpenModels
  <2>4. QED
    BY <2>3, FS_CardinalityType
<1>3. log'[r] = log[r] \o next
  BY <1>1 DEF ServiceCancels, ClientTypeOK
<1>4. \A i \in 1..n : next[i].verdict = "cancelled"
                      /\ next[i] = [model |-> next[i].model, verdict |-> "cancelled"]
  OBVIOUS
<1> DEFINE Any == Entry \cup {next[i] : i \in 1..n}
<1>5. next \in Seq(Any) /\ log[r] \in Seq(Any) /\ Len(next) = n
  <2>1. next \in [1..n -> Any]
    OBVIOUS
  <2> HIDE DEF next, n
  <2>2. next \in Seq(Any) /\ Len(next) = n
    BY <1>2, <2>1
  <2>3. Entry \subseteq Any
    OBVIOUS
  <2> HIDE DEF Any
  <2>4. log[r] \in Seq(Any)
    BY <1>1, <2>3, SeqMonotonic
  <2>5. QED
    BY <2>2, <2>4
<1> HIDE DEF next, n
<1>6. /\ log'[r] \in Seq(Any) /\ Len(log'[r]) = Len(log[r]) + n
      /\ \A i \in 1..Len(log[r]) + n :
           log'[r][i] = IF i <= Len(log[r]) THEN log[r][i] ELSE next[i - Len(log[r])]
  <2> HIDE DEF Any
  <2>1. \A s, t \in Seq(Any) :
          /\ s \o t \in Seq(Any) /\ Len(s \o t) = Len(s) + Len(t)
          /\ \A i \in 1..Len(s) + Len(t) :
               (s \o t)[i] = IF i <= Len(s) THEN s[i] ELSE t[i - Len(s)]
    BY ConcatProperties
  <2> DEFINE now == log[r] \o next
  <2>2. /\ now \in Seq(Any) /\ Len(now) = Len(log[r]) + n
        /\ \A i \in 1..Len(log[r]) + n :
             now[i] = IF i <= Len(log[r]) THEN log[r][i] ELSE next[i - Len(log[r])]
    BY <1>5, <2>1
  <2>3. QED
    BY <1>3, <2>2
<1>7. \A i \in 1..Len(log'[r]) : log'[r][i].model \in 1..accepted[r]
  <2>1. DOMAIN log'[r] = 1..Len(log'[r])
    BY <1>6, LenProperties
  <2>2. QED
    BY <2>1 DEF ServiceCancels, Jobs!Answer, Jobs!ModelsIn
<1>8. \A i \in 1..Len(log'[r]) : log'[r][i] \in Entry
  <2>1. ASSUME NEW i \in 1..Len(log'[r])  PROVE log'[r][i] \in Entry
    <3>1. CASE i <= Len(log[r])
      BY <1>1, <1>2, <1>6, <3>1, ElementOfSeq
    <3>2. CASE ~(i <= Len(log[r]))
      <4>1. i - Len(log[r]) \in 1..n /\ log'[r][i] = next[i - Len(log[r])]
        BY <1>1, <1>2, <1>6, <3>2
      <4>2. /\ log'[r][i] = [model |-> log'[r][i].model, verdict |-> "cancelled"]
            /\ log'[r][i].model \in 1..accepted[r]
        BY <1>4, <1>7, <4>1
      <4>3. log'[r][i].model \in 1..MaxModels
        BY <1>1, <4>2, LogLength, RunnerAssumption
      <4>4. QED
        BY <4>2, <4>3 DEF Entry, Verdict
    <3>3. QED
      BY <3>1, <3>2
  <2>2. QED
    BY <2>1
<1>9. log'[r] \in Seq(Entry)
  <2>1. log'[r] \in [1..Len(log'[r]) -> Entry] /\ Len(log'[r]) \in Nat
    BY <1>6, <1>8, LenProperties
  <2>2. QED
    BY <2>1
<1>10. Len(log[r]) <= Len(log'[r])
  BY <1>1, <1>2, <1>6
<1>11. call[r] \in Waiting /\ Jobs!Answer(r) /\ UNCHANGED clientVars
  BY DEF ServiceCancels
<1>12. QED
  BY <1>9, <1>10, <1>11, AnswerTold

LEMMA ClientUnchanged ==
  ASSUME ToldInv,
         UNCHANGED <<clientVars, accepted, log, announced>>
  PROVE  ToldInv'
<1>1. /\ call' = call /\ cursor' = cursor /\ seen' = seen /\ late' = late
      /\ log' = log /\ accepted' = accepted /\ announced' = announced
  BY DEF clientVars
<1>2. ClientTypeOK'
  BY <1>1 DEF ToldInv, ClientTypeOK
<1>3. ASSUME NEW q \in Runners  PROVE Logged(q)' /\ ReadsOnce(q)' /\ Told(q)'
  BY <1>1, RunnerSame DEF ToldInv
<1>4. QED
  BY <1>2, <1>3 DEF ToldInv

LEMMA ToldStep == ToldInv /\ [Next]_vars => ToldInv'
<1>1. SUFFICES ASSUME ToldInv, [Next]_vars PROVE ToldInv'
  OBVIOUS
<1>2. ASSUME NEW o \in Owners,
             \/ UseConfigured(o) \/ AcquireRunning(o) \/ AcquireStarts(o)
             \/ OwnerStep(o) \/ Close(o)
      PROVE  ToldInv'
  <2>1. UNCHANGED <<clientVars, jobVars>>
    BY <1>2
    DEF UseConfigured, AcquireRunning, AcquireStarts, OwnerStep, StartReturns,
        StartGivesUp, AbandonReturns, Release, Stop, JoinReturns, Close
  <2>2. QED
    BY <1>1, <2>1, ClientUnchanged DEF jobVars
<1>3. ASSUME NEW n \in Services, ServerComesUp(n) \/ ServerEnds(n)
      PROVE  ToldInv'
  BY <1>1, <1>3, ClientUnchanged DEF ServerComesUp, ServerEnds, jobVars
<1>4. CASE Exit \/ AtExit
  BY <1>1, <1>4, ClientUnchanged DEF Exit, AtExit, jobVars
<1>5. ASSUME NEW r \in Runners, ExecutionStep(r)  PROVE ToldInv'
  <2>1. CASE ReadPage(r) \/ ReadStatus(r) \/ Wake(r)
    BY <1>1, <2>1, ReadPageTold, ReadStatusTold, WaitTold
  <2>2. CASE RequestFails(r) \/ GiveUp(r)
    BY <1>1, <2>2, EndsTold DEF RequestFails, GiveUp
  <2>3. QED
    BY <1>5, <2>1, <2>2 DEF ExecutionStep
<1>6. ASSUME NEW r \in Runners,
             \/ Submit(r) \/ DeadlinePasses(r)
             \/ ServiceAnswers(r) \/ ServiceCancels(r)
      PROVE  ToldInv'
  BY <1>1, <1>6, SubmitTold, WaitTold, ServiceAnswersTold, ServiceCancelsTold
<1>7. ASSUME NEW r \in Runners, ServiceForgets(r)  PROVE ToldInv'
  BY <1>1, <1>7, ClientUnchanged DEF ServiceForgets
<1>8. CASE UNCHANGED vars
  BY <1>1, <1>8, ClientUnchanged DEF vars, jobVars
<1>9. QED
  BY <1>1, <1>2, <1>3, <1>4, <1>5, <1>6, <1>7, <1>8 DEF Next

(* In a log that answers each model once, the entry of a model is the one  *)
(* at its place.                                                           *)
LEMMA VerdictsOfLog ==
  ASSUME ClientTypeOK, NEW r \in Runners, Logged(r)
  PROVE  LET entries == {log[r][i] : i \in DOMAIN log[r]}
             verdicts == [m \in Jobs!ModelsIn(log[r]) |->
                           (CHOOSE o \in entries : o.model = m).verdict]
         IN {verdicts[m] : m \in DOMAIN verdicts}
              = {log[r][i].verdict : i \in 1..Len(log[r])}
<1> DEFINE entries == {log[r][i] : i \in DOMAIN log[r]}
           verdicts == [m \in Jobs!ModelsIn(log[r]) |->
                         (CHOOSE o \in entries : o.model = m).verdict]
<1>1. DOMAIN log[r] = 1..Len(log[r])
  BY LenProperties DEF Logged
<1>2. Jobs!ModelsIn(log[r]) = {log[r][i].model : i \in 1..Len(log[r])}
  BY <1>1 DEF Jobs!ModelsIn
<1>3. ASSUME NEW i \in 1..Len(log[r])
      PROVE  verdicts[log[r][i].model] = log[r][i].verdict
  <2>1. log[r][i] \in entries
    BY <1>1
  <2>2. \A o \in entries : o.model = log[r][i].model => o = log[r][i]
    BY <1>1 DEF Logged
  <2> HIDE DEF entries
  <2>3. (CHOOSE o \in entries : o.model = log[r][i].model) = log[r][i]
    BY <2>1, <2>2
  <2>4. QED
    BY <1>2, <2>3
<1>4. DOMAIN verdicts = {log[r][i].model : i \in 1..Len(log[r])}
  BY <1>2
<1> HIDE DEF verdicts
<1>5. {verdicts[m] : m \in DOMAIN verdicts}
        = {log[r][i].verdict : i \in 1..Len(log[r])}
  BY <1>3, <1>4
<1>6. QED
  BY <1>5 DEF verdicts, entries

LEMMA ToldIsTruthful == ToldInv => ResultsTruthful
<1> SUFFICES ASSUME ToldInv, NEW r \in Runners
             PROVE  LET verdicts == [m \in Jobs!ModelsIn(log[r]) |->
                          (CHOOSE o \in {log[r][i] : i \in DOMAIN log[r]} :
                             o.model = m).verdict]
                        complete == DOMAIN verdicts = 1..accepted[r]
                        verdictsSeen == {verdicts[m] : m \in DOMAIN verdicts}
                    IN /\ OutcomesOnce(r)
                       /\ call[r] # "omitted"
                       /\ call[r] = "returned" =>
                            complete /\ verdictsSeen = {"succeeded"}
                       /\ call[r] = "batch_error" =>
                            /\ complete
                            /\ "failed" \in verdictsSeen
                            /\ "cancelled" \notin verdictsSeen
                       /\ call[r] = "cancelled" =>
                            complete /\ "cancelled" \in verdictsSeen
  BY DEF ResultsTruthful
<1> DEFINE entries == {log[r][i] : i \in DOMAIN log[r]}
           verdicts == [m \in Jobs!ModelsIn(log[r]) |->
                         (CHOOSE o \in entries : o.model = m).verdict]
           verdictsSeen == {verdicts[m] : m \in DOMAIN verdicts}
<1>1. ClientTypeOK /\ Logged(r) /\ ReadsOnce(r) /\ Told(r)
  BY DEF ToldInv
<1>2. verdictsSeen = {log[r][i].verdict : i \in 1..Len(log[r])}
  BY <1>1, VerdictsOfLog
<1>3. DOMAIN verdicts = Jobs!ModelsIn(log[r])
  OBVIOUS
<1> HIDE DEF verdictsSeen, verdicts
<1>4. \A v : v \in verdictsSeen <=> HasVerdict(r, v)
  BY <1>2 DEF HasVerdict
<1>5. verdictsSeen \subseteq Verdict
  <2>1. \A i \in 1..Len(log[r]) : log[r][i] \in Entry
    BY <1>1, ElementOfSeq DEF Logged
  <2>2. QED
    BY <1>2, <2>1 DEF Entry
<1>6. ASSUME Answered(r)  PROVE verdictsSeen # {}
  <2>1. 1 \in Jobs!ModelsIn(log[r])
    BY <1>1, <1>6, LogLength DEF Answered
  <2>2. DOMAIN log[r] = 1..Len(log[r])
    BY <1>1, LenProperties DEF Logged
  <2>3. QED
    BY <1>2, <2>1, <2>2 DEF Jobs!ModelsIn
<1>7. /\ OutcomesOnce(r)
      /\ call[r] # "omitted"
      /\ call[r] = "returned" =>
           DOMAIN verdicts = 1..accepted[r] /\ verdictsSeen = {"succeeded"}
      /\ call[r] = "batch_error" =>
           /\ DOMAIN verdicts = 1..accepted[r]
           /\ "failed" \in verdictsSeen /\ "cancelled" \notin verdictsSeen
      /\ call[r] = "cancelled" =>
           DOMAIN verdicts = 1..accepted[r] /\ "cancelled" \in verdictsSeen
  BY <1>1, <1>3, <1>4, <1>5, <1>6 DEF Told, Answered, ReadsOnce, Verdict
<1>8. QED
  BY <1>7 DEF verdictsSeen, verdicts

(* What execute returns or raises is what became of the batch, and on the  *)
(* way it is given every outcome once and in order (the loop of execute in *)
(* client/web/client.py), for batches of any size and any interleaving of  *)
(* its reads with the answers of the service.                              *)
THEOREM ResultsAreTruthful == Spec => []ResultsTruthful
  BY ToldInit, ToldStep, ToldIsTruthful, PTL DEF Spec

(* The variables keep their types; in particular a cursor never passes the *)
(* size of its batch, nor the count of owners their number.                *)
THEOREM RunnerTypes == Spec => []RunnerTypeOK
<1>1. ServedInv /\ ToldInv => RunnerTypeOK
  <2>1. SUFFICES ASSUME ServedInv, ToldInv PROVE RunnerTypeOK
    OBVIOUS
  <2>2. owners \in 0..Cardinality(Owners)
    <3>1. CASE process = "cleaned"
      BY <2>1, <3>1, ServedFinite DEF ServedInv, CleanedUp
    <3>2. CASE process # "cleaned"
      <4>1. owners = Cardinality(ServedOwners)
        BY <2>1, <3>2 DEF ServedInv, OpenIsServed, ServedOwners
      <4>2. QED
        BY <4>1, ServedFinite
    <3>3. QED
      BY <3>1, <3>2
  <2>3. \A r \in Runners : cursor[r] \in 0..MaxModels
    <3>1. ASSUME NEW r \in Runners  PROVE cursor[r] \in 0..MaxModels
      <4>1. /\ cursor[r] \in Nat /\ cursor[r] <= Len(log[r])
            /\ Len(log[r]) \in Nat /\ accepted[r] \in Nat
            /\ Len(log[r]) <= accepted[r] /\ accepted[r] <= MaxModels
        BY <2>1, LogLength DEF ToldInv, ClientTypeOK, ReadsOnce
      <4>2. QED
        BY <4>1, RunnerAssumption
    <3>2. QED
      BY <3>1
  <2>4. QED
    BY <2>1, <2>2, <2>3
    DEF RunnerTypeOK, ServedInv, LocalTypeOK, ToldInv, ClientTypeOK
<1>2. QED
  BY <1>1, ServedInit, ServedStep, ToldInit, ToldStep, PTL DEF Spec

=============================================================================
