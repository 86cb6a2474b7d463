------------------------ MODULE BackupStorageProofs ------------------------
(***************************************************************************)
(* The backup storages of a namespace, for any names, locations, keys,     *)
(* edits and requests at the same time, and any bounds.                    *)
(***************************************************************************)
EXTENDS BackupStorage, TLAPS

\* No two requests about n have run at the same time.
Alone(n) == {n} \notin raced

\* Requests about m and n, or two about one of them, have run at the same time.
Clash(m, n) == {{m, n}, {m}, {n}} \cap raced # {}

\* Requests that run at the same time have been noted.
RacesNoted ==
    \A r, q \in Requests :
        r # q /\ req[r] # Idle /\ req[q] # Idle => {req[r].name, req[q].name} \in raced

\* The object is there for good.
Lives(n) == Exists(n) /\ ~storage[n].deleting

\* Only a storage in use stays when it is deleted.
DeletingUsed == \A n \in Names : Exists(n) /\ storage[n].deleting => storage[n].used

\* A storage that was created lives until somebody deletes it.
CreatedLives == \A n \in created : Alone(n) => Lives(n) /\ secret[n] # None

\* While no call has failed, a storage that lives has a Secret, and no other.
Paired(n) == Lives(n) <=> secret[n] # None

\* So it is between the requests.
RestPaired == \A n \in Names : Alone(n) /\ faults = 0 /\ ~InFlight(n) => Paired(n)

\* No storage but n is at this location, or it has got there in a race.
Free(at, n) ==
    \A m \in Names \ {n} : Exists(m) /\ storage[m].at = at => Clash(m, n)

\* The place that the parameters of a creation name.
Place(p) == [bucket |-> p.bucket, url |-> p.url]

\* What a creation knows of its parameters ...
Creating(r) ==
    LET n == req[r].name
        p == req[r].params
    IN  /\ p \in Complete
        /\ Accessible(Place(p), [ak |-> p.ak, sk |-> p.sk])
        /\ Free(Place(p), n)

\* ... and an update of the storage and its Secret.
Updating(r) ==
    LET n == req[r].name
        p == req[r].params
        at == Moved(storage[n].at, p)
        keys == secret[n].keys
    IN  Exists(n) =>
          /\ Free(at, n)
          /\ secret[n] # None =>
               IF req[r].step = "usecret"
               THEN Accessible(at, [ak |-> Or(p.ak, keys.ak), sk |-> Or(p.sk, keys.sk)])
               ELSE Accessible(at, keys) \/ Empty \in {keys.ak, keys.sk}

\* Where the object and the Secret are while a request is at a step and no
\* call has failed.
PairedAt(n, step) ==
    /\ step = "secret" => ~Exists(n) /\ secret[n] = None
    /\ step = "create" => ~Exists(n) /\ secret[n] # None
    /\ step = "dsecret" => ~Lives(n)
    /\ step \notin {"replace", "cleanup"}
    /\ step \notin {"secret", "create", "dsecret"} => Paired(n)

\* What a request knows of a storage it has been alone with.
Known(r) ==
    LET n == req[r].name
        step == req[r].step
    IN  /\ step \in {"secret", "replace", "create", "cleanup", "delete", "dsecret"}
             => n \notin created
        /\ step \in {"secret", "replace", "create"} => ~Exists(n)
        /\ step = "create" => secret[n] = BackupSecretData(req[r].params)
        /\ step \in {"usecret", "uget", "uput"} => Updating(r)
        /\ faults = 0 => PairedAt(n, step)

\* The inductive invariant.
IndInv ==
    /\ TypeOK
    /\ RacesNoted
    /\ DeletingUsed
    /\ CreatedLives
    /\ RestPaired
    /\ UniqueLocation
    /\ \A r \in Requests : req[r] # Idle =>
         /\ req[r].step \in {"get", "secret", "replace", "create"} => Creating(r)
         /\ Alone(req[r].name) => Known(r)

---------------------------------------------------------------------------

USE BackupStorageAssumption

\* What follows from the types: the kinds of a slot, an object and a Secret.
LEMMA Kinds ==
    ASSUME TypeOK
    PROVE  /\ \A r \in Requests : req[r] # Idle <=> req[r] \in Request
           /\ \A n \in Names : Exists(n) <=> storage[n] \in Object
           /\ \A n \in Names : secret[n] # None <=> secret[n] \in SecretObject
<1>1. Idle \notin Request /\ None \notin Object /\ None \notin SecretObject
  BY DEF Idle, Request, None, Object, SecretObject
<1> QED
  BY <1>1 DEF TypeOK, Exists

\* Races stay noted, and a request that is not alone is not alone afterwards.
LEMMA SetNotes ==
    ASSUME TypeOK, RacesNoted, NEW r \in Requests, NEW new \in Request \cup {Idle},
           Set(r, new), req[r] # Idle => new = Idle \/ new.name = req[r].name
    PROVE  /\ req' = [req EXCEPT ![r] = new]
           /\ req' \in [Requests -> Request \cup {Idle}]
           /\ raced \subseteq raced' /\ raced' \subseteq SUBSET Names
           /\ RacesNoted'
           /\ \A q \in Requests \ {r} :
                req[q] # Idle =>
                  /\ new # Idle => {new.name, req[q].name} \in raced'
                  /\ req[r] # Idle => {req[r].name, req[q].name} \in raced'
<1>1. req' = [req EXCEPT ![r] = new] /\ req' \in [Requests -> Request \cup {Idle}]
  BY DEF Set, TypeOK
<1>2. raced \subseteq raced'
  BY DEF Set
<1>3. \A q \in Requests : req[q] # Idle => req[q].name \in Names
  BY Kinds DEF Request
<1>4. new # Idle => new.name \in Names
  BY DEF Request
<1>5. raced' \subseteq SUBSET Names
  BY <1>3, <1>4 DEF Set, TypeOK
<1>6. ASSUME NEW q \in Requests \ {r}, req[q] # Idle
      PROVE  /\ new # Idle => {new.name, req[q].name} \in raced'
             /\ req[r] # Idle => {req[r].name, req[q].name} \in raced'
  BY <1>2, <1>6 DEF Set, RacesNoted
<1>7. ASSUME NEW p \in Requests, NEW q \in Requests, p # q,
             req'[p] # Idle, req'[q] # Idle
      PROVE  {req'[p].name, req'[q].name} \in raced'
  <2>1. CASE p = r
    BY <1>1, <1>6, <1>7, <2>1 DEF TypeOK
  <2>2. CASE q = r
    <3>1. {new.name, req[p].name} \in raced'
      BY <1>1, <1>6, <1>7, <2>2 DEF TypeOK
    <3>2. {new.name, req[p].name} = {req'[p].name, req'[q].name}
      BY <1>1, <1>7, <2>2 DEF TypeOK
    <3> QED
      BY <3>1, <3>2
  <2>3. CASE p # r /\ q # r
    BY <1>1, <1>2, <1>7, <2>3 DEF TypeOK, RacesNoted
  <2> QED
    BY <2>1, <2>2, <2>3
<1> QED
  BY <1>1, <1>2, <1>5, <1>6, <1>7 DEF RacesNoted

\* Request r makes a step about storage n, after which it is at new.
ActsOn(r, n, new) ==
    /\ Set(r, new)
    /\ req[r] # Idle \/ new # Idle
    /\ req[r] # Idle => req[r].name = n
    /\ new # Idle => new.name = n
    /\ \A m \in Names \ {n} :
         /\ storage'[m] = storage[m] /\ secret'[m] = secret[m]
         /\ m \in created' <=> m \in created
    /\ faults' = 0 => faults = 0

\* What another request knows stays true: it is about another storage, or it is
\* not alone.
LEMMA OtherKnows ==
    ASSUME IndInv, NEW r \in Requests, NEW n \in Names, NEW new \in Request \cup {Idle},
           ActsOn(r, n, new), NEW q \in Requests \ {r}, req[q] # Idle
    PROVE  /\ (req[q].step \in {"get", "secret", "replace", "create"} => Creating(q))'
           /\ Alone(req[q].name)' => Known(q)'
<1>1. PICK m \in Names : m = req[q].name
  BY Kinds DEF IndInv, Request
<1>2. /\ raced \subseteq raced' /\ req'[q] = req[q]
      /\ {n, m} \in raced'
  BY <1>1, SetNotes DEF IndInv, ActsOn, TypeOK
<1>3. ASSUME NEW at, Free(at, m) PROVE Free(at, m)'
  <2>1. ASSUME NEW k \in Names \ {m}, Exists(k)', storage'[k].at = at PROVE Clash(k, m)'
    <3>1. CASE k = n
      BY <1>2, <3>1 DEF Clash
    <3>2. CASE k # n
      <4>1. Exists(k) /\ storage[k].at = at
        BY <2>1, <3>2 DEF ActsOn, Exists
      <4> QED
        BY <1>2, <1>3, <2>1, <4>1 DEF Free, Clash
    <3> QED
      BY <3>1, <3>2
  <2> QED
    BY <2>1 DEF Free
<1>4. (req[q].step \in {"get", "secret", "replace", "create"} => Creating(q))'
  <2>1. ASSUME req[q].step \in {"get", "secret", "replace", "create"}
        PROVE  Creating(q)'
    <3>1. Creating(q)
      BY <2>1 DEF IndInv
    <3> QED
      BY <1>1, <1>2, <1>3, <3>1 DEF Creating
  <2> QED
    BY <1>2, <2>1
<1>5. ASSUME Alone(m)' PROVE Known(q)'
  <2>1. m # n /\ Alone(m)
    BY <1>2, <1>5 DEF Alone
  <2>2. Known(q)
    BY <1>1, <2>1 DEF IndInv
  <2>3. storage'[m] = storage[m] /\ secret'[m] = secret[m] /\ (m \in created' <=> m \in created)
    BY <1>1, <2>1 DEF ActsOn
  <2>4. Updating(q) => Updating(q)'
    BY <1>1, <1>2, <1>3, <2>3 DEF Updating, Exists
  <2>5. faults' = 0 => (PairedAt(m, req[q].step) => PairedAt(m, req[q].step)')
    BY <1>2, <2>3 DEF PairedAt, Paired, Lives, Exists
  <2>6. faults' = 0 => faults = 0
    BY DEF ActsOn
  <2> QED
    BY <1>1, <1>2, <2>2, <2>3, <2>4, <2>5, <2>6 DEF Known, Exists
<1> QED
  BY <1>1, <1>2, <1>4, <1>5

\* A step of a request keeps the invariant if it does so for its own storage.
LEMMA RequestStep ==
    ASSUME IndInv, NEW r \in Requests, NEW n \in Names, NEW new \in Request \cup {Idle},
           ActsOn(r, n, new),
           storage' \in [Names -> Object \cup {None}],
           secret' \in [Names -> SecretObject \cup {None}],
           created' \subseteq Names, writes' \in 0..MaxWrites, faults' \in 0..MaxFaults,
           new # Idle =>
             /\ (req[r].step \in {"get", "secret", "replace", "create"} => Creating(r))'
             /\ Alone(n) /\ Alone(n)' => Known(r)',
           Exists(n)' /\ storage'[n].deleting => storage'[n].used,
           n \in created' /\ Alone(n) => Lives(n)' /\ secret'[n] # None,
           Alone(n) /\ faults' = 0 /\ new = Idle => Paired(n)',
           (Exists(n) => Free(storage[n].at, n) \/ ~Alone(n))'
    PROVE  IndInv'
<1>1. /\ req' = [req EXCEPT ![r] = new]
      /\ req' \in [Requests -> Request \cup {Idle}]
      /\ raced \subseteq raced' /\ raced' \subseteq SUBSET Names
      /\ RacesNoted'
  BY SetNotes DEF IndInv, ActsOn
<1>2. Alone(n)' => Alone(n)
  BY <1>1 DEF Alone
<1>3. TypeOK'
  BY <1>1 DEF TypeOK
<1>4. \A m \in Names \ {n} :
        /\ storage'[m] = storage[m] /\ secret'[m] = secret[m]
        /\ m \in created' <=> m \in created
  BY DEF ActsOn
<1>5. DeletingUsed'
  BY <1>4 DEF DeletingUsed, IndInv, Exists
<1>6. CreatedLives'
  <2>1. ASSUME NEW m \in created', m # n, Alone(m)' PROVE Lives(m)' /\ secret'[m] # None
    BY <1>1, <1>4, <2>1 DEF IndInv, CreatedLives, Alone, Lives, Exists
  <2> QED
    BY <1>2, <2>1 DEF CreatedLives
<1>7. RestPaired'
  <2>1. ASSUME NEW m \in Names, Alone(m)', faults' = 0, ~InFlight(m)' PROVE Paired(m)'
    <3>1. CASE m = n
      <4>1. new = Idle
        BY <1>1, <2>1, <3>1 DEF InFlight, ActsOn, IndInv, TypeOK
      <4> QED
        BY <1>2, <2>1, <3>1, <4>1
    <3>2. CASE m # n
      <4>1. ~InFlight(m)
        <5>1. ASSUME NEW q \in Requests, req[q] # Idle, req[q].name = m PROVE FALSE
          <6>1. q # r
            BY <3>2, <5>1 DEF ActsOn
          <6> QED
            BY <1>1, <2>1, <5>1, <6>1 DEF InFlight, IndInv, TypeOK
        <5> QED
          BY <5>1 DEF InFlight
      <4>2. Alone(m) /\ faults = 0
        BY <1>1, <2>1 DEF Alone, ActsOn
      <4> QED
        BY <1>4, <3>2, <4>1, <4>2 DEF IndInv, RestPaired, Paired, Lives, Exists
    <3> QED
      BY <3>1, <3>2
  <2> QED
    BY <2>1 DEF RestPaired
<1>8. UniqueLocation'
  <2>1. ASSUME NEW k \in Names, NEW m \in Names, Exists(k)', Exists(m)',
               storage'[k].at = storage'[m].at, k # m
        PROVE  Clash(k, m)'
    <3>1. CASE k # n /\ m # n
      <4>1. Exists(k) /\ Exists(m) /\ storage[k].at = storage[m].at
        BY <1>4, <2>1, <3>1 DEF Exists
      <4>2. Clash(k, m)
        BY <2>1, <4>1 DEF IndInv, UniqueLocation, Clash
      <4> QED
        BY <1>1, <4>2 DEF Clash
    <3>2. CASE m = n
      BY <2>1, <3>2 DEF Free, Clash, Alone
    <3>3. CASE k = n
      <4>1. Clash(m, k)'
        BY <2>1, <3>3 DEF Free, Clash, Alone
      <4>2. {m, k} = {k, m}
        OBVIOUS
      <4> QED
        BY <4>1, <4>2 DEF Clash
    <3> QED
      BY <3>1, <3>2, <3>3
  <2> QED
    BY <2>1 DEF UniqueLocation, Clash
<1>9. ASSUME NEW q \in Requests, req'[q] # Idle
      PROVE  /\ (req[q].step \in {"get", "secret", "replace", "create"} => Creating(q))'
             /\ Alone(req[q].name)' => Known(q)'
  <2>1. CASE q = r
    <3>1. new # Idle /\ req'[r] = new
      BY <1>1, <1>9, <2>1 DEF IndInv, TypeOK
    <3>2. req'[r].name = n
      BY <3>1 DEF ActsOn
    <3> QED
      BY <1>2, <2>1, <3>1, <3>2 DEF Alone
  <2>2. CASE q # r
    <3>1. req'[q] = req[q]
      BY <1>1, <2>2 DEF IndInv, TypeOK
    <3>2. req[q] # Idle /\ q \in Requests \ {r}
      BY <1>9, <2>2, <3>1
    <3>3. /\ (req[q].step \in {"get", "secret", "replace", "create"} => Creating(q))'
          /\ Alone(req[q].name)' => Known(q)'
      BY <3>2, OtherKnows
    <3> QED
      BY <3>1, <3>3 DEF Alone
  <2> QED
    BY <2>1, <2>2
<1> QED
  BY <1>1, <1>3, <1>5, <1>6, <1>7, <1>8, <1>9 DEF IndInv

\* Storages that do not move keep to locations of their own.
LEMMA FreeStill ==
    ASSUME IndInv, NEW n \in Names, raced \subseteq raced', UNCHANGED storage
    PROVE  (Exists(n) => Free(storage[n].at, n))'
<1>1. ASSUME NEW m \in Names \ {n}, Exists(n), Exists(m), storage[m].at = storage[n].at
      PROVE  Clash(m, n)
  BY <1>1 DEF IndInv, UniqueLocation, Clash
<1>2. \A m \in Names : Clash(m, n) => Clash(m, n)'
  BY DEF Clash
<1> QED
  BY <1>1, <1>2 DEF Free, Exists

\* A step of a request that leaves the objects and the Secrets alone.
LEMMA StillStep ==
    ASSUME IndInv, NEW r \in Requests, NEW n \in Names, NEW new \in Request \cup {Idle},
           Set(r, new), req[r] # Idle \/ new # Idle,
           req[r] # Idle => req[r].name = n,
           new # Idle => new.name = n,
           UNCHANGED <<storage, secret, writes>>,
           created' = created \/ created' = created \ {n},
           faults' \in 0..MaxFaults, faults' = 0 => faults = 0,
           new # Idle =>
             /\ (req[r].step \in {"get", "secret", "replace", "create"} => Creating(r))'
             /\ Alone(n) /\ Alone(n)' => Known(r)',
           Alone(n) /\ faults' = 0 /\ new = Idle => Paired(n)
    PROVE  IndInv'
<1>1. ActsOn(r, n, new)
  BY DEF ActsOn
<1>2. raced \subseteq raced'
  BY SetNotes DEF IndInv
<1>3. (Exists(n) => Free(storage[n].at, n))'
  BY <1>2, FreeStill
<1>4. n \in created' /\ Alone(n) => Lives(n)' /\ secret'[n] # None
  BY DEF IndInv, CreatedLives, Lives, Exists
<1>5. Exists(n)' /\ storage'[n].deleting => storage'[n].used
  BY DEF IndInv, DeletingUsed, Exists
<1>6. Alone(n) /\ faults' = 0 /\ new = Idle => Paired(n)'
  BY DEF Paired, Lives, Exists
<1>7. /\ storage' \in [Names -> Object \cup {None}]
      /\ secret' \in [Names -> SecretObject \cup {None}]
      /\ created' \subseteq Names /\ writes' \in 0..MaxWrites
  BY DEF IndInv, TypeOK
<1> QED
  BY <1>1, <1>3, <1>4, <1>5, <1>6, <1>7, RequestStep

\* What a request has when it goes on.
LEMMA OwnKnown ==
    ASSUME IndInv, NEW r \in Requests, req[r] # Idle
    PROVE  /\ req[r] \in Request /\ req[r].name \in Names /\ req[r].params \in Params
           /\ Alone(req[r].name) => Known(r)
           /\ req[r].step \in {"get", "secret", "replace", "create"} => Creating(r)
           /\ Idle \in Request \cup {Idle}
           /\ Exists(req[r].name) => storage[req[r].name] \in Object
BY Kinds DEF IndInv, Request

\* A request that goes on to another step is a request.
LEMMA GoTyped ==
    ASSUME NEW record \in Request, NEW step \in Steps
    PROVE  LET new == [record EXCEPT !.step = step]
           IN  /\ new \in Request \cup {Idle} /\ new # Idle
               /\ new.step = step /\ new.name = record.name /\ new.params = record.params
BY DEF Request, Idle

\* The next step of a request.
LEMMA GoSets ==
    ASSUME IndInv, NEW r \in Requests, req[r] # Idle, NEW step \in Steps, Go(r, step)
    PROVE  LET new == [req[r] EXCEPT !.step = step]
           IN  /\ Set(r, new) /\ new \in Request \cup {Idle} /\ new # Idle
               /\ new.name = req[r].name
               /\ req'[r].step = step /\ req'[r].name = req[r].name
               /\ req'[r].params = req[r].params
               /\ raced \subseteq raced'
<1> DEFINE new == [req[r] EXCEPT !.step = step]
<1>1. /\ new \in Request \cup {Idle} /\ new # Idle
      /\ new.step = step /\ new.name = req[r].name /\ new.params = req[r].params
  BY OwnKnown, GoTyped
<1>2. Set(r, new)
  BY DEF Go
<1> HIDE DEF new
<1>3. req'[r] = new /\ raced \subseteq raced'
  BY <1>2 DEF Set, IndInv, TypeOK
<1> QED
  BY <1>1, <1>2, <1>3 DEF new

\* A location stays free of other storages while they do not change.
LEMMA FreeKept ==
    ASSUME NEW n \in Names, NEW at, Free(at, n), raced \subseteq raced',
           \A m \in Names \ {n} : storage'[m] = storage[m]
    PROVE  Free(at, n)'
BY DEF Free, Clash, Exists

\* A creation still knows what it knew of its parameters.
LEMMA CreatingKept ==
    ASSUME IndInv, NEW r \in Requests, req[r] # Idle, Creating(r), raced \subseteq raced',
           req'[r].name = req[r].name, req'[r].params = req[r].params,
           \A m \in Names \ {req[r].name} : storage'[m] = storage[m]
    PROVE  Creating(r)'
<1>1. PICK n \in Names : n = req[r].name
  BY OwnKnown
<1>2. PICK at : at = Place(req[r].params)
  OBVIOUS
<1>3. Free(at, n)'
  BY <1>1, <1>2, FreeKept DEF Creating
<1> QED
  BY <1>1, <1>2, <1>3 DEF Creating, Place

\* A creation looks for the object: none of the name is there when it goes on.
LEMMA CreateGetInv ==
    ASSUME IndInv, NEW r \in Requests, CreateGet(r)
    PROVE  IndInv'
<1>1. PICK n \in Names : n = req[r].name
  BY OwnKnown DEF CreateGet, At
<1>2. /\ req[r] # Idle /\ req[r].step = "get" /\ Creating(r)
      /\ UNCHANGED <<storage, secret, created, writes, faults>>
      /\ faults' \in 0..MaxFaults
  BY OwnKnown DEF CreateGet, At, IndInv, TypeOK
<1>3. Alone(n) => Known(r) /\ (faults = 0 => Paired(n))
  BY <1>1, <1>2, OwnKnown DEF Known, PairedAt
<1>4. CASE Exists(n)
  <2>1. Set(r, Idle)
    BY <1>1, <1>4 DEF CreateGet
  <2> QED
    BY <1>1, <1>2, <1>3, <2>1, OwnKnown, StillStep
<1>5. CASE ~Exists(n)
  <2> DEFINE new == [req[r] EXCEPT !.step = "secret"]
  <2>1. Go(r, "secret") /\ "secret" \in Steps
    BY <1>1, <1>5 DEF CreateGet, Steps
  <2>2. /\ Set(r, new) /\ new \in Request \cup {Idle} /\ new # Idle
        /\ new.name = n
        /\ req'[r].step = "secret" /\ req'[r].name = req[r].name
        /\ req'[r].params = req[r].params
        /\ raced \subseteq raced'
    BY <1>1, <1>2, <2>1, GoSets
  <2> HIDE DEF new
  <2>3. Creating(r)'
    BY <1>2, <2>2, CreatingKept
  <2>4. ASSUME Alone(n) PROVE Known(r)'
    <3>1. n \notin created
      BY <1>5, <2>4 DEF IndInv, CreatedLives, Lives
    <3>2. faults = 0 => secret[n] = None
      BY <1>3, <1>5, <2>4 DEF Paired, Lives
    <3> QED
      BY <1>1, <1>2, <1>5, <2>2, <3>1, <3>2 DEF Known, PairedAt, Exists
  <2> QED
    BY <1>1, <1>2, <2>2, <2>3, <2>4, StillStep
<1> QED
  BY <1>4, <1>5

\* A step of a request that changes the Secret of its storage.
LEMMA SecretStep ==
    ASSUME IndInv, NEW r \in Requests, req[r] # Idle, NEW n \in Names, n = req[r].name,
           NEW new \in Request \cup {Idle}, Set(r, new), new # Idle => new.name = n,
           NEW data \in SecretObject \cup {None}, secret' = [secret EXCEPT ![n] = data],
           UNCHANGED <<storage, created, writes, faults>>,
           new # Idle =>
             /\ (req[r].step \in {"get", "secret", "replace", "create"} => Creating(r))'
             /\ Alone(n) => Known(r)',
           n \in created /\ Alone(n) => data # None,
           Alone(n) /\ faults = 0 /\ new = Idle => (Lives(n) <=> data # None)
    PROVE  IndInv'
<1>1. secret'[n] = data /\ secret' \in [Names -> SecretObject \cup {None}]
      /\ \A m \in Names \ {n} : secret'[m] = secret[m]
  BY DEF IndInv, TypeOK
<1>2. ActsOn(r, n, new)
  BY <1>1 DEF ActsOn
<1>3. raced \subseteq raced'
  BY SetNotes DEF IndInv
<1>4. (Exists(n) => Free(storage[n].at, n))'
  BY <1>3, FreeStill
<1>5. n \in created' /\ Alone(n) => Lives(n)' /\ secret'[n] # None
  BY <1>1 DEF IndInv, CreatedLives, Lives, Exists
<1>6. Exists(n)' /\ storage'[n].deleting => storage'[n].used
  BY DEF IndInv, DeletingUsed, Exists
<1>7. Alone(n) /\ faults' = 0 /\ new = Idle => Paired(n)'
  BY <1>1 DEF Paired, Lives, Exists
<1>8. /\ storage' \in [Names -> Object \cup {None}]
      /\ created' \subseteq Names /\ writes' \in 0..MaxWrites /\ faults' \in 0..MaxFaults
  BY DEF IndInv, TypeOK
<1> QED
  BY <1>1, <1>2, <1>4, <1>5, <1>6, <1>7, <1>8, RequestStep

\* The Secret that is written holds the keys of the request, or empty ones.
LEMMA SecretDataTyped ==
    ASSUME NEW p \in Params
    PROVE  /\ BackupSecretData(p) \in SecretObject /\ BackupSecretData(p) # None
           /\ BackupSecretData(p).keys = [ak |-> Or(p.ak, Empty), sk |-> Or(p.sk, Empty)]
<1>1. Or(p.ak, Empty) \in Keys \cup {Empty} /\ Or(p.sk, Empty) \in Keys \cup {Empty}
  BY DEF Params, Or
<1> QED
  BY <1>1 DEF BackupSecretData, SecretObject, Credentials, None

\* The Secret is created before its object; one that is there is to be replaced.
LEMMA CreateSecretInv ==
    ASSUME IndInv, NEW r \in Requests, CreateSecret(r)
    PROVE  IndInv'
<1>1. PICK n \in Names : n = req[r].name
  BY OwnKnown DEF CreateSecret, At
<1>2. /\ req[r] # Idle /\ req[r].step = "secret" /\ Creating(r)
      /\ UNCHANGED <<storage, created, writes, faults>>
      /\ faults' \in 0..MaxFaults
  BY OwnKnown DEF CreateSecret, At, IndInv, TypeOK
<1>3. Alone(n) => n \notin created /\ ~Exists(n) /\ (faults = 0 => secret[n] = None)
  BY <1>1, <1>2, OwnKnown DEF Known, PairedAt
<1>4. CASE secret[n] = None
  <2> DEFINE new == [req[r] EXCEPT !.step = "create"]
             data == BackupSecretData(req[r].params)
  <2>1. Go(r, "create") /\ "create" \in Steps /\ secret' = [secret EXCEPT ![n] = data]
    BY <1>1, <1>4 DEF CreateSecret, Steps
  <2>2. /\ Set(r, new) /\ new \in Request \cup {Idle} /\ new # Idle
        /\ new.name = n
        /\ req'[r].step = "create" /\ req'[r].name = req[r].name
        /\ req'[r].params = req[r].params
        /\ raced \subseteq raced'
    BY <1>1, <1>2, <2>1, GoSets
  <2>3. data \in SecretObject \cup {None} /\ data # None
    BY <1>2, OwnKnown, SecretDataTyped
  <2> HIDE DEF new
  <2>4. Creating(r)'
    BY <1>2, <2>2, CreatingKept
  <2>5. secret'[n] = data
    BY <2>1 DEF IndInv, TypeOK
  <2>6. ASSUME Alone(n) PROVE Known(r)'
    BY <1>1, <1>2, <1>3, <2>2, <2>3, <2>5, <2>6 DEF Known, PairedAt, Exists
  <2> HIDE DEF data
  <2> QED
    BY <1>1, <1>2, <2>1, <2>2, <2>3, <2>4, <2>6, SecretStep
<1>5. CASE secret[n] # None
  <2> DEFINE new == [req[r] EXCEPT !.step = "replace"]
  <2>1. Go(r, "replace") /\ "replace" \in Steps /\ UNCHANGED secret
    BY <1>1, <1>5 DEF CreateSecret, Steps
  <2>2. /\ Set(r, new) /\ new \in Request \cup {Idle} /\ new # Idle
        /\ new.name = n
        /\ req'[r].step = "replace" /\ req'[r].name = req[r].name
        /\ req'[r].params = req[r].params
        /\ raced \subseteq raced'
    BY <1>1, <1>2, <2>1, GoSets
  <2> HIDE DEF new
  <2>3. Creating(r)'
    BY <1>2, <2>2, CreatingKept
  <2>4. ASSUME Alone(n) PROVE Known(r)'
    BY <1>1, <1>2, <1>3, <1>5, <2>2, <2>4 DEF Known, Exists
  <2> QED
    BY <1>1, <1>2, <2>1, <2>2, <2>3, <2>4, StillStep
<1> QED
  BY <1>4, <1>5

\* A Secret that is there already gets the keys of this request; one that has
\* gone since ends it.
LEMMA ReplaceSecretInv ==
    ASSUME IndInv, NEW r \in Requests, ReplaceSecret(r)
    PROVE  IndInv'
<1>1. PICK n \in Names : n = req[r].name
  BY OwnKnown DEF ReplaceSecret, At
<1>2. /\ req[r] # Idle /\ req[r].step = "replace" /\ Creating(r)
      /\ UNCHANGED <<storage, created, writes, faults>>
      /\ faults' \in 0..MaxFaults
  BY OwnKnown DEF ReplaceSecret, At, IndInv, TypeOK
<1>3. Alone(n) => n \notin created /\ ~Exists(n) /\ faults # 0
  BY <1>1, <1>2, OwnKnown DEF Known, PairedAt
<1>4. CASE secret[n] = None
  <2>1. Set(r, Idle) /\ UNCHANGED secret
    BY <1>1, <1>4 DEF ReplaceSecret
  <2> QED
    BY <1>1, <1>2, <1>3, <2>1, OwnKnown, StillStep
<1>5. CASE secret[n] # None
  <2> DEFINE new == [req[r] EXCEPT !.step = "create"]
             data == BackupSecretData(req[r].params)
  <2>1. Go(r, "create") /\ "create" \in Steps /\ secret' = [secret EXCEPT ![n] = data]
    BY <1>1, <1>5 DEF ReplaceSecret, Steps
  <2>2. /\ Set(r, new) /\ new \in Request \cup {Idle} /\ new # Idle
        /\ new.name = n
        /\ req'[r].step = "create" /\ req'[r].name = req[r].name
        /\ req'[r].params = req[r].params
        /\ raced \subseteq raced'
    BY <1>1, <1>2, <2>1, GoSets
  <2>3. data \in SecretObject \cup {None} /\ data # None
    BY <1>2, OwnKnown, SecretDataTyped
  <2> HIDE DEF new
  <2>4. Creating(r)'
    BY <1>2, <2>2, CreatingKept
  <2>5. secret'[n] = data
    BY <2>1 DEF IndInv, TypeOK
  <2>6. ASSUME Alone(n) PROVE Known(r)'
    BY <1>1, <1>2, <1>3, <2>2, <2>3, <2>5, <2>6 DEF Known, PairedAt, Exists
  <2> HIDE DEF data
  <2> QED
    BY <1>1, <1>2, <2>1, <2>2, <2>3, <2>4, <2>6, SecretStep
<1> QED
  BY <1>4, <1>5

\* A creation that failed removes the Secret of its name.
LEMMA CleanupInv ==
    ASSUME IndInv, NEW r \in Requests, Cleanup(r)
    PROVE  IndInv'
<1>1. PICK n \in Names : n = req[r].name
  BY OwnKnown DEF Cleanup, At
<1>2. /\ req[r] # Idle /\ req[r].step = "cleanup"
      /\ UNCHANGED <<storage, created, writes, faults>>
      /\ Set(r, Idle) /\ secret' = [secret EXCEPT ![n] = None]
  BY <1>1 DEF Cleanup, At
<1>3. Alone(n) => n \notin created /\ faults # 0
  BY <1>1, <1>2, OwnKnown DEF Known, PairedAt
<1>4. None \in SecretObject \cup {None} /\ Idle \in Request \cup {Idle}
  OBVIOUS
<1> QED
  BY <1>1, <1>2, <1>3, <1>4, SecretStep

\* The Secret goes after the deletion of the object.
LEMMA DeleteSecretInv ==
    ASSUME IndInv, NEW r \in Requests, DeleteSecret(r)
    PROVE  IndInv'
<1>1. PICK n \in Names : n = req[r].name
  BY OwnKnown DEF DeleteSecret, At
<1>2. /\ req[r] # Idle /\ req[r].step = "dsecret"
      /\ UNCHANGED <<storage, created, writes, faults>>
      /\ Set(r, Idle) /\ secret' = [secret EXCEPT ![n] = None]
  BY <1>1 DEF DeleteSecret, At
<1>3. Alone(n) => n \notin created /\ (faults = 0 => ~Lives(n))
  BY <1>1, <1>2, OwnKnown DEF Known, PairedAt
<1>4. None \in SecretObject \cup {None} /\ Idle \in Request \cup {Idle}
  OBVIOUS
<1> QED
  BY <1>1, <1>2, <1>3, <1>4, SecretStep

\* An update writes its keys to the Secret; the object follows.
LEMMA UpdateSecretInv ==
    ASSUME IndInv, NEW r \in Requests, UpdateSecret(r)
    PROVE  IndInv'
<1>1. PICK n \in Names : n = req[r].name
  BY OwnKnown DEF UpdateSecret, At
<1>2. /\ req[r] # Idle /\ req[r].step = "usecret"
      /\ UNCHANGED <<storage, created, writes, faults>>
      /\ faults' \in 0..MaxFaults
  BY DEF UpdateSecret, At, IndInv, TypeOK
<1>3. Alone(n) => Updating(r) /\ (faults = 0 => Paired(n))
  BY <1>1, <1>2, OwnKnown DEF Known, PairedAt
<1>4. CASE secret[n] = None
  <2>1. Set(r, Idle) /\ UNCHANGED secret
    BY <1>1, <1>4 DEF UpdateSecret
  <2> QED
    BY <1>1, <1>2, <1>3, <2>1, OwnKnown, StillStep
<1>5. CASE secret[n] # None
  <2> DEFINE new == [req[r] EXCEPT !.step = "uget"]
             data == BackupSecretData(req[r].params)
  <2>1. Go(r, "uget") /\ "uget" \in Steps /\ secret' = [secret EXCEPT ![n] = data]
    BY <1>1, <1>5 DEF UpdateSecret, Steps
  <2>2. /\ Set(r, new) /\ new \in Request \cup {Idle} /\ new # Idle
        /\ new.name = n
        /\ req'[r].step = "uget" /\ req'[r].name = req[r].name
        /\ req'[r].params = req[r].params
        /\ raced \subseteq raced'
    BY <1>1, <1>2, <2>1, GoSets
  <2>3. /\ data \in SecretObject \cup {None} /\ data # None
        /\ data.keys = [ak |-> Or(req[r].params.ak, Empty),
                        sk |-> Or(req[r].params.sk, Empty)]
    BY <1>2, OwnKnown, SecretDataTyped
  <2> HIDE DEF new, data
  <2>4. secret'[n] = data
    BY <2>1 DEF IndInv, TypeOK
  <2>5. ASSUME Alone(n) PROVE Known(r)'
    <3>1. Exists(n)' => Free(Moved(storage[n].at, req[r].params), n)'
      <4>1. PICK at : at = Moved(storage[n].at, req[r].params)
        OBVIOUS
      <4>2. Exists(n) => Free(at, n)
        BY <1>1, <1>3, <2>5, <4>1 DEF Updating
      <4>3. Exists(n) => Free(at, n)'
        BY <1>2, <2>2, <4>2, FreeKept
      <4> QED
        BY <1>2, <2>2, <4>1, <4>3 DEF Exists, Moved
    <3>2. Updating(r)'
      BY <1>1, <1>2, <1>3, <1>5, <2>2, <2>3, <2>4, <2>5, <3>1
        DEF Updating, Exists, Accessible, Or, Moved
    <3>3. faults = 0 => Paired(n)'
      BY <1>2, <1>3, <1>5, <2>3, <2>4, <2>5 DEF Paired, Lives, Exists
    <3> QED
      BY <1>1, <1>2, <2>2, <3>2, <3>3 DEF Known, PairedAt
  <2> QED
    BY <1>1, <1>2, <2>1, <2>2, <2>3, <2>5, SecretStep
<1> QED
  BY <1>4, <1>5

\* A step of a request that changes the object of its storage.
LEMMA ObjectStep ==
    ASSUME IndInv, NEW r \in Requests, req[r] # Idle, NEW n \in Names, n = req[r].name,
           NEW new \in Request \cup {Idle}, Set(r, new), new # Idle => new.name = n,
           NEW data \in Object \cup {None}, storage' = [storage EXCEPT ![n] = data],
           UNCHANGED secret, writes' \in 0..MaxWrites,
           created' = created \/ (created' = created \cup {n} /\ data # None /\ ~data.deleting
                                    /\ (Alone(n) => secret[n] # None)),
           faults' \in 0..MaxFaults, faults' = 0 => faults = 0,
           new # Idle =>
             /\ req'[r].step \notin {"get", "secret", "replace", "create"}
             /\ Alone(n) => Known(r)',
           data # None =>
             /\ data.deleting => data.used
             /\ Free(data.at, n) \/ ~Alone(n)
             /\ Alone(n) /\ n \in created => ~data.deleting,
           data = None /\ Alone(n) => n \notin created,
           Alone(n) /\ faults' = 0 /\ new = Idle
             => ((data # None /\ ~data.deleting) <=> secret[n] # None)
    PROVE  IndInv'
<1>1. storage'[n] = data /\ storage' \in [Names -> Object \cup {None}]
      /\ \A m \in Names \ {n} : storage'[m] = storage[m]
  BY DEF IndInv, TypeOK
<1>2. ActsOn(r, n, new)
  BY <1>1 DEF ActsOn
<1>3. raced \subseteq raced'
  BY SetNotes DEF IndInv
<1>4. ASSUME Exists(n)' PROVE (Free(storage[n].at, n) \/ ~Alone(n))'
  <2>1. PICK at : at = data.at
    OBVIOUS
  <2>2. Free(at, n) \/ ~Alone(n)
    BY <1>1, <1>4, <2>1 DEF Exists
  <2>3. CASE Free(at, n)
    <3>1. Free(at, n)'
      BY <1>1, <1>3, <2>3, FreeKept
    <3> QED
      BY <1>1, <2>1, <3>1
  <2>4. CASE ~Alone(n)
    BY <1>3, <2>4 DEF Alone
  <2> QED
    BY <2>2, <2>3, <2>4
<1>5. n \in created' /\ Alone(n) => Lives(n)' /\ secret'[n] # None
  BY <1>1 DEF IndInv, CreatedLives, Lives, Exists
<1>6. Exists(n)' /\ storage'[n].deleting => storage'[n].used
  BY <1>1 DEF Exists
<1>7. Alone(n) /\ faults' = 0 /\ new = Idle => Paired(n)'
  BY <1>1 DEF Paired, Lives, Exists
<1>8. /\ secret' \in [Names -> SecretObject \cup {None}] /\ created' \subseteq Names
  BY DEF IndInv, TypeOK
<1> QED
  BY <1>1, <1>2, <1>4, <1>5, <1>6, <1>7, <1>8, RequestStep

\* The object that is created is at the place that was asked for, and in no use.
LEMMA NewObjectTyped ==
    ASSUME NEW p \in Complete, writes \in Nat
    PROVE  /\ NewObject(p) \in Object /\ NewObject(p) # None
           /\ NewObject(p).at = Place(p)
           /\ ~NewObject(p).deleting /\ ~NewObject(p).used
BY DEF NewObject, Object, Location, Complete, None, Place

\* The object is created at a place that was free when it was looked at.
LEMMA CreateObjectInv ==
    ASSUME IndInv, NEW r \in Requests, CreateObject(r)
    PROVE  IndInv'
<1>1. PICK n \in Names : n = req[r].name
  BY OwnKnown DEF CreateObject, At
<1>2. /\ req[r] # Idle /\ req[r].step = "create" /\ Creating(r)
      /\ UNCHANGED <<secret, faults>>
      /\ faults' \in 0..MaxFaults
  BY OwnKnown DEF CreateObject, At, IndInv, TypeOK
<1>3. Alone(n) => n \notin created /\ ~Exists(n) /\ secret[n] # None
  BY <1>1, <1>2, OwnKnown, SecretDataTyped DEF Known
<1>4. CASE Exists(n)
  <2> DEFINE new == [req[r] EXCEPT !.step = "cleanup"]
  <2>1. Go(r, "cleanup") /\ "cleanup" \in Steps /\ UNCHANGED <<storage, created, writes>>
    BY <1>1, <1>4 DEF CreateObject, Steps
  <2>2. /\ Set(r, new) /\ new \in Request \cup {Idle} /\ new # Idle
        /\ new.name = n
        /\ req'[r].step = "cleanup" /\ req'[r].name = req[r].name
    BY <1>1, <1>2, <2>1, GoSets
  <2> HIDE DEF new
  <2> QED
    BY <1>1, <1>2, <1>3, <1>4, <2>1, <2>2, StillStep
<1>5. CASE ~Exists(n)
  <2> DEFINE data == NewObject(req[r].params)
  <2>1. /\ storage' = [storage EXCEPT ![n] = data]
        /\ created' = created \cup {n}
        /\ Set(r, Idle)
        /\ writes' \in 0..MaxWrites
    BY <1>1, <1>5 DEF CreateObject, IndInv, TypeOK
  <2>2. /\ data \in Object /\ data # None /\ data.at = Place(req[r].params)
        /\ ~data.deleting /\ ~data.used
    BY <1>2, NewObjectTyped DEF Creating, IndInv, TypeOK
  <2>3. Free(data.at, n)
    BY <1>1, <1>2, <2>2 DEF Creating
  <2> HIDE DEF data
  <2> QED
    BY <1>1, <1>2, <1>3, <2>1, <2>2, <2>3, ObjectStep
<1> QED
  BY <1>4, <1>5

\* The object is there, and the server takes the creation for failed.
LEMMA CreateAnswerLostInv ==
    ASSUME IndInv, NEW r \in Requests, CreateAnswerLost(r)
    PROVE  IndInv'
<1>1. PICK n \in Names : n = req[r].name
  BY OwnKnown DEF CreateAnswerLost, At
<1>2. /\ req[r] # Idle /\ req[r].step = "create" /\ Creating(r)
      /\ UNCHANGED <<secret, created>>
      /\ faults' \in 0..MaxFaults /\ faults' # 0
      /\ writes' \in 0..MaxWrites
      /\ ~Exists(n)
  BY <1>1, OwnKnown DEF CreateAnswerLost, At, IndInv, TypeOK
<1>3. Alone(n) => n \notin created
  BY <1>1, <1>2, OwnKnown DEF Known
<1> DEFINE data == NewObject(req[r].params)
           new == [req[r] EXCEPT !.step = "cleanup"]
<1>4. storage' = [storage EXCEPT ![n] = data]
  BY <1>1 DEF CreateAnswerLost
<1>5. /\ data \in Object /\ data # None /\ data.at = Place(req[r].params)
      /\ ~data.deleting /\ ~data.used
  BY <1>2, NewObjectTyped DEF Creating, IndInv, TypeOK
<1>6. Free(data.at, n)
  BY <1>1, <1>2, <1>5 DEF Creating
<1>7. Go(r, "cleanup") /\ "cleanup" \in Steps
  BY DEF CreateAnswerLost, Steps
<1>8. /\ Set(r, new) /\ new \in Request \cup {Idle} /\ new # Idle
      /\ new.name = n
      /\ req'[r].step = "cleanup" /\ req'[r].name = req[r].name
  BY <1>1, <1>2, <1>7, GoSets
<1> HIDE DEF data, new
<1>9. Alone(n) => Known(r)'
  BY <1>1, <1>2, <1>3, <1>8 DEF Known
<1> QED
  BY <1>1, <1>2, <1>3, <1>4, <1>5, <1>6, <1>8, <1>9, ObjectStep

\* An update reads the version of the object that it replaces.
LEMMA UpdateGetInv ==
    ASSUME IndInv, NEW r \in Requests, UpdateGet(r)
    PROVE  IndInv'
<1>1. PICK n \in Names : n = req[r].name
  BY OwnKnown DEF UpdateGet, At
<1>2. /\ req[r] # Idle /\ req[r].step = "uget"
      /\ UNCHANGED <<storage, secret, created, writes, faults>>
      /\ faults' \in 0..MaxFaults
  BY DEF UpdateGet, At, IndInv, TypeOK
<1>3. Alone(n) => Updating(r) /\ (faults = 0 => Paired(n))
  BY <1>1, <1>2, OwnKnown DEF Known, PairedAt
<1>4. CASE ~Exists(n)
  <2>1. Set(r, Idle)
    BY <1>1, <1>4 DEF UpdateGet
  <2> QED
    BY <1>1, <1>2, <1>3, <2>1, OwnKnown, StillStep
<1>5. CASE Exists(n)
  <2> DEFINE new == [req[r] EXCEPT !.step = "uput", !.rv = storage[n].rv]
  <2>1. Set(r, new)
    BY <1>1, <1>5 DEF UpdateGet
  <2>2. req[r] \in Request /\ storage[n].rv \in Nat
    BY <1>1, <1>2, <1>5, OwnKnown DEF Object
  <2>3. /\ new \in Request \cup {Idle} /\ new # Idle
        /\ new.step = "uput" /\ new.name = n /\ new.params = req[r].params
    BY <1>1, <2>2 DEF Request, Steps, Idle
  <2> HIDE DEF new
  <2>4. req'[r] = new /\ raced \subseteq raced'
    BY <2>1 DEF Set, IndInv, TypeOK
  <2>5. ASSUME Alone(n) PROVE Known(r)'
    <3>1. PICK at : at = Moved(storage[n].at, req[r].params)
      OBVIOUS
    <3>2. Free(at, n)
      BY <1>1, <1>3, <1>5, <2>5, <3>1 DEF Updating
    <3>3. Free(at, n)'
      BY <1>2, <2>4, <3>2, FreeKept
    <3>4. Updating(r)'
      BY <1>1, <1>2, <1>3, <1>5, <2>3, <2>4, <2>5, <3>1, <3>3
        DEF Updating, Exists, Accessible, Moved, Or
    <3> QED
      BY <1>1, <1>2, <1>3, <2>3, <2>4, <2>5, <3>4
        DEF Known, PairedAt, Paired, Lives, Exists
  <2> QED
    BY <1>1, <1>2, <2>1, <2>3, <2>4, <2>5, StillStep
<1> QED
  BY <1>4, <1>5

\* Merging the place of a storage with an edit gives a place.
LEMMA MovedTyped ==
    ASSUME NEW at \in Location, NEW p \in Params
    PROVE  Moved(at, p) \in Location
<1>1. Or(p.bucket, at.bucket) \in Buckets /\ Or(p.url, at.url) \in Urls
  BY DEF Or, Params, Location
<1> QED
  BY <1>1 DEF Moved, Location

\* The object is moved to a place that was free when it was looked at.
LEMMA UpdateObjectInv ==
    ASSUME IndInv, NEW r \in Requests, UpdateObject(r)
    PROVE  IndInv'
<1>1. PICK n \in Names : n = req[r].name
  BY OwnKnown DEF UpdateObject, At
<1>2. /\ req[r] # Idle /\ req[r].step = "uput"
      /\ UNCHANGED <<secret, created, faults>>
      /\ Set(r, Idle)
      /\ faults' \in 0..MaxFaults /\ writes \in Nat
  BY DEF UpdateObject, At, IndInv, TypeOK
<1>3. Alone(n) => Updating(r) /\ (faults = 0 => Paired(n))
  BY <1>1, <1>2, OwnKnown DEF Known, PairedAt
<1>4. CASE UNCHANGED <<storage, writes>>
  BY <1>1, <1>2, <1>3, <1>4, OwnKnown, StillStep
<1>5. CASE ~UNCHANGED <<storage, writes>>
  <2> DEFINE data == [storage[n] EXCEPT !.at = Moved(storage[n].at, req[r].params),
                                        !.rv = writes + 1]
  <2>1. Exists(n) /\ storage[n] \in Object /\ writes' \in 0..MaxWrites
    BY <1>1, <1>2, <1>5, OwnKnown DEF UpdateObject, IndInv, TypeOK
  <2>2. storage' = [storage EXCEPT ![n] = data]
    BY <1>1, <1>5, <2>1 DEF UpdateObject, IndInv, TypeOK, Object
  <2>3. /\ data \in Object
        /\ data.at = Moved(storage[n].at, req[r].params)
        /\ data.deleting = storage[n].deleting /\ data.used = storage[n].used
    <3>1. Moved(storage[n].at, req[r].params) \in Location
      BY <1>2, <2>1, OwnKnown, MovedTyped DEF Object
    <3>2. writes + 1 \in Nat
      BY <1>2
    <3> HIDE DEF Moved
    <3> QED
      BY <2>1, <3>1, <3>2 DEF Object
  <2>4. data # None
    BY <2>3 DEF Object, None
  <2>5. Alone(n) => Free(data.at, n)
    BY <1>1, <1>3, <2>1, <2>3 DEF Updating
  <2>6. data.deleting => data.used
    BY <2>1, <2>3 DEF IndInv, DeletingUsed
  <2>7. Alone(n) /\ n \in created => ~data.deleting
    BY <2>3 DEF IndInv, CreatedLives, Lives
  <2>8. Alone(n) /\ faults' = 0 => (~data.deleting <=> secret[n] # None)
    BY <1>2, <1>3, <2>1, <2>3 DEF Paired, Lives
  <2> HIDE DEF data
  <2> QED
    BY <1>1, <1>2, <2>1, <2>2, <2>3, <2>4, <2>5, <2>6, <2>7, <2>8, ObjectStep
<1> QED
  BY <1>4, <1>5

\* The object is deleted, or marked when clusters use it.
LEMMA DeleteObjectInv ==
    ASSUME IndInv, NEW r \in Requests, DeleteObject(r)
    PROVE  IndInv'
<1>1. PICK n \in Names : n = req[r].name
  BY OwnKnown DEF DeleteObject, At
<1> DEFINE new == [req[r] EXCEPT !.step = "dsecret"]
           marked == [storage[n] EXCEPT !.deleting = TRUE]
           data == IF ~Exists(n) THEN None ELSE IF storage[n].used THEN marked ELSE None
<1>2. /\ req[r] # Idle /\ req[r].step = "delete"
      /\ UNCHANGED <<secret, created, writes, faults>>
      /\ faults' \in 0..MaxFaults /\ writes' \in 0..MaxWrites
      /\ Go(r, "dsecret") /\ "dsecret" \in Steps
  BY DEF DeleteObject, At, IndInv, TypeOK, Steps
<1>3. Alone(n) => n \notin created
  BY <1>1, <1>2, OwnKnown DEF Known
<1>4. /\ Set(r, new) /\ new \in Request \cup {Idle} /\ new # Idle
      /\ new.name = n
      /\ req'[r].step = "dsecret" /\ req'[r].name = req[r].name
  BY <1>1, <1>2, GoSets
<1>5. Exists(n) => /\ storage[n] \in Object /\ marked \in Object /\ marked.at = storage[n].at
                   /\ marked.deleting /\ marked.used = storage[n].used
  BY <1>1, <1>2, OwnKnown DEF Object
<1>6. storage' = [storage EXCEPT ![n] = data]
  BY <1>1, <1>5 DEF DeleteObject, IndInv, TypeOK, Exists
<1>7. data # None => Exists(n) /\ storage[n].used /\ data = marked
  OBVIOUS
<1>8. data \in Object \cup {None}
  BY <1>5
<1>9. data # None => Free(data.at, n)
  BY <1>5, <1>7 DEF IndInv, UniqueLocation, Free, Clash
<1>10. storage'[n] = data
  BY <1>6 DEF IndInv, TypeOK
<1>11. data # None => data.deleting /\ data.used
  BY <1>5, <1>7
<1> HIDE DEF data, marked, new
<1>12. Alone(n) => Known(r)'
  BY <1>1, <1>2, <1>3, <1>4, <1>10, <1>11 DEF Known, PairedAt, Lives, Exists
<1> QED
  BY <1>1, <1>2, <1>3, <1>4, <1>6, <1>8, <1>9, <1>11, <1>12, ObjectStep

\* A call that fails ends the request or sends a creation to its clean-up.
LEMMA CallFailsInv ==
    ASSUME IndInv, NEW r \in Requests, CallFails(r)
    PROVE  IndInv'
<1>1. PICK n \in Names : n = req[r].name
  BY OwnKnown DEF CallFails
<1>2. /\ req[r] # Idle /\ UNCHANGED <<storage, secret, created, writes>>
      /\ faults' \in 0..MaxFaults /\ faults' # 0
  BY DEF CallFails, IndInv, TypeOK
<1>3. CASE Set(r, Idle)
  BY <1>1, <1>2, <1>3, OwnKnown, StillStep
<1>4. CASE At(r, "create") /\ Go(r, "cleanup")
  <2> DEFINE new == [req[r] EXCEPT !.step = "cleanup"]
  <2>1. "cleanup" \in Steps
    BY DEF Steps
  <2>2. /\ Set(r, new) /\ new \in Request \cup {Idle} /\ new # Idle
        /\ new.name = n
        /\ req'[r].step = "cleanup" /\ req'[r].name = req[r].name
    BY <1>1, <1>2, <1>4, <2>1, GoSets
  <2> HIDE DEF new
  <2>3. Alone(n) => n \notin created
    BY <1>1, <1>2, <1>4, OwnKnown DEF Known, At
  <2>4. Alone(n) => Known(r)'
    BY <1>1, <1>2, <2>2, <2>3 DEF Known
  <2> QED
    BY <1>1, <1>2, <2>2, <2>4, StillStep
<1> QED
  BY <1>3, <1>4 DEF CallFails

\* A request that is alone with its storage when it starts finds object and
\* Secret as the ones before left them.
LEMMA StartSets ==
    ASSUME IndInv, NEW r \in Requests, NEW n \in Names, NEW step \in Steps,
           NEW p \in Params, Start(r, step, n, p)
    PROVE  LET new == [step |-> step, name |-> n, params |-> p, rv |-> 0]
           IN  /\ Set(r, new) /\ new \in Request \cup {Idle} /\ new # Idle
               /\ new.name = n /\ req[r] = Idle
               /\ req'[r].step = step /\ req'[r].name = n /\ req'[r].params = p
               /\ raced \subseteq raced'
               /\ Alone(n) /\ Alone(n)' /\ faults = 0 => Paired(n)
<1> DEFINE new == [step |-> step, name |-> n, params |-> p, rv |-> 0]
<1>1. /\ new \in Request \cup {Idle} /\ new # Idle
      /\ new.step = step /\ new.name = n /\ new.params = p
  BY DEF Request, Idle
<1>2. Set(r, new) /\ req[r] = Idle
  BY DEF Start
<1> HIDE DEF new
<1>3. /\ req'[r] = new /\ raced \subseteq raced'
      /\ \A q \in Requests \ {r} : req[q] # Idle => {n, req[q].name} \in raced'
  BY <1>1, <1>2 DEF Set, IndInv, TypeOK
<1>4. ASSUME Alone(n), Alone(n)', faults = 0 PROVE Paired(n)
  <2>1. ASSUME NEW q \in Requests, req[q] # Idle, req[q].name = n PROVE FALSE
    <3>1. {n, n} \in raced'
      BY <1>2, <1>3, <2>1
    <3> QED
      BY <1>4, <3>1 DEF Alone
  <2>2. ~InFlight(n)
    BY <2>1 DEF InFlight
  <2> QED
    BY <1>4, <2>2 DEF IndInv, RestPaired
<1> QED
  BY <1>1, <1>2, <1>3, <1>4 DEF new

\* A creation is let in: its place is free and its keys open it.
LEMMA ValidateCreateInv ==
    ASSUME IndInv, NEW r \in Requests, NEW n \in Names, NEW p \in Complete,
           ValidateCreate(r, n, p)
    PROVE  IndInv'
<1> DEFINE new == [step |-> "get", name |-> n, params |-> p, rv |-> 0]
<1>1. p \in Params /\ "get" \in Steps
  BY DEF Complete, Params, Steps
<1>2. /\ Start(r, "get", n, p) /\ UNCHANGED <<storage, secret, created, writes, faults>>
      /\ faults' \in 0..MaxFaults
  BY DEF ValidateCreate, IndInv, TypeOK
<1>3. /\ Set(r, new) /\ new \in Request \cup {Idle} /\ new # Idle
      /\ new.name = n /\ req[r] = Idle
      /\ req'[r].step = "get" /\ req'[r].name = n /\ req'[r].params = p
      /\ Alone(n) /\ Alone(n)' /\ faults = 0 => Paired(n)
  BY <1>1, <1>2, StartSets
<1> HIDE DEF new
<1>4. \A m \in Names : Exists(m) => storage[m].at # Place(p)
  BY DEF ValidateCreate, Duplicated, Place
<1>5. Creating(r)'
  BY <1>2, <1>3, <1>4 DEF Creating, Free, Exists, ValidateCreate, Accessible, Place
<1>6. Alone(n) /\ Alone(n)' => Known(r)'
  BY <1>2, <1>3 DEF Known, PairedAt, Paired, Lives, Exists
<1> QED
  BY <1>2, <1>3, <1>5, <1>6, StillStep

\* An update is let in: the place it moves to is free and the keys open it.
LEMMA ValidateUpdateInv ==
    ASSUME IndInv, NEW r \in Requests, NEW n \in Names, NEW p \in Edits,
           ValidateUpdate(r, n, p)
    PROVE  IndInv'
<1> DEFINE step == IF p.ak = Keep /\ p.sk = Keep THEN "uget" ELSE "usecret"
           new == [step |-> step, name |-> n, params |-> p, rv |-> 0]
<1>1. p \in Params /\ step \in Steps /\ step \in {"uget", "usecret"}
  BY DEF Steps
<1>2. /\ Start(r, step, n, p) /\ UNCHANGED <<storage, secret, created, writes, faults>>
      /\ faults' \in 0..MaxFaults
  BY DEF ValidateUpdate, IndInv, TypeOK
<1>3. step = "uget" => p.ak = Keep /\ p.sk = Keep
  OBVIOUS
<1> HIDE DEF step
<1>4. /\ Set(r, new) /\ new \in Request \cup {Idle} /\ new # Idle
      /\ new.name = n /\ req[r] = Idle
      /\ req'[r].step = step /\ req'[r].name = n /\ req'[r].params = p
      /\ Alone(n) /\ Alone(n)' /\ faults = 0 => Paired(n)
  BY <1>1, <1>2, StartSets
<1> HIDE DEF new
<1>5. /\ Exists(n) /\ secret[n] # None
      /\ \A m \in Names \ {n} : Exists(m) => storage[m].at # Moved(storage[n].at, p)
      /\ Accessible(Moved(storage[n].at, p), [ak |-> Or(p.ak, secret[n].keys.ak),
                                              sk |-> Or(p.sk, secret[n].keys.sk)])
  BY DEF ValidateUpdate, Duplicated
<1>6. Free(Moved(storage[n].at, p), n)'
  BY <1>2, <1>5 DEF Free, Exists, Moved, Or
<1>7. step = "uget" => Accessible(Moved(storage[n].at, p), secret[n].keys)
  BY <1>3, <1>5 DEF Or, Accessible
<1>8. Updating(r)'
  BY <1>1, <1>2, <1>4, <1>5, <1>6, <1>7 DEF Updating, Exists, Accessible, Moved, Or
<1>9. Alone(n) /\ Alone(n)' => Known(r)'
  BY <1>1, <1>2, <1>4, <1>8 DEF Known, PairedAt, Paired, Lives, Exists
<1> QED
  BY <1>1, <1>2, <1>4, <1>9, StillStep

\* A deletion is let in: nothing uses the storage.
LEMMA ValidateDeleteInv ==
    ASSUME IndInv, NEW r \in Requests, NEW n \in Names, ValidateDelete(r, n)
    PROVE  IndInv'
<1> DEFINE p == [bucket |-> Keep, url |-> Keep, ak |-> Keep, sk |-> Keep]
           new == [step |-> "delete", name |-> n, params |-> p, rv |-> 0]
<1>1. p \in Params /\ "delete" \in Steps
  BY DEF Params, Steps
<1>2. /\ Start(r, "delete", n, p) /\ UNCHANGED <<storage, secret, writes, faults>>
      /\ created' = created \ {n}
      /\ faults' \in 0..MaxFaults
  BY DEF ValidateDelete, IndInv, TypeOK
<1> HIDE DEF p
<1>3. /\ Set(r, new) /\ new \in Request \cup {Idle} /\ new # Idle
      /\ new.name = n /\ req[r] = Idle
      /\ req'[r].step = "delete" /\ req'[r].name = n
      /\ Alone(n) /\ Alone(n)' /\ faults = 0 => Paired(n)
  BY <1>1, <1>2, StartSets
<1> HIDE DEF new
<1>4. Alone(n) /\ Alone(n)' => Known(r)'
  BY <1>2, <1>3 DEF Known, PairedAt, Paired, Lives, Exists
<1> QED
  BY <1>2, <1>3, <1>4, StillStep

\* A cluster starts to use a storage or stops: the storage stays where it is,
\* or it was marked as deleted and goes away.
LEMMA UsageInv ==
    ASSUME IndInv, NEW n \in Names, Use(n) \/ Release(n)
    PROVE  IndInv'
<1>1. /\ UNCHANGED <<secret, req, created, raced, faults>>
      /\ writes' \in 0..MaxWrites
      /\ storage' \in [Names -> Object \cup {None}]
      /\ \A m \in Names \ {n} : storage'[m] = storage[m]
      /\ Exists(n)
      /\ \/ /\ storage'[n] \in Object /\ storage'[n].at = storage[n].at
            /\ ~storage[n].deleting /\ ~storage'[n].deleting
         \/ storage'[n] = None /\ storage[n].deleting
  <2>1. storage[n] \in Object /\ writes \in Nat /\ storage \in [Names -> Object \cup {None}]
    BY Kinds DEF Use, Release, IndInv, TypeOK
  <2>2. CASE Use(n)
    <3> DEFINE data == [storage[n] EXCEPT !.used = TRUE, !.rv = writes + 1]
    <3>1. writes + 1 \in Nat
      BY <2>1
    <3>2. /\ data \in Object /\ data.at = storage[n].at
          /\ data.deleting = storage[n].deleting
      BY <2>1, <3>1 DEF Object
    <3>3. storage' = [storage EXCEPT ![n] = data]
      BY <2>1, <2>2 DEF Use, Object
    <3> HIDE DEF data
    <3>4. storage' \in [Names -> Object \cup {None}] /\ storage'[n] = data
          /\ \A m \in Names \ {n} : storage'[m] = storage[m]
      BY <2>1, <3>2, <3>3
    <3>5. /\ UNCHANGED <<secret, req, created, raced, faults>>
          /\ Exists(n) /\ ~storage[n].deleting
      BY <2>2 DEF Use
    <3>6. writes' \in 0..MaxWrites
      BY <2>1, <2>2 DEF Use, IndInv, TypeOK
    <3> QED
      BY <3>2, <3>4, <3>5, <3>6
  <2>3. CASE Release(n)
    <3> DEFINE data == [storage[n] EXCEPT !.used = FALSE, !.rv = writes + 1]
    <3>1. writes + 1 \in Nat
      BY <2>1
    <3>2. /\ data \in Object /\ data.at = storage[n].at
          /\ data.deleting = storage[n].deleting
      BY <2>1, <3>1 DEF Object
    <3>3. storage' = [storage EXCEPT ![n] = IF storage[n].deleting THEN None ELSE data]
      BY <2>3 DEF Release
    <3> HIDE DEF data
    <3> QED
      BY <2>1, <2>3, <3>2, <3>3 DEF Release, IndInv, TypeOK, Object
  <2> QED
    BY <2>2, <2>3
<1>2. /\ \A m \in Names : Exists(m)' => Exists(m) /\ storage'[m].at = storage[m].at
      /\ \A m \in Names : Lives(m)' <=> Lives(m)
      /\ \A m \in Names : ~Exists(m) => ~Exists(m)'
  BY <1>1, Kinds DEF Exists, Lives, IndInv, Object, None
<1>3. \A m, k \in Names : Clash(m, k)' <=> Clash(m, k)
  BY <1>1 DEF Clash
<1>4. ASSUME NEW m \in Names, NEW at, Free(at, m) PROVE Free(at, m)'
  BY <1>1, <1>2, <1>3, <1>4 DEF Free
<1>5. TypeOK'
  BY <1>1 DEF IndInv, TypeOK
<1>6. RacesNoted' /\ CreatedLives' /\ RestPaired'
  BY <1>1, <1>2 DEF IndInv, RacesNoted, CreatedLives, RestPaired, Alone, InFlight, Paired,
                    TypeOK
<1>7. DeletingUsed'
  BY <1>1 DEF IndInv, DeletingUsed, Exists
<1>8. UniqueLocation'
  BY <1>1, <1>2 DEF IndInv, UniqueLocation
<1>9. ASSUME NEW q \in Requests, req[q] # Idle
      PROVE  /\ (req[q].step \in {"get", "secret", "replace", "create"} => Creating(q))'
             /\ Alone(req[q].name)' => Known(q)'
  <2>1. PICK m \in Names : m = req[q].name
    BY <1>9, OwnKnown
  <2>2. Creating(q) => Creating(q)'
    BY <1>1, <1>4, <2>1 DEF Creating, Place
  <2>3. Updating(q) => Updating(q)'
    <3> SUFFICES ASSUME Updating(q), Exists(m)' PROVE Updating(q)'
      BY <1>1, <2>1 DEF Updating, Exists
    <3>1. PICK at : at = Moved(storage[m].at, req[q].params)
      OBVIOUS
    <3>2. at = Moved(storage[m].at, req[q].params)'
      BY <1>1, <1>2, <3>1 DEF Moved, Or
    <3>3. Free(at, m)'
      BY <1>2, <1>4, <2>1, <3>1 DEF Updating
    <3> QED
      BY <1>1, <1>2, <2>1, <3>1, <3>2, <3>3 DEF Updating, Accessible, Or
  <2>4. PairedAt(m, req[q].step) => PairedAt(m, req[q].step)'
    BY <1>1, <1>2, <2>1 DEF PairedAt, Paired
  <2>5. Alone(m)' => Alone(m)
    BY <1>1 DEF Alone
  <2> QED
    BY <1>1, <1>2, <1>9, <2>1, <2>2, <2>3, <2>4, <2>5 DEF IndInv, Known
<1> QED
  BY <1>1, <1>5, <1>6, <1>7, <1>8, <1>9 DEF IndInv

---------------------------------------------------------------------------
\* The theorems.

\* There is no storage at first.
LEMMA InitInv ==
    ASSUME Init
    PROVE  IndInv
<1>1. TypeOK
  <2>1. 0 \in 0..MaxWrites /\ 0 \in 0..MaxFaults
    OBVIOUS
  <2> QED
    BY <2>1 DEF Init, TypeOK
<1> QED
  BY <1>1 DEF Init, IndInv, RacesNoted, DeletingUsed, CreatedLives, RestPaired,
              UniqueLocation, Paired, Lives, Exists

\* Every step keeps the invariant.
LEMMA NextInv ==
    ASSUME IndInv, [Next]_vars
    PROVE  IndInv'
<1>1. ASSUME NEW r \in Requests, NEW n \in Names, NEW p \in Complete, ValidateCreate(r, n, p)
      PROVE  IndInv'
  BY <1>1, ValidateCreateInv
<1>2. ASSUME NEW r \in Requests, NEW n \in Names, NEW p \in Edits, ValidateUpdate(r, n, p)
      PROVE  IndInv'
  BY <1>2, ValidateUpdateInv
<1>3. ASSUME NEW r \in Requests, NEW n \in Names, ValidateDelete(r, n) PROVE IndInv'
  BY <1>3, ValidateDeleteInv
<1>4. ASSUME NEW r \in Requests,
             \/ CreateGet(r) \/ CreateSecret(r) \/ ReplaceSecret(r)
             \/ CreateObject(r) \/ Cleanup(r)
      PROVE  IndInv'
  BY <1>4, CreateGetInv, CreateSecretInv, ReplaceSecretInv, CreateObjectInv, CleanupInv
<1>5. ASSUME NEW r \in Requests, UpdateSecret(r) \/ UpdateGet(r) \/ UpdateObject(r)
      PROVE  IndInv'
  BY <1>5, UpdateSecretInv, UpdateGetInv, UpdateObjectInv
<1>6. ASSUME NEW r \in Requests,
             DeleteObject(r) \/ DeleteSecret(r) \/ CallFails(r) \/ CreateAnswerLost(r)
      PROVE  IndInv'
  BY <1>6, DeleteObjectInv, DeleteSecretInv, CallFailsInv, CreateAnswerLostInv
<1>7. ASSUME NEW n \in Names, Use(n) \/ Release(n) PROVE IndInv'
  BY <1>7, UsageInv
<1>8. CASE UNCHANGED vars
  <2>1. UNCHANGED <<storage, secret, req, created, raced, writes, faults>>
    BY <1>8 DEF vars
  <2>2. TypeOK' /\ RacesNoted'
    BY <2>1 DEF IndInv, TypeOK, RacesNoted
  <2>3. DeletingUsed' /\ CreatedLives' /\ UniqueLocation'
    BY <2>1 DEF IndInv, DeletingUsed, CreatedLives, UniqueLocation, Alone, Lives, Exists
  <2>4. RestPaired'
    BY <2>1 DEF IndInv, RestPaired, Alone, InFlight, Paired, Lives, Exists
  <2>5. ASSUME NEW r \in Requests, Creating(r) PROVE Creating(r)'
    BY <2>1, <2>5 DEF Creating, Free, Clash, Exists
  <2>6. ASSUME NEW r \in Requests, Known(r) PROVE Known(r)'
    <3>1. Updating(r) => Updating(r)'
      BY <2>1 DEF Updating, Free, Clash, Exists
    <3>2. \A n, step : PairedAt(n, step) => PairedAt(n, step)'
      BY <2>1 DEF PairedAt, Paired, Lives, Exists
    <3> QED
      BY <2>1, <2>6, <3>1, <3>2 DEF Known, Exists
  <2> QED
    BY <2>1, <2>2, <2>3, <2>4, <2>5, <2>6 DEF IndInv, Alone
<1> QED
  BY <1>1, <1>2, <1>3, <1>4, <1>5, <1>6, <1>7, <1>8 DEF Next

\* The inductive invariant holds of every state.
THEOREM Invariance == Spec => []IndInv
<1>1. Init => IndInv
  BY InitInv
<1>2. IndInv /\ [Next]_vars => IndInv'
  BY NextInv
<1> QED
  BY <1>1, <1>2, PTL DEF Spec

\* Objects, Secrets and requests keep their types.
THEOREM TypeCorrect == Spec => []TypeOK
<1>1. IndInv => TypeOK
  BY DEF IndInv
<1> QED
  BY <1>1, Invariance, PTL

\* A storage created with success has its object and its Secret until somebody
\* deletes it, whatever runs or fails besides, unless two requests about it
\* overlap.
THEOREM CreatedIsUsable == Spec => []CreatedStaysUsable
<1>1. IndInv => CreatedStaysUsable
  BY DEF IndInv, CreatedLives, CreatedStaysUsable, Alone, Lives
<1> QED
  BY <1>1, Invariance, PTL

\* Two storages have the same location only after requests about them, or two
\* about one of them, have overlapped.
THEOREM LocationsAreUnique == Spec => []UniqueLocation
<1>1. IndInv => UniqueLocation
  BY DEF IndInv
<1> QED
  BY <1>1, Invariance, PTL

\* While no call has failed, nothing is left of a storage but both its object
\* and its Secret, or neither.
THEOREM SecretsArePaired == Spec => []SecretPaired
<1>1. IndInv => SecretPaired
  BY DEF IndInv, RestPaired, SecretPaired, Alone, Paired, Lives
<1> QED
  BY <1>1, Invariance, PTL

\* The keys a creation or an update leaves in the Secret open the location of
\* the storage, or one of them is empty.
THEOREM KeysOpenTheirStorage == Spec => CredentialsGiveAccess
<1> DEFINE Opens(r) ==
      req[r] # Idle =>
        LET n == req[r].name
            keys == IF secret'[n] = None THEN [ak |-> Empty, sk |-> Empty]
                    ELSE secret'[n].keys
        IN  /\ {n} \notin raced
            /\ CreateObject(r) \/ UpdateObject(r)
            /\ storage'[n] # storage[n]
            => Accessible(storage'[n].at, keys) \/ Empty \in {keys.ak, keys.sk}
<1>1. ASSUME IndInv, NEW r \in Requests PROVE Opens(r)
  <2> SUFFICES ASSUME req[r] # Idle, Alone(req[r].name),
                      CreateObject(r) \/ UpdateObject(r),
                      storage'[req[r].name] # storage[req[r].name],
                      secret'[req[r].name] # None
               PROVE  LET n == req[r].name
                          keys == secret'[n].keys
                      IN  Accessible(storage'[n].at, keys) \/ Empty \in {keys.ak, keys.sk}
    BY DEF Alone
  <2>1. PICK n \in Names : n = req[r].name
    BY <1>1, OwnKnown
  <2>2. Known(r) /\ UNCHANGED secret /\ req[r].params \in Params
    BY <1>1, OwnKnown DEF CreateObject, UpdateObject
  <2>3. CASE CreateObject(r)
    <3> DEFINE p == req[r].params
    <3>1. req[r].step = "create" /\ Creating(r)
      BY <1>1, <2>3, OwnKnown DEF CreateObject, At
    <3>2. storage' = [storage EXCEPT ![n] = NewObject(p)]
      BY <2>1, <2>3 DEF CreateObject
    <3>3. storage'[n].at = Place(p)
      BY <1>1, <3>1, <3>2, NewObjectTyped DEF IndInv, TypeOK, Creating
    <3>4. secret[n].keys = [ak |-> Or(p.ak, Empty), sk |-> Or(p.sk, Empty)]
      BY <2>1, <2>2, <3>1, SecretDataTyped DEF Known
    <3> QED
      BY <2>1, <2>2, <3>1, <3>3, <3>4 DEF Creating, Accessible, Or
  <2>4. CASE UpdateObject(r)
    <3>1. req[r].step = "uput" /\ Updating(r)
      BY <2>2, <2>4 DEF UpdateObject, At, Known
    <3>2. /\ Exists(n) /\ storage[n] \in Object
          /\ storage' = [storage EXCEPT ![n].at = Moved(storage[n].at, req[r].params),
                                        ![n].rv = writes + 1]
      BY <1>1, <2>1, <2>4, OwnKnown DEF UpdateObject
    <3>3. storage'[n].at = Moved(storage[n].at, req[r].params)
      BY <1>1, <3>2 DEF IndInv, TypeOK, Object
    <3> QED
      BY <2>1, <2>2, <3>1, <3>2, <3>3 DEF Updating
  <2> QED
    BY <2>3, <2>4
<1>2. IndInv => \A r \in Requests : Opens(r)
  BY <1>1
<1> QED
  BY <1>2, Invariance, PTL DEF CredentialsGiveAccess
============================================================================
