----------------------------- MODULE SecretManager -----------------------------
(***************************************************************************)
(* Secret Manager's store over the cluster: one secret ID, its versions,   *)
(* the mount Secret that holds decrypted copies for workloads, the loop    *)
(* that expires secrets, rotates them and carries out scheduled            *)
(* destructions, and the loop that re-checks what is mounted.              *)
(*                                                                         *)
(* Store.mu makes each call atomic, but a call is several requests to the  *)
(* API server.  One may fail, having taken effect or not, and the call     *)
(* then stops between two of its writes; the process may also stop there,  *)
(* which is a failed request followed by RestartStore.  KubeStore's memory *)
(* follows a request only when its answer says it was carried out.         *)
(*                                                                         *)
(* The zero time is 0, the clock starts at 1.  A payload is the number of  *)
(* the AddVersion that brought it, so no two are alike; 0 is none.  Every  *)
(* version is under a customer-managed key, which only adds a key that may *)
(* be unusable and the mount Secret.  Left out: labels, policies, topics   *)
(* and what is published to them, and "latest", which is one of the        *)
(* numbers a caller may name.                                              *)
(***************************************************************************)
EXTENDS Integers, FiniteSetsExt

CONSTANTS RotationPeriod, \* rotation_period; 0 is none
          Scenarios       \* what a run may do: whether versions are under a
                          \* customer-managed key, how many secrets are
                          \* created with the ID and how many version
                          \* numbers used, how far from now an
                          \* expire_time, a next_rotation_time and a
                          \* destruction may lie (0 is none), the base
                          \* clock's last time, how far Advance moves the
                          \* store's clock, and how many requests fail

ASSUME SecretAssumption ==
    /\ RotationPeriod \in Nat
    /\ \A s \in Scenarios :
          /\ s.keyed \in BOOLEAN
          /\ {s.versions, s.made, s.base, s.offset, s.faults} \subseteq Nat
          /\ s.expiries \cup s.rotations \cup s.ttls \subseteq Nat

VARIABLES scene,    \* the scenario of this run
          cluster,  \* the Kubernetes Secrets: the head, the versions, the mount
          cache,    \* KubeStore.secrets
          base,     \* clock.Now()
          offset,   \* Store.offset
          sweeper,  \* Run: what it does, and the base time its timer fires
          rearm,    \* Store.rearm, a channel of one
          advancing, \* an Advance has moved the clock and not swept yet
          deploy,   \* a ResolveSecretRef under way
          keyOK,    \* the keys can encrypt and decrypt
          made,     \* secrets created so far
          adds,     \* AddVersion calls that stored a payload
          faults,   \* requests that failed
          torn      \* a deletion failed part-way

secretVars == <<scene, cluster, cache, base, offset, sweeper, rearm, advancing, deploy,
                keyOK, made, adds, faults, torn>>

Numbers == 1..scene.versions

NoSecret == [made |-> 0]
NoVersion == [made |-> 0]
NoMount == -1

Secret == [made: 1..scene.made, next: Nat, expire: Nat, ttl: scene.ttls, rot: Nat,
           sched: [Numbers -> Nat]]
Version == [made: 1..scene.made, bytes: 0..adds, sched: Nat,
            state: {"ENABLED", "DISABLED", "DESTROYED"}]

Now == base + offset
Expired(h) == h.expire # 0 /\ Now >= h.expire

\* getSecret found the secret, and it has not expired.
Live == cache.head # NoSecret /\ ~Expired(cache.head)

(* Requests to the API server. *)

PutHead(h) == [op |-> "head", head |-> h]
PutVersion(n, v) == [op |-> "version", n |-> n, version |-> v]
SetMount(n, bytes) == [op |-> "mount", n |-> n, bytes |-> bytes]
DeleteCollection == [op |-> "collection"]
DeleteHead == [op |-> "headless"]
DeleteMounts == [op |-> "unmount"]
NoRequest == [op |-> "none"]

Nothing == [n \in Numbers |-> NoVersion]
Unmounted == [n \in Numbers |-> NoMount]

\* What a request does to the cluster.
Effect(s, r) ==
    CASE r.op = "head"       -> [s EXCEPT !.head = r.head]
      [] r.op = "version"    -> [s EXCEPT !.versions[r.n] = r.version]
      [] r.op = "mount"      -> [s EXCEPT !.mount[r.n] = r.bytes]
      [] r.op = "collection" -> [s EXCEPT !.head = NoSecret, !.versions = Nothing]
      [] r.op = "headless"   -> [s EXCEPT !.head = NoSecret]
      [] r.op = "unmount"    -> [s EXCEPT !.mount = Unmounted]

\* What the copy in memory makes of a request that was answered.
Remember(m, r) ==
    CASE r.op = "head"     -> [m EXCEPT !.head = r.head]
      [] r.op = "version"  -> [m EXCEPT !.versions[r.n] = r.version]
      [] r.op = "headless" -> [head |-> NoSecret, versions |-> Nothing]
      [] r.op \in {"mount", "collection", "unmount"} -> m

\* What a failed request may leave in the cluster: nothing done, all of it
\* (the answer was lost), or some of a collection deleted.
Partly(s, h, kept) ==
    [s EXCEPT !.head = IF h THEN s.head ELSE NoSecret,
              !.versions = [n \in Numbers |-> IF n \in kept THEN s.versions[n] ELSE NoVersion]]
Failing(s, r) ==
    {s, Effect(s, r)} \cup
    (IF r.op # "collection" THEN {}
     ELSE {Partly(s, h, kept) : h \in BOOLEAN, kept \in SUBSET Numbers})

\* A call as it stands: the cluster, the copy in memory, and whether one of
\* its requests has failed.
Standing(c, m) == [cluster |-> c, cache |-> m, failed |-> 0]
CallBegins == Standing(cluster, cache)

\* How a call may stand after its next request: a failed one has ended it.
Request(o, r) ==
    IF o.failed = 1 \/ r.op = "none" THEN {o}
    ELSE {Standing(Effect(o.cluster, r), Remember(o.cache, r))}
         \cup {[cluster |-> c, cache |-> o.cache, failed |-> 1] :
               c \in {x \in Failing(o.cluster, r) : faults < scene.faults}}
Then(standings, r) == UNION {Request(o, r) : o \in standings}

\* The call ends with outcome o.
CallEnds(o) ==
    /\ faults + o.failed <= scene.faults
    /\ faults' = faults + o.failed
    /\ cluster' = o.cluster /\ cache' = o.cache

\* Mutant: the loop is not woken.
wakeNever == UNCHANGED rearm
wake == rearm' = TRUE

(* Calls. *)

\* Mutant: only the secret's own Secret is deleted.
DeletingHeadOnly(o) == Then(Request(o, DeleteHead), DeleteMounts)

\* deleteSecret: DeleteSecretRecords is one DeleteCollection, then the
\* secret's own Secret, after which the copy in memory goes; then deleteMounts.
Deleting(o) == Then(Then(Request(o, DeleteCollection), DeleteHead), DeleteMounts)

FreshHead == [made: {made + 1}, next: {1}, ttl: scene.ttls,
              expire: {IF d = 0 THEN 0 ELSE Now + d : d \in scene.expiries},
              rot: {IF d = 0 THEN 0 ELSE Now + d : d \in scene.rotations},
              sched: {[n \in Numbers |-> 0]}]

\* CreateSecret.  An expired secret is deleted first, and the create goes on
\* whether or not that deletion failed: getSecret returned an error.
CreateSecret ==
    /\ made < scene.made /\ ~Live
    /\ \E h \in FreshHead,
          gone \in IF cache.head = NoSecret THEN {CallBegins} ELSE Deleting(CallBegins) :
       \E o \in Request(Standing(gone.cluster, gone.cache), PutHead(h)) :
          /\ CallEnds([o EXCEPT !.failed = @ + gone.failed])
          /\ torn' = (torn \/ gone.failed = 1)
          /\ IF o.failed = 0 /\ (h.expire # 0 \/ h.rot # 0) THEN wake ELSE UNCHANGED rearm
    /\ made' = made + 1
    /\ UNCHANGED <<scene, base, offset, sweeper, advancing, deploy, keyOK, adds>>

\* UpdateSecretFields with one field in its mask, and SetIamPolicy: a field
\* the model leaves out rewrites the secret as it is.
Updated(field, d) ==
    LET at == IF d = 0 THEN 0 ELSE Now + d IN
    CASE field = "expire" -> [cache.head EXCEPT !.expire = at]
      [] field = "rotation" -> [cache.head EXCEPT !.rot = at]
      [] field = "ttl" -> [cache.head EXCEPT !.ttl = d]
      [] field = "labels" -> cache.head

UpdateSecret ==
    /\ Live
    /\ \E u \in ({"expire"} \X scene.expiries) \cup ({"rotation"} \X scene.rotations)
               \cup ({"ttl"} \X scene.ttls) \cup {<<"labels", 0>>} :
          /\ \E o \in Request(CallBegins, PutHead(Updated(u[1], u[2]))) : CallEnds(o)
          /\ IF u[1] \in {"expire", "rotation"} THEN wake ELSE UNCHANGED rearm
    /\ UNCHANGED <<scene, base, offset, sweeper, advancing, deploy, keyOK, made, adds,
                   torn>>

\* deleteSecret, for DeleteSecret and for a read that finds the secret
\* expired.
DeleteSecret ==
    /\ cache.head # NoSecret
    /\ \E o \in Deleting(CallBegins) :
          CallEnds(o) /\ torn' = (torn \/ o.failed = 1)
    /\ UNCHANGED <<scene, base, offset, sweeper, rearm, advancing, deploy, keyOK, made,
                   adds>>

\* Reset.  The copy in memory is dropped first, and the next call lists the
\* cluster again; that list is taken here, and is answered.
Loaded(c) == [head |-> c.head, versions |-> c.versions]
EmptyCluster == [head |-> NoSecret, versions |-> Nothing, mount |-> Unmounted]

ResetSecrets ==
    /\ \E whole \in BOOLEAN :
       /\ faults' = IF whole THEN faults ELSE faults + 1
       /\ faults' <= scene.faults
       /\ IF whole
          THEN cluster' = EmptyCluster
          ELSE \E m \in {cluster.mount, Unmounted} :
               cluster' \in {[c EXCEPT !.mount = m] : c \in Failing(cluster, DeleteCollection)}
       /\ torn' = (torn \/ ~whole)
    /\ cache' = Loaded(cluster')
    /\ UNCHANGED <<scene, base, offset, sweeper, rearm, advancing, deploy, keyOK, made,
                   adds>>

TakesNumber == PutHead([cache.head EXCEPT !.next = @ + 1])

\* Mutant: the version is written before its number is taken.
AddingVersionFirst(n, v) == Then(Request(CallBegins, PutVersion(n, v)), TakesNumber)

\* addVersion: the number is taken on the secret before the version is
\* written.
Adding(n, v) == Then(Request(CallBegins, TakesNumber), PutVersion(n, v))

AddVersion ==
    /\ Live /\ keyOK /\ cache.head.next \in Numbers
    /\ adds' = adds + 1
    /\ \E o \in Adding(cache.head.next, [made |-> cache.head.made, bytes |-> adds + 1,
                                         sched |-> 0, state |-> "ENABLED"]) : CallEnds(o)
    /\ UNCHANGED <<scene, base, offset, sweeper, rearm, advancing, deploy, keyOK, made,
                   torn>>

\* dropMount.
DropMount(n) == IF cluster.mount[n] > 0 THEN SetMount(n, 0) ELSE NoRequest

\* SetVersionState: it cancels a scheduled destruction.
Setting(n, state) ==
    LET v == cache.versions[n] IN
    Then(Then(Request(CallBegins, PutVersion(n, [v EXCEPT !.state = state, !.sched = 0])),
              IF v.sched # 0 THEN PutHead([cache.head EXCEPT !.sched[n] = 0]) ELSE NoRequest),
         IF state = "DISABLED" THEN DropMount(n) ELSE NoRequest)

\* Mutant: a destroyed version can be enabled.
MaySetStateAny(v) == v # NoVersion

\* Destruction is terminal.
MaySetState(v) == v # NoVersion /\ v.state # "DESTROYED"

SetVersionState ==
    /\ Live
    /\ \E n \in Numbers, state \in {"ENABLED", "DISABLED"} :
          /\ MaySetState(cache.versions[n])
          /\ \E o \in Setting(n, state) : CallEnds(o)
    /\ UNCHANGED <<scene, base, offset, sweeper, rearm, advancing, deploy, keyOK, made,
                   adds, torn>>

\* destroyNowQuiet: the payload goes, then the decrypted copy.
Destroyed(n) == [cache.versions[n] EXCEPT !.state = "DESTROYED", !.sched = 0, !.bytes = 0]
Destroying(o, n) == Then(Request(o, PutVersion(n, Destroyed(n))), DropMount(n))

\* scheduleDestroy: the version first, then the secret's list.
Scheduling(n, at) ==
    Then(Request(CallBegins,
                 PutVersion(n, [cache.versions[n] EXCEPT !.state = "DISABLED", !.sched = at])),
         PutHead([cache.head EXCEPT !.sched[n] = at]))

DestroyVersion ==
    /\ Live
    /\ \E n \in Numbers :
          /\ cache.versions[n] # NoVersion
          /\ cache.versions[n].state # "DESTROYED" /\ cache.versions[n].sched = 0
          /\ LET later == cache.head.ttl > 0 IN
             \E o \in IF later THEN Scheduling(n, Now + cache.head.ttl)
                     ELSE Destroying(CallBegins, n) :
                /\ CallEnds(o)
                /\ IF later /\ o.failed = 0 THEN wake ELSE UNCHANGED rearm
    /\ UNCHANGED <<scene, base, offset, sweeper, advancing, deploy, keyOK, made, adds,
                   torn>>

(* The sweep, and the loop that runs it. *)

DueNumbers == {n \in Numbers : cache.head.sched[n] # 0 /\ Now >= cache.head.sched[n]}

\* Mutant: the secret's list alone decides.
ScheduledListed(v) == v # NoVersion /\ v.state # "DESTROYED"

\* A destruction that was cancelled, or done already, is only forgotten.
Scheduled(v) == v # NoVersion /\ v.sched # 0 /\ v.state # "DESTROYED"

\* As many periods on as it takes to be after now.
NextRotation(rot) ==
    IF rot = 0 \/ Now < rot THEN rot
    ELSE IF RotationPeriod = 0 THEN 0
    ELSE rot + RotationPeriod * ((Now - rot) \div RotationPeriod + 1)

\* due leaves the secret so.
Swept(h) == [h EXCEPT !.rot = NextRotation(@),
                      !.sched = [n \in Numbers |->
                                    IF n \in DueNumbers THEN 0 ELSE h.sched[n]]]

\* What is destroyed, and how the call stands when it comes to number k.
DueDestroyed == {n \in DueNumbers : Scheduled(cache.versions[n])}
DestroyedBefore(k) ==
    Standing([cluster EXCEPT
                !.versions = [n \in Numbers |-> IF n \in DueDestroyed /\ n < k
                                                THEN Destroyed(n) ELSE cluster.versions[n]],
                !.mount = [n \in Numbers |-> IF n \in DueDestroyed /\ n < k
                                                /\ cluster.mount[n] > 0
                                             THEN 0 ELSE cluster.mount[n]]],
             [cache EXCEPT
                !.versions = [n \in Numbers |-> IF n \in DueDestroyed /\ n < k
                                                THEN Destroyed(n) ELSE cache.versions[n]]])

\* due: one destruction after the other, up to the first that fails, and then
\* the secret, if it has changed.
RunsDue ==
    Then({DestroyedBefore(scene.versions + 1)}
         \cup {o \in UNION {Destroying(DestroyedBefore(n), n) : n \in DueDestroyed} :
               o.failed = 1},
         IF Swept(cache.head) # cache.head THEN PutHead(Swept(cache.head)) ELSE NoRequest)

Sweeping == IF cache.head = NoSecret THEN {CallBegins}
            ELSE IF Expired(cache.head) THEN Deleting(CallBegins) ELSE RunsDue

\* The earliest time still to come; 0 if none.
Upcoming(h) ==
    LET times == {h.expire, h.rot} \cup {h.sched[n] : n \in Numbers} IN
    IF h = NoSecret \/ times = {0} THEN 0 ELSE Min(times \ {0})

\* Sweep, and the torn deletion it may leave.
SweepEnds(o) ==
    /\ CallEnds(o)
    /\ torn' = (torn \/ (o.failed = 1 /\ cache.head # NoSecret /\ Expired(cache.head)))

\* Run sweeps, then sleeps until the next time, until it is to retry, or
\* with no timer at all.
Sweep ==
    /\ sweeper.pc = "sweep"
    /\ UNCHANGED <<scene, base, offset, rearm, advancing, deploy, keyOK, made, adds>>
    /\ \E o \in Sweeping :
          /\ SweepEnds(o)
          /\ sweeper' = IF o.failed = 1 THEN [pc |-> "retry", at |-> 0]
                        ELSE LET next == Upcoming(o.cache.head) IN
                             [pc |-> "sleep",
                              at |-> IF next = 0 THEN 0 ELSE next - offset]

\* Run's select: the backoff of a failed sweep ends, a call woke it, or its
\* timer fires.
RunWakes ==
    /\ sweeper.pc \in {"retry", "sleep"}
    /\ sweeper' = [pc |-> "sweep", at |-> 0]
    /\ \/ rearm /\ rearm' = FALSE
       \/ /\ \/ sweeper.pc = "retry"
             \/ sweeper.at # 0 /\ base >= sweeper.at
          /\ UNCHANGED rearm
    /\ UNCHANGED <<scene, cluster, cache, base, offset, advancing, deploy, keyOK, made,
                   adds, faults, torn>>

\* Advance moves the clock, which takes no lock, and then sweeps and wakes
\* Run, whose timer runs on the base clock.
Advance ==
    /\ ~advancing /\ advancing' = TRUE
    /\ \E to \in offset + 1..scene.offset : offset' = to
    /\ UNCHANGED <<scene, cluster, cache, base, sweeper, rearm, deploy, keyOK, made, adds,
                   faults, torn>>

AdvanceSweeps ==
    /\ advancing /\ advancing' = FALSE
    /\ UNCHANGED <<scene, base, offset, sweeper, deploy, keyOK, made, adds>>
    /\ \E o \in Sweeping : SweepEnds(o)
    /\ wake

(* Mounting. *)

Idle == [pc |-> "idle"]

\* Accessible, and its keys can decrypt it.
Readable(v) == v # NoVersion /\ v.state = "ENABLED" /\ keyOK


\* RefreshMounts puts back or takes away each recorded plaintext.
Refreshed(n) ==
    LET readable == Readable(cache.versions[n]) IN
    IF cluster.mount[n] = NoMount \/ (cluster.mount[n] > 0) = readable THEN cluster.mount[n]
    ELSE IF readable THEN cache.versions[n].bytes ELSE 0

\* How the call stands when it comes to number k.
RefreshedBefore(k) ==
    Standing([cluster EXCEPT !.mount = [n \in Numbers |->
                  IF n < k THEN Refreshed(n) ELSE cluster.mount[n]]], cache)

RefreshMounts ==
    /\ UNCHANGED <<scene, base, offset, sweeper, rearm, advancing, deploy, keyOK, made,
                   adds, torn>>
    /\ \E o \in {RefreshedBefore(scene.versions + 1)} \cup
            {x \in UNION {Request(RefreshedBefore(n), SetMount(n, Refreshed(n))) :
                         n \in {i \in Numbers : Refreshed(i) # cluster.mount[i]}} :
             x.failed = 1} :
          CallEnds(o)

\* ResolveSecretRef takes Store.mu three times: to resolve the version, to
\* read it, and to mount what it read.
ResolveRef ==
    /\ scene.keyed /\ deploy = Idle /\ Live
    /\ \E n \in Numbers : deploy' = [pc |-> "named", n |-> n]
    /\ UNCHANGED <<scene, cluster, cache, base, offset, sweeper, rearm, advancing, keyOK,
                   made, adds, faults, torn>>

ReadRef ==
    /\ deploy.pc = "named" /\ (cache.head = NoSecret \/ Live)
    /\ LET v == cache.versions[deploy.n] IN
       deploy' = IF cache.head # NoSecret /\ v # NoVersion /\ v.state = "ENABLED"
                 THEN [pc |-> "read", n |-> deploy.n, bytes |-> v.bytes] ELSE Idle
    /\ UNCHANGED <<scene, cluster, cache, base, offset, sweeper, rearm, advancing, keyOK,
                   made, adds, faults, torn>>

MountRef ==
    /\ deploy.pc = "read" /\ deploy' = Idle
    /\ \E o \in Request(CallBegins, IF keyOK THEN SetMount(deploy.n, deploy.bytes)
                                   ELSE NoRequest) : CallEnds(o)
    /\ UNCHANGED <<scene, base, offset, sweeper, rearm, advancing, keyOK, made, adds, torn>>

(* The environment. *)

\* A key is disabled, destroyed or enabled in Cloud KMS.
KmsChanges ==
    /\ scene.keyed
    /\ keyOK' = ~keyOK
    /\ UNCHANGED <<scene, cluster, cache, base, offset, sweeper, rearm, advancing, deploy,
                   made, adds, faults, torn>>

BaseTick ==
    /\ base < scene.base /\ base' = base + 1
    /\ UNCHANGED <<scene, cluster, cache, offset, sweeper, rearm, advancing, deploy, keyOK,
                   made, adds, faults, torn>>

\* The process starts again: the store lists the cluster, its clock is the
\* base clock again, and Run sweeps.  A list that fails ends the start, and
\* another one follows.
RestartStore ==
    /\ cache' = Loaded(cluster) /\ offset' = 0
    /\ sweeper' = [pc |-> "sweep", at |-> 0] /\ rearm' = FALSE /\ advancing' = FALSE
    /\ deploy' = Idle
    /\ UNCHANGED <<scene, cluster, base, keyOK, made, adds, faults, torn>>

SecretInit ==
    /\ scene \in Scenarios
    /\ cluster = EmptyCluster
    /\ cache = Loaded(cluster)
    /\ base = 1 /\ offset = 0
    /\ sweeper = [pc |-> "sweep", at |-> 0] /\ rearm = FALSE /\ advancing = FALSE
    /\ deploy = Idle /\ keyOK = TRUE
    /\ made = 0 /\ adds = 0 /\ faults = 0 /\ torn = FALSE

SecretNext ==
    \/ CreateSecret \/ UpdateSecret \/ DeleteSecret \/ ResetSecrets
    \/ AddVersion \/ SetVersionState \/ DestroyVersion
    \/ Sweep \/ RunWakes \/ Advance \/ AdvanceSweeps
    \/ RefreshMounts \/ ResolveRef \/ ReadRef \/ MountRef
    \/ KmsChanges \/ BaseTick \/ RestartStore

\* The loops run: each of their steps is taken once it stays possible.
SecretFairness ==
    /\ WF_secretVars(Sweep) /\ WF_secretVars(RunWakes)
    /\ WF_secretVars(AdvanceSweeps) /\ WF_secretVars(RefreshMounts)

SecretSpec == SecretInit /\ [][SecretNext]_secretVars
SecretFairSpec == SecretSpec /\ SecretFairness
------------------------------------------------------------------------------
\* The records have their types, and a destroyed version has no payload
\* (destroyNow: "The payload is cleared, not flagged"), in the cluster as in
\* memory.
SecretTypeOK ==
    /\ \A s \in {Loaded(cluster), cache} :
          /\ s.head = NoSecret \/ s.head \in Secret
          /\ \A n \in Numbers :
                \/ s.versions[n] = NoVersion
                \/ /\ s.versions[n] \in Version
                   /\ s.versions[n].state = "DESTROYED" => s.versions[n].bytes = 0
    /\ cluster.mount \in [Numbers -> {NoMount} \cup 0..adds]

\* Every version belongs to the secret there is, and none outlives it
\* (DeleteSecret: an orphaned version "could be listed by a later secret
\* with the same ID"), whatever writes fail, unless a deletion itself failed
\* part-way.
OwnVersions ==
    ~torn => \A s \in {Loaded(cluster), cache}, n \in Numbers :
        s.versions[n] # NoVersion => s.versions[n].made = s.head.made

\* A version number of a secret never comes to name another payload, though
\* an AddVersion, or the process, may stop between its two writes: NextVersion
\* is written before the version that takes it.
NumbersNotReused ==
    [][\A n \in Numbers :
         LET v == cluster.versions[n] w == cluster'.versions[n] IN
         (v # NoVersion /\ v.made = w.made /\ 0 \notin {v.bytes, w.bytes})
            => v.bytes = w.bytes]_secretVars

\* A destroyed version of a secret stays destroyed: no later call, sweep or
\* restart gives it a payload or another state.
DestroyedStays ==
    [][\A n \in Numbers :
         LET v == cache.versions[n] w == cache'.versions[n] IN
         (v # NoVersion /\ v.made = w.made /\ v.state = "DESTROYED")
            => w.state = "DESTROYED"]_secretVars

\* A destruction that was cancelled is not carried out, even when the write
\* that takes it off the secret's list failed: a sweep destroys only versions
\* that still say they are scheduled.
CancelledKept ==
    [][sweeper' # sweeper /\ sweeper.pc = "sweep" =>
       \A n \in Numbers :
         (cache.versions[n] # NoVersion /\ cache.versions[n].sched = 0)
            => cache'.versions[n] \in {cache.versions[n], NoVersion}]_secretVars

\* Something of the secret is overdue: its expiry, its rotation or a listed
\* destruction.
Overdue ==
    /\ cache.head # NoSecret
    /\ \/ Expired(cache.head) \/ DueNumbers # {}
       \/ cache.head.rot # 0 /\ Now >= cache.head.rot

\* What is overdue is seen to: the loop never sleeps through a time that a
\* call, an advance of the clock or a restart brought nearer, and a failed
\* sweep is tried again.
SweepCatchesUp == []<>~Overdue

==============================================================================
