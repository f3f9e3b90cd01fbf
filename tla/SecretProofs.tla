----------------------------- MODULE SecretProofs -----------------------------
(***************************************************************************)
(* Proofs about Secret Manager, for any numbers of versions, secrets,      *)
(* sweeps and failing requests: what the cluster and the copy in memory    *)
(* have keeps its types, versions are those of their secret, numbers and   *)
(* destructions last, and a cancelled destruction is not carried out.  A   *)
(* call is a sequence of requests any of which may fail; the lemmas go     *)
(* from a request to a call, and from the calls to the steps.              *)
(***************************************************************************)
EXTENDS SecretManager, TLAPS

\* The types, with k secrets created and a payloads brought so far.
Heads(k) == {NoSecret} \cup [made: 1..k, next: Nat, expire: Nat, ttl: scene.ttls, rot: Nat,
                            sched: [Numbers -> Nat]]
Payloads(k, a) ==
    {NoVersion} \cup {v \in [made: 1..k, bytes: 0..a, sched: Nat,
                            state: {"ENABLED", "DISABLED", "DESTROYED"}] :
                     v.state = "DESTROYED" => v.bytes = 0}
Copies(k, a) == [head: Heads(k), versions: [Numbers -> Payloads(k, a)]]
Clusters(k, a) == [head: Heads(k), versions: [Numbers -> Payloads(k, a)],
                   mount: [Numbers -> {NoMount} \cup 0..a]]

\* A version of the secret h has a number that h has given out.
Given(h, n, v) == v # NoVersion /\ v.made = h.made => n < h.next
\* A version in the cluster and the copy of it in memory: their payloads do
\* not differ, but that one may have been destroyed, and what memory takes
\* for destroyed is.
Agree(v, w) ==
    v # NoVersion /\ w # NoVersion /\ v.made = w.made =>
       /\ v.bytes = w.bytes \/ v.bytes = 0 \/ w.bytes = 0
       /\ w.state = "DESTROYED" => v.state = "DESTROYED"
Sound(c, m) ==
    \A n \in Numbers :
       /\ Given(c.head, n, c.versions[n]) /\ Given(c.head, n, m.versions[n])
       /\ Given(m.head, n, c.versions[n]) /\ Given(m.head, n, m.versions[n])
       /\ Agree(c.versions[n], m.versions[n])

\* A standing of a call that leaves what the invariant says.
Good(o, k, a) ==
    /\ o.cluster \in Clusters(k, a) /\ o.cache \in Copies(k, a)
    /\ Sound(o.cluster, o.cache)

\* What a version of a number may become in one call.
Same(v, w) == v # NoVersion /\ v.made = w.made /\ v.bytes # 0 /\ w.bytes # 0 => v.bytes = w.bytes
Stays(v, w) == v # NoVersion /\ v.made = w.made /\ v.state = "DESTROYED" => w.state = "DESTROYED"
Along(o) == \A n \in Numbers : /\ Same(cluster.versions[n], o.cluster.versions[n])
                               /\ Stays(cache.versions[n], o.cache.versions[n])

\* Without a deletion that failed part-way: the versions are those of the
\* secret there is, in memory and in the cluster.
Owned(c, m) ==
    /\ \A n \in Numbers : /\ c.versions[n] # NoVersion => c.versions[n].made = c.head.made
                          /\ m.versions[n] # NoVersion => m.versions[n].made = m.head.made
    /\ m.head # NoSecret => c.head.made = m.head.made
    /\ m.head = NoSecret => \A n \in Numbers : c.versions[n] = NoVersion
------------------------------------------------------------------------------
WithHead(c, h) == [c EXCEPT !.head = h]
WithVersion(c, n, v) == [c EXCEPT !.versions[n] = v]
WithMount(c, n, y) == [c EXCEPT !.mount[n] = y]
Emptied(c) == [c EXCEPT !.head = NoSecret, !.versions = Nothing]
WithoutMounts(c) == [c EXCEPT !.mount = Unmounted]

LEMMA HeadEffect ==
    ASSUME NEW c, NEW h
    PROVE  /\ Effect(c, PutHead(h)) = WithHead(c, h)
           /\ Remember(c, PutHead(h)) = WithHead(c, h)
           /\ Failing(c, PutHead(h)) = {c, WithHead(c, h)}
           /\ PutHead(h).op = "head"
  <1>1. PutHead(h).op = "head" /\ PutHead(h).head = h
    BY Zenon DEF PutHead
  <1> HIDE DEF PutHead
  <1>2. Effect(c, PutHead(h)) = WithHead(c, h)
    BY <1>1, Zenon DEF Effect, WithHead, WithVersion, WithMount
  <1>3. Remember(c, PutHead(h)) = WithHead(c, h)
    BY <1>1, Zenon DEF Remember, WithHead, WithVersion
  <1> QED BY <1>1, <1>2, <1>3 DEF Failing

LEMMA VersionEffect ==
    ASSUME NEW c, NEW n, NEW v
    PROVE  /\ Effect(c, PutVersion(n, v)) = WithVersion(c, n, v)
           /\ Remember(c, PutVersion(n, v)) = WithVersion(c, n, v)
           /\ Failing(c, PutVersion(n, v)) = {c, WithVersion(c, n, v)}
           /\ PutVersion(n, v).op = "version"
  <1>1. PutVersion(n, v).op = "version" /\ PutVersion(n, v).n = n
        /\ PutVersion(n, v).version = v
    BY Zenon DEF PutVersion
  <1>2. Effect(c, PutVersion(n, v)) = WithVersion(c, n, v)
    BY <1>1, Zenon DEF Effect, WithHead, WithVersion, WithMount
  <1>3. Remember(c, PutVersion(n, v)) = WithVersion(c, n, v)
    BY <1>1, Zenon DEF Remember, WithHead, WithVersion
  <1> QED BY <1>1, <1>2, <1>3 DEF Failing

LEMMA MountEffect ==
    ASSUME NEW c, NEW n, NEW y
    PROVE  /\ Effect(c, SetMount(n, y)) = WithMount(c, n, y)
           /\ Remember(c, SetMount(n, y)) = c
           /\ Failing(c, SetMount(n, y)) = {c, WithMount(c, n, y)}
           /\ SetMount(n, y).op = "mount"
  <1>1. SetMount(n, y).op = "mount" /\ SetMount(n, y).n = n /\ SetMount(n, y).bytes = y
    BY Zenon DEF SetMount
  <1>2. Effect(c, SetMount(n, y)) = WithMount(c, n, y)
    BY <1>1, Zenon DEF Effect, WithHead, WithVersion, WithMount
  <1>3. Remember(c, SetMount(n, y)) = c
    BY <1>1, Zenon DEF Remember, WithHead, WithVersion
  <1> QED BY <1>1, <1>2, <1>3 DEF Failing

\* How a call may stand after a request that is made.
LEMMA Requested ==
    ASSUME NEW o, NEW r, r.op # "none", NEW p \in Request(o, r)
    PROVE  \/ p = o /\ o.failed = 1
           \/ p.cluster \in Failing(o.cluster, r) /\ p.cache = o.cache /\ p.failed = 1
           \/ /\ p.cluster = Effect(o.cluster, r) /\ p.cache = Remember(o.cache, r)
              /\ p.failed = 0
  BY DEF Request, Standing

\* What writing the secret may come to.
LEMMA HeadPut ==
    ASSUME NEW o, NEW h, NEW p \in Request(o, PutHead(h))
    PROVE  \/ p = o /\ o.failed = 1
           \/ /\ p.cluster = o.cluster \/ p.cluster = WithHead(o.cluster, h)
              /\ p.cache = o.cache /\ p.failed = 1
           \/ /\ p.cluster = WithHead(o.cluster, h)
              /\ p.cache = WithHead(o.cache, h) /\ p.failed = 0
  BY Requested, HeadEffect

\* What writing a version may come to.
LEMMA VersionPut ==
    ASSUME NEW o, NEW n, NEW v, NEW p \in Request(o, PutVersion(n, v))
    PROVE  \/ p = o /\ o.failed = 1
           \/ /\ p.cluster = o.cluster \/ p.cluster = WithVersion(o.cluster, n, v)
              /\ p.cache = o.cache /\ p.failed = 1
           \/ /\ p.cluster = WithVersion(o.cluster, n, v)
              /\ p.cache = WithVersion(o.cache, n, v) /\ p.failed = 0
  <1>1. PutVersion(n, v).op # "none"
    BY VersionEffect, Zenon
  <1>2. \/ p = o /\ o.failed = 1
        \/ /\ p.cluster \in Failing(o.cluster, PutVersion(n, v))
           /\ p.cache = o.cache /\ p.failed = 1
        \/ /\ p.cluster = Effect(o.cluster, PutVersion(n, v))
           /\ p.cache = Remember(o.cache, PutVersion(n, v)) /\ p.failed = 0
    BY <1>1, Requested, Zenon
  <1>3. /\ Effect(o.cluster, PutVersion(n, v)) = WithVersion(o.cluster, n, v)
        /\ Failing(o.cluster, PutVersion(n, v)) = {o.cluster, WithVersion(o.cluster, n, v)}
    BY VersionEffect, Zenon
  <1>4. Remember(o.cache, PutVersion(n, v)) = WithVersion(o.cache, n, v)
    BY VersionEffect, Zenon
  <1> QED BY <1>2, <1>3, <1>4, Zenon

\* What writing the mount Secret may come to.
LEMMA MountSet ==
    ASSUME NEW o, NEW n, NEW y, NEW p \in Request(o, SetMount(n, y))
    PROVE  \/ p = o
           \/ /\ p.cluster = o.cluster \/ p.cluster = WithMount(o.cluster, n, y)
              /\ p.cache = o.cache
  <1>1. SetMount(n, y).op # "none"
    BY MountEffect, Zenon
  <1>2. \/ p = o /\ o.failed = 1
        \/ /\ p.cluster \in Failing(o.cluster, SetMount(n, y))
           /\ p.cache = o.cache /\ p.failed = 1
        \/ /\ p.cluster = Effect(o.cluster, SetMount(n, y))
           /\ p.cache = Remember(o.cache, SetMount(n, y)) /\ p.failed = 0
    BY <1>1, Requested, Zenon
  <1>3. /\ Effect(o.cluster, SetMount(n, y)) = WithMount(o.cluster, n, y)
        /\ Failing(o.cluster, SetMount(n, y)) = {o.cluster, WithMount(o.cluster, n, y)}
    BY MountEffect, Zenon
  <1>4. Remember(o.cache, SetMount(n, y)) = o.cache
    BY MountEffect, Zenon
  <1> QED BY <1>2, <1>3, <1>4, Zenon

LEMMA NothingAsked ==
    ASSUME NEW o, NEW p \in Request(o, NoRequest) PROVE p = o
  BY Zenon DEF Request, NoRequest

\* What deleting all there is of the secret may come to.
LEMMA CollectionDeleted ==
    ASSUME NEW o, NEW p \in Request(o, DeleteCollection)
    PROVE  \/ p = o /\ o.failed = 1
           \/ /\ p.cluster \in Failing(o.cluster, DeleteCollection)
              /\ p.cache = o.cache /\ p.failed = 1
           \/ /\ p.cluster = Emptied(o.cluster)
              /\ p.cache = o.cache /\ p.failed = 0
  <1>1. DeleteCollection.op = "collection"
    BY Zenon DEF DeleteCollection
  <1>2. /\ Effect(o.cluster, DeleteCollection)
              = Emptied(o.cluster)
        /\ Remember(o.cache, DeleteCollection) = o.cache
    BY <1>1, Zenon DEF Effect, Remember, Emptied, WithHead, WithoutMounts
  <1>3. \/ p = o /\ o.failed = 1
        \/ /\ p.cluster \in Failing(o.cluster, DeleteCollection)
           /\ p.cache = o.cache /\ p.failed = 1
        \/ /\ p.cluster = Effect(o.cluster, DeleteCollection)
           /\ p.cache = Remember(o.cache, DeleteCollection) /\ p.failed = 0
    BY <1>1, Requested, Zenon
  <1> QED BY <1>2, <1>3, Zenon

LEMMA HeadDeleted ==
    ASSUME NEW o, NEW p \in Request(o, DeleteHead)
    PROVE  \/ p = o /\ o.failed = 1
           \/ /\ p.cluster = o.cluster \/ p.cluster = WithHead(o.cluster, NoSecret)
              /\ p.cache = o.cache /\ p.failed = 1
           \/ /\ p.cluster = WithHead(o.cluster, NoSecret)
              /\ p.cache = [head |-> NoSecret, versions |-> Nothing] /\ p.failed = 0
  <1>1. DeleteHead.op = "headless"
    BY Zenon DEF DeleteHead
  <1>2. /\ Effect(o.cluster, DeleteHead) = WithHead(o.cluster, NoSecret)
        /\ Remember(o.cache, DeleteHead) = [head |-> NoSecret, versions |-> Nothing]
    BY <1>1, Zenon DEF Effect, Remember, Emptied, WithHead, WithoutMounts
  <1>3. Failing(o.cluster, DeleteHead) = {o.cluster, WithHead(o.cluster, NoSecret)}
    BY <1>1, <1>2 DEF Failing
  <1>4. \/ p = o /\ o.failed = 1
        \/ /\ p.cluster \in Failing(o.cluster, DeleteHead)
           /\ p.cache = o.cache /\ p.failed = 1
        \/ /\ p.cluster = Effect(o.cluster, DeleteHead)
           /\ p.cache = Remember(o.cache, DeleteHead) /\ p.failed = 0
    BY <1>1, Requested, Zenon
  <1> QED BY <1>2, <1>3, <1>4, Zenon

LEMMA MountsDeleted ==
    ASSUME NEW o, NEW p \in Request(o, DeleteMounts)
    PROVE  \/ p = o
           \/ /\ p.cluster = o.cluster \/ p.cluster = WithoutMounts(o.cluster)
              /\ p.cache = o.cache
  <1>1. DeleteMounts.op = "unmount"
    BY Zenon DEF DeleteMounts
  <1>2. /\ Effect(o.cluster, DeleteMounts) = WithoutMounts(o.cluster)
        /\ Remember(o.cache, DeleteMounts) = o.cache
    BY <1>1, Zenon DEF Effect, Remember, Emptied, WithHead, WithoutMounts
  <1>3. Failing(o.cluster, DeleteMounts) = {o.cluster, WithoutMounts(o.cluster)}
    BY <1>1, <1>2 DEF Failing
  <1>4. \/ p = o /\ o.failed = 1
        \/ /\ p.cluster \in Failing(o.cluster, DeleteMounts)
           /\ p.cache = o.cache /\ p.failed = 1
        \/ /\ p.cluster = Effect(o.cluster, DeleteMounts)
           /\ p.cache = Remember(o.cache, DeleteMounts) /\ p.failed = 0
    BY <1>1, Requested, Zenon
  <1> QED BY <1>2, <1>3, <1>4, Zenon

\* What a write changes, and what it leaves.
LEMMA HeadParts ==
    ASSUME NEW k, NEW a, NEW h \in Heads(k), NEW c \in Clusters(k, a)
    PROVE  /\ WithHead(c, h) \in Clusters(k, a) /\ WithHead(c, h).head = h
           /\ WithHead(c, h).versions = c.versions
  BY Zenon DEF WithHead, Clusters

LEMMA HeadCopyParts ==
    ASSUME NEW k, NEW a, NEW h \in Heads(k), NEW m \in Copies(k, a)
    PROVE  /\ WithHead(m, h) \in Copies(k, a) /\ WithHead(m, h).head = h
           /\ WithHead(m, h).versions = m.versions
  BY Zenon DEF WithHead, Copies

LEMMA VersionParts ==
    ASSUME NEW k, NEW a, NEW n \in Numbers, NEW v \in Payloads(k, a), NEW c \in Clusters(k, a)
    PROVE  /\ WithVersion(c, n, v) \in Clusters(k, a)
           /\ WithVersion(c, n, v).head = c.head
           /\ WithVersion(c, n, v).versions[n] = v
           /\ \A q \in Numbers : q # n => WithVersion(c, n, v).versions[q] = c.versions[q]
  BY Zenon DEF WithVersion, Clusters

LEMMA CopyParts ==
    ASSUME NEW k, NEW a, NEW n \in Numbers, NEW v \in Payloads(k, a), NEW m \in Copies(k, a)
    PROVE  /\ WithVersion(m, n, v) \in Copies(k, a)
           /\ WithVersion(m, n, v).head = m.head
           /\ WithVersion(m, n, v).versions[n] = v
           /\ \A q \in Numbers : q # n => WithVersion(m, n, v).versions[q] = m.versions[q]
  BY Zenon DEF WithVersion, Copies

LEMMA MountParts ==
    ASSUME NEW k, NEW a, NEW c \in Clusters(k, a), NEW n \in Numbers,
           NEW y \in {NoMount} \cup 0..a
    PROVE  /\ WithMount(c, n, y) \in Clusters(k, a) /\ WithMount(c, n, y).head = c.head
           /\ WithMount(c, n, y).versions = c.versions
  BY Zenon DEF WithMount, Clusters

LEMMA UnmountedParts ==
    ASSUME NEW k, NEW a, NEW c \in Clusters(k, a)
    PROVE  /\ WithoutMounts(c) \in Clusters(k, a) /\ WithoutMounts(c).head = c.head
           /\ WithoutMounts(c).versions = c.versions
  <1>1. Unmounted \in [Numbers -> {NoMount} \cup 0..a]
    BY Zenon DEF Unmounted
  <1> QED BY <1>1, Zenon DEF WithoutMounts, Clusters

LEMMA EmptiedParts ==
    ASSUME NEW k, NEW a, NEW c \in Clusters(k, a)
    PROVE  /\ Emptied(c) \in Clusters(k, a) /\ Emptied(c).head = NoSecret
           /\ Emptied(c).versions = Nothing
  <1>1. Nothing \in [Numbers -> Payloads(k, a)] /\ NoSecret \in Heads(k)
    BY Zenon DEF Nothing, Payloads, Heads
  <1> QED BY <1>1, Zenon DEF Emptied, Clusters

\* A secret or version that is absent is none of a secret's.
LEMMA Absent ==
    ASSUME NEW k \in Nat, NEW a
    PROVE  /\ NoSecret.made = 0 /\ NoVersion.made = 0
           /\ \A h \in Heads(k) : h # NoSecret => h.made \in 1..k
           /\ \A v \in Payloads(k, a) : v # NoVersion => v.made \in 1..k
           /\ \A h \in Heads(k) : h.made \in 0..k
  BY DEF Heads, Payloads, NoSecret, NoVersion

LEMMA EndedCall ==
    ASSUME NEW o, NEW r, o.failed = 1, NEW p \in Request(o, r) PROVE p = o
  BY Zenon DEF Request

\* Writing the secret keeps what is stored sound if every version that is of
\* the secret has a number it has given out.
LEMMA GoodHead ==
    ASSUME NEW k, NEW a, NEW o, Good(o, k, a), NEW h \in Heads(k),
           \A n \in Numbers : /\ Given(h, n, o.cluster.versions[n])
                              /\ Given(h, n, o.cache.versions[n]),
           NEW p \in Request(o, PutHead(h))
    PROVE  /\ Good(p, k, a) /\ p.cluster.versions = o.cluster.versions
           /\ p.cache.versions = o.cache.versions
  <1>1. /\ o.cluster \in Clusters(k, a) /\ o.cache \in Copies(k, a)
        /\ Sound(o.cluster, o.cache)
    BY Zenon DEF Good
  <1>2. /\ WithHead(o.cluster, h) \in Clusters(k, a) /\ WithHead(o.cache, h) \in Copies(k, a)
        /\ WithHead(o.cluster, h).head = h
        /\ WithHead(o.cluster, h).versions = o.cluster.versions
        /\ WithHead(o.cache, h).head = h /\ WithHead(o.cache, h).versions = o.cache.versions
    BY <1>1, HeadParts, HeadCopyParts
  <1>3. Sound(WithHead(o.cluster, h), o.cache)
    BY <1>1, <1>2, Zenon DEF Sound
  <1>4. Sound(WithHead(o.cluster, h), WithHead(o.cache, h))
    BY <1>1, <1>2, Zenon DEF Sound
  <1>5. \/ p = o
        \/ p.cluster = o.cluster /\ p.cache = o.cache
        \/ p.cluster = WithHead(o.cluster, h) /\ p.cache = o.cache
        \/ p.cluster = WithHead(o.cluster, h) /\ p.cache = WithHead(o.cache, h)
    BY HeadPut, Zenon
  <1> QED BY <1>1, <1>2, <1>3, <1>4, <1>5, Zenon DEF Good

\* So does writing a version with a number given out, that agrees with the
\* one in memory.
LEMMA GoodVersion ==
    ASSUME NEW k, NEW a, NEW o, Good(o, k, a), NEW n \in Numbers, NEW v \in Payloads(k, a),
           Given(o.cluster.head, n, v), Given(o.cache.head, n, v),
           Agree(v, o.cache.versions[n]),
           NEW p \in Request(o, PutVersion(n, v))
    PROVE  /\ Good(p, k, a)
           /\ p.cluster.head = o.cluster.head /\ p.cache.head = o.cache.head
           /\ p.cluster.versions[n] = v \/ p.cluster.versions[n] = o.cluster.versions[n]
           /\ p.cache.versions[n] = v \/ p.cache.versions[n] = o.cache.versions[n]
           /\ \A q \in Numbers : q # n => /\ p.cluster.versions[q] = o.cluster.versions[q]
                                          /\ p.cache.versions[q] = o.cache.versions[q]
  <1>1. /\ o.cluster \in Clusters(k, a) /\ o.cache \in Copies(k, a)
        /\ Sound(o.cluster, o.cache)
    BY Zenon DEF Good
  <1> DEFINE c == WithVersion(o.cluster, n, v)  m == WithVersion(o.cache, n, v)
  <1>2. /\ c \in Clusters(k, a) /\ c.head = o.cluster.head /\ c.versions[n] = v
        /\ \A q \in Numbers : q # n => c.versions[q] = o.cluster.versions[q]
    BY <1>1, VersionParts
  <1>3. /\ m \in Copies(k, a) /\ m.head = o.cache.head /\ m.versions[n] = v
        /\ \A q \in Numbers : q # n => m.versions[q] = o.cache.versions[q]
    BY <1>1, CopyParts
  <1>4. \/ p = o
        \/ p.cluster = o.cluster /\ p.cache = o.cache
        \/ p.cluster = c /\ p.cache = o.cache
        \/ p.cluster = c /\ p.cache = m
    BY VersionPut, Zenon
  <1> HIDE DEF c, m
  <1>5. Sound(c, o.cache)
    <2> SUFFICES ASSUME NEW q \in Numbers
                 PROVE  /\ Given(c.head, q, c.versions[q]) /\ Given(c.head, q, o.cache.versions[q])
                        /\ Given(o.cache.head, q, c.versions[q])
                        /\ Given(o.cache.head, q, o.cache.versions[q])
                        /\ Agree(c.versions[q], o.cache.versions[q])
      BY Zenon DEF Sound
    <2>1. CASE q = n
      BY <1>1, <1>2, <2>1, Zenon DEF Sound
    <2>2. CASE q # n
      BY <1>1, <1>2, <2>2, Zenon DEF Sound
    <2> QED BY <2>1, <2>2, Zenon
  <1>6. Sound(c, m)
    <2> SUFFICES ASSUME NEW q \in Numbers
                 PROVE  /\ Given(c.head, q, c.versions[q]) /\ Given(c.head, q, m.versions[q])
                        /\ Given(m.head, q, c.versions[q]) /\ Given(m.head, q, m.versions[q])
                        /\ Agree(c.versions[q], m.versions[q])
      BY Zenon DEF Sound
    <2>1. CASE q = n
      <3>1. Agree(v, v)
        BY Zenon DEF Agree
      <3> QED BY <1>2, <1>3, <2>1, <3>1, Zenon
    <2>2. CASE q # n
      BY <1>1, <1>2, <1>3, <2>2, Zenon DEF Sound
    <2> QED BY <2>1, <2>2, Zenon
  <1> QED BY <1>1, <1>2, <1>3, <1>4, <1>5, <1>6, Zenon DEF Good

\* And so does what is mounted.
LEMMA GoodMount ==
    ASSUME NEW k, NEW a, NEW o, Good(o, k, a), NEW n \in Numbers,
           NEW y \in {NoMount} \cup 0..a, NEW p \in Request(o, SetMount(n, y))
    PROVE  /\ Good(p, k, a) /\ p.cache = o.cache
           /\ p.cluster.head = o.cluster.head /\ p.cluster.versions = o.cluster.versions
  <1>1. /\ o.cluster \in Clusters(k, a) /\ o.cache \in Copies(k, a)
        /\ Sound(o.cluster, o.cache)
    BY Zenon DEF Good
  <1> DEFINE c == WithMount(o.cluster, n, y)
  <1>2. /\ c \in Clusters(k, a) /\ c.head = o.cluster.head
        /\ c.versions = o.cluster.versions
    BY <1>1, MountParts
  <1>3. \/ p = o
        \/ (p.cluster = o.cluster \/ p.cluster = c) /\ p.cache = o.cache
    BY MountSet, Zenon
  <1> HIDE DEF c
  <1>4. Sound(c, o.cache)
    BY <1>1, <1>2, Zenon DEF Sound
  <1> QED BY <1>1, <1>2, <1>3, <1>4, Zenon DEF Good

\* What has less in the cluster is as sound.
LEMMA SoundLess ==
    ASSUME NEW k \in Nat, NEW a, NEW c \in Clusters(k, a), NEW m \in Copies(k, a), Sound(c, m),
           NEW d \in Clusters(k, a), d.head = c.head \/ d.head = NoSecret,
           \A n \in Numbers : d.versions[n] = c.versions[n] \/ d.versions[n] = NoVersion
    PROVE  Sound(d, m)
  <1> SUFFICES ASSUME NEW n \in Numbers
               PROVE  /\ Given(d.head, n, d.versions[n]) /\ Given(d.head, n, m.versions[n])
                      /\ Given(m.head, n, d.versions[n]) /\ Given(m.head, n, m.versions[n])
                      /\ Agree(d.versions[n], m.versions[n])
    BY Zenon DEF Sound
  <1>1. /\ Given(c.head, n, c.versions[n]) /\ Given(c.head, n, m.versions[n])
        /\ Given(m.head, n, c.versions[n]) /\ Given(m.head, n, m.versions[n])
        /\ Agree(c.versions[n], m.versions[n])
    BY Zenon DEF Sound
  <1>2. d.versions[n] \in Payloads(k, a) /\ m.versions[n] \in Payloads(k, a)
    BY Zenon DEF Clusters, Copies
  <1>3. ASSUME NEW h, NEW v \in Payloads(k, a), h = NoSecret \/ v = NoVersion
        PROVE  Given(h, n, v)
    BY <1>3, Absent DEF Given
  <1>4. Agree(NoVersion, m.versions[n])
    BY Zenon DEF Agree
  <1> QED BY <1>1, <1>2, <1>3, <1>4, Zenon

\* What a failed deletion of the collection may leave.
LEMMA CollectionFailing ==
    ASSUME NEW k, NEW a, NEW c \in Clusters(k, a), NEW d \in Failing(c, DeleteCollection)
    PROVE  /\ d \in Clusters(k, a) /\ (d.head = c.head \/ d.head = NoSecret)
           /\ \A n \in Numbers : d.versions[n] = c.versions[n] \/ d.versions[n] = NoVersion
  <1>0. /\ Emptied(c) \in Clusters(k, a) /\ Emptied(c).head = NoSecret
        /\ \A n \in Numbers : Emptied(c).versions[n] = NoVersion
    BY EmptiedParts DEF Nothing
  <1>1. DeleteCollection.op = "collection"
    BY Zenon DEF DeleteCollection
  <1>2. Effect(c, DeleteCollection) = Emptied(c)
    BY <1>1, Zenon DEF Effect, Emptied
  <1>3. CASE d = c \/ d = Emptied(c)
    BY <1>0, <1>3, Zenon
  <1>4. CASE \E h \in BOOLEAN, kept \in SUBSET Numbers : d = Partly(c, h, kept)
    <2>1. PICK h \in BOOLEAN, kept \in SUBSET Numbers : d = Partly(c, h, kept)
      BY <1>4, Zenon
    <2>2. NoSecret \in Heads(k) /\ NoVersion \in Payloads(k, a)
      BY Zenon DEF Heads, Payloads
    <2>3. [n \in Numbers |-> IF n \in kept THEN c.versions[n] ELSE NoVersion]
             \in [Numbers -> Payloads(k, a)]
      BY <2>2, Zenon DEF Clusters
    <2>4. /\ c.head \in Heads(k)
          /\ d = [head |-> IF h THEN c.head ELSE NoSecret,
                  versions |-> [n \in Numbers |-> IF n \in kept THEN c.versions[n] ELSE NoVersion],
                  mount |-> c.mount]
          /\ c.mount \in [Numbers -> {NoMount} \cup 0..a]
      BY <2>1, Zenon DEF Clusters, Partly
    <2> QED BY <2>2, <2>3, <2>4, Zenon DEF Clusters
  <1> QED BY <1>1, <1>2, <1>3, <1>4 DEF Failing

LEMMA GoodCollection ==
    ASSUME NEW k \in Nat, NEW a, NEW o, Good(o, k, a), NEW p \in Request(o, DeleteCollection)
    PROVE  /\ Good(p, k, a) /\ p.cache = o.cache
           /\ \A n \in Numbers : \/ p.cluster.versions[n] = o.cluster.versions[n]
                                 \/ p.cluster.versions[n] = NoVersion
           /\ p.failed # 1 => p.cluster.versions = Nothing
  <1>1. /\ o.cluster \in Clusters(k, a) /\ o.cache \in Copies(k, a)
        /\ Sound(o.cluster, o.cache)
    BY Zenon DEF Good
  <1> DEFINE c == o.cluster
  <1>2. /\ Emptied(c) \in Clusters(k, a) /\ Emptied(c).head = NoSecret
        /\ Emptied(c).versions = Nothing
        /\ \A n \in Numbers : Emptied(c).versions[n] = NoVersion
    BY <1>1, EmptiedParts DEF Nothing
  <1>3. \A d \in Failing(c, DeleteCollection) :
           /\ d \in Clusters(k, a) /\ (d.head = c.head \/ d.head = NoSecret)
           /\ \A n \in Numbers : d.versions[n] = c.versions[n] \/ d.versions[n] = NoVersion
    BY <1>1, CollectionFailing
  <1>4. \/ p = o /\ o.failed = 1
        \/ p.cluster \in Failing(c, DeleteCollection) /\ p.cache = o.cache /\ p.failed = 1
        \/ p.cluster = Emptied(c) /\ p.cache = o.cache /\ p.failed = 0
    BY CollectionDeleted, Zenon
  <1>5. \A d \in Clusters(k, a) :
           /\ d.head = c.head \/ d.head = NoSecret
           /\ \A n \in Numbers : d.versions[n] = c.versions[n] \/ d.versions[n] = NoVersion
           => Sound(d, o.cache)
    BY <1>1, SoundLess, Zenon
  <1>6. p.cache = o.cache
    BY <1>4, Zenon
  <1>7. /\ p.cluster \in Clusters(k, a) /\ (p.cluster.head = c.head \/ p.cluster.head = NoSecret)
        /\ \A n \in Numbers : \/ p.cluster.versions[n] = c.versions[n]
                              \/ p.cluster.versions[n] = NoVersion
    <2>1. CASE p = o
      BY <1>1, <2>1, Zenon
    <2>2. CASE p.cluster \in Failing(c, DeleteCollection)
      BY <1>3, <2>2, Zenon
    <2>3. CASE p.cluster = Emptied(c)
      BY <1>2, <2>3, Zenon
    <2> QED BY <1>4, <2>1, <2>2, <2>3, Zenon
  <1>8. Sound(p.cluster, o.cache)
    BY <1>5, <1>7, Zenon
  <1>9. p.failed # 1 => p.cluster.versions = Nothing
    BY <1>2, <1>4, Zenon
  <1> QED BY <1>1, <1>6, <1>7, <1>8, <1>9, Zenon DEF Good

\* deleteSecret, whichever of its requests fails: what is left is some of what
\* there was, and nothing when none failed.
LEMMA DeletingDoes ==
    ASSUME NEW k \in Nat, NEW a, NEW o, Good(o, k, a), NEW p \in Deleting(o)
    PROVE  /\ Good(p, k, a)
           /\ \A n \in Numbers :
                 /\ \/ p.cluster.versions[n] = o.cluster.versions[n]
                    \/ p.cluster.versions[n] = NoVersion
                 /\ \/ p.cache.versions[n] = o.cache.versions[n]
                    \/ p.cache.versions[n] = NoVersion
           /\ p.failed # 1 => /\ p.cache.head = NoSecret
                              /\ \A n \in Numbers : /\ p.cluster.versions[n] = NoVersion
                                                    /\ p.cache.versions[n] = NoVersion
  <1>a. PICK p2 \in Then(Request(o, DeleteCollection), DeleteHead) :
              p \in Request(p2, DeleteMounts)
    BY Zenon DEF Deleting, Then
  <1>1. PICK p1 \in Request(o, DeleteCollection) : p2 \in Request(p1, DeleteHead)
    BY Zenon DEF Then
  <1>2. /\ Good(p1, k, a) /\ p1.cache = o.cache
        /\ \A n \in Numbers : \/ p1.cluster.versions[n] = o.cluster.versions[n]
                              \/ p1.cluster.versions[n] = NoVersion
        /\ p1.failed # 1 => p1.cluster.versions = Nothing
    BY GoodCollection, Zenon
  <1>3. /\ p1.cluster \in Clusters(k, a) /\ p1.cache \in Copies(k, a)
        /\ Sound(p1.cluster, p1.cache)
    BY <1>2, Zenon DEF Good
  <1> DEFINE c == WithHead(p1.cluster, NoSecret)
             gone == [head |-> NoSecret, versions |-> Nothing]
  <1>4. NoSecret \in Heads(k) /\ Nothing \in [Numbers -> Payloads(k, a)]
        /\ \A n \in Numbers : Nothing[n] = NoVersion
    BY Zenon DEF Heads, Payloads, Nothing
  <1>5. /\ c \in Clusters(k, a) /\ c.head = NoSecret /\ c.versions = p1.cluster.versions
    BY <1>3, <1>4, HeadParts
  <1>6. /\ gone \in Copies(k, a) /\ gone.head = NoSecret /\ gone.versions = Nothing
    BY <1>4, Zenon DEF Copies
  <1>7. \/ p2 = p1 /\ p1.failed = 1
        \/ (p2.cluster = p1.cluster \/ p2.cluster = c) /\ p2.cache = p1.cache /\ p2.failed = 1
        \/ p2.cluster = c /\ p2.cache = gone /\ p2.failed = 0
    BY <1>1, HeadDeleted, Zenon
  <1> HIDE DEF c, gone
  <1>8. Sound(c, p1.cache)
    BY <1>3, <1>5, SoundLess, Zenon
  <1>9. Sound(c, gone)
    <2>1. ASSUME NEW n \in Numbers, NEW h, NEW v \in Payloads(k, a), h = NoSecret \/ v = NoVersion
          PROVE  Given(h, n, v)
      BY <2>1, Absent DEF Given
    <2>2. ASSUME NEW v PROVE Agree(v, NoVersion)
      BY Zenon DEF Agree
    <2>3. \A n \in Numbers : c.versions[n] \in Payloads(k, a)
      BY <1>5, Zenon DEF Clusters
    <2>4. NoVersion \in Payloads(k, a)
      BY Zenon DEF Payloads
    <2> QED BY <1>4, <1>5, <1>6, <2>1, <2>2, <2>3, <2>4, Zenon DEF Sound
  <1>10. /\ Good(p2, k, a)
         /\ \A n \in Numbers :
               /\ \/ p2.cluster.versions[n] = o.cluster.versions[n]
                  \/ p2.cluster.versions[n] = NoVersion
               /\ \/ p2.cache.versions[n] = o.cache.versions[n]
                  \/ p2.cache.versions[n] = NoVersion
    <2>1. CASE p2.cluster = p1.cluster /\ p2.cache = p1.cache
      BY <1>2, <1>3, <2>1, Zenon DEF Good
    <2>2. CASE p2.cluster = c /\ p2.cache = p1.cache
      BY <1>2, <1>3, <1>5, <1>8, <2>2, Zenon DEF Good
    <2>3. CASE p2.cluster = c /\ p2.cache = gone
      BY <1>2, <1>4, <1>5, <1>6, <1>9, <2>3, Zenon DEF Good
    <2> QED BY <1>7, <2>1, <2>2, <2>3, Zenon
  <1>11. p2.failed # 1 => /\ p2.cache.head = NoSecret
                          /\ \A n \in Numbers : /\ p2.cluster.versions[n] = NoVersion
                                                /\ p2.cache.versions[n] = NoVersion
    <2> SUFFICES ASSUME p2.failed # 1
                 PROVE  p2.cluster = c /\ p2.cache = gone /\ p1.failed # 1
      BY <1>2, <1>4, <1>5, <1>6, Zenon
    <2>1. p2.cluster = c /\ p2.cache = gone
      BY <1>7, Zenon
    <2>2. p1.failed = 1 => p2 = p1
      BY <1>1, EndedCall, Zenon
    <2> QED BY <2>1, <2>2, Zenon
  <1>12. /\ p2.cluster \in Clusters(k, a) /\ p2.cache \in Copies(k, a)
         /\ Sound(p2.cluster, p2.cache)
    BY <1>10, Zenon DEF Good
  <1> DEFINE d == WithoutMounts(p2.cluster)
  <1>13. d \in Clusters(k, a) /\ d.head = p2.cluster.head /\ d.versions = p2.cluster.versions
    BY <1>12, UnmountedParts, Zenon
  <1>14. \/ p = p2
         \/ (p.cluster = p2.cluster \/ p.cluster = d) /\ p.cache = p2.cache
    BY <1>a, MountsDeleted, Zenon
  <1>15. p2.failed = 1 => p = p2
    BY <1>a, EndedCall, Zenon
  <1> HIDE DEF d
  <1>16. Sound(d, p2.cache)
    BY <1>12, <1>13, SoundLess, Zenon
  <1>17. Good(p, k, a) /\ p.cluster.versions = p2.cluster.versions /\ p.cache = p2.cache
    BY <1>12, <1>13, <1>14, <1>16, Zenon DEF Good
  <1> QED BY <1>10, <1>11, <1>15, <1>17, Zenon

\* A secret rewritten with its versions' numbers, or more, given out.
LEMMA SameHead ==
    ASSUME NEW k \in Nat, NEW g \in Heads(k), NEW h \in Heads(k), g # NoSecret, h # NoSecret,
           h.made = g.made, g.next <= h.next, NEW n \in Nat, NEW v, Given(g, n, v)
    PROVE  Given(h, n, v)
  <1>1. g.next \in Nat /\ h.next \in Nat
    BY Zenon DEF Heads
  <1> QED BY <1>1 DEF Given

LEMMA OwnHead ==
    ASSUME NEW k \in Nat, NEW a, NEW o, Good(o, k, a), Owned(o.cluster, o.cache),
           NEW h \in Heads(k), h # NoSecret,
           o.cache.head = NoSecret \/ h.made = o.cache.head.made,
           NEW p \in Request(o, PutHead(h))
    PROVE  Owned(p.cluster, p.cache)
  <1>1. o.cluster \in Clusters(k, a) /\ o.cache \in Copies(k, a)
    BY Zenon DEF Good
  <1> DEFINE c == WithHead(o.cluster, h)  m == WithHead(o.cache, h)
  <1>2. /\ c.head = h /\ c.versions = o.cluster.versions
        /\ m.head = h /\ m.versions = o.cache.versions
    BY <1>1, HeadParts, HeadCopyParts
  <1>3. \/ p.cluster = o.cluster /\ p.cache = o.cache
        \/ p.cluster = c /\ p.cache = o.cache
        \/ p.cluster = c /\ p.cache = m
    BY HeadPut, Zenon
  <1> HIDE DEF c, m
  <1>4. o.cache.head = NoSecret => \A n \in Numbers : o.cache.versions[n] = NoVersion
    <2>1. \A n \in Numbers : o.cache.versions[n] \in Payloads(k, a)
      BY <1>1, Zenon DEF Copies
    <2> QED BY <2>1, Absent DEF Owned
  <1>5. Owned(c, o.cache)
    BY <1>2, <1>4, Zenon DEF Owned
  <1>6. Owned(c, m)
    BY <1>2, <1>4, Zenon DEF Owned
  <1> QED BY <1>3, <1>5, <1>6, Zenon

LEMMA OwnVersion ==
    ASSUME NEW k \in Nat, NEW a, NEW o, Good(o, k, a), Owned(o.cluster, o.cache),
           NEW n \in Numbers, NEW v \in Payloads(k, a),
           o.cache.head # NoSecret, v.made = o.cache.head.made,
           NEW p \in Request(o, PutVersion(n, v))
    PROVE  Owned(p.cluster, p.cache)
  <1>1. o.cluster \in Clusters(k, a) /\ o.cache \in Copies(k, a)
    BY Zenon DEF Good
  <1> DEFINE c == WithVersion(o.cluster, n, v)  m == WithVersion(o.cache, n, v)
  <1>2. /\ c.head = o.cluster.head /\ c.versions[n] = v
        /\ \A q \in Numbers : q # n => c.versions[q] = o.cluster.versions[q]
    BY <1>1, VersionParts
  <1>3. /\ m.head = o.cache.head /\ m.versions[n] = v
        /\ \A q \in Numbers : q # n => m.versions[q] = o.cache.versions[q]
    BY <1>1, CopyParts
  <1>4. \/ p.cluster = o.cluster /\ p.cache = o.cache
        \/ p.cluster = c /\ p.cache = o.cache
        \/ p.cluster = c /\ p.cache = m
    BY VersionPut, Zenon
  <1> HIDE DEF c, m
  <1>5. \A q \in Numbers : c.versions[q] # NoVersion => c.versions[q].made = c.head.made
    BY <1>2, Zenon DEF Owned
  <1>6. \A q \in Numbers : m.versions[q] # NoVersion => m.versions[q].made = m.head.made
    BY <1>3, Zenon DEF Owned
  <1>7. Owned(c, o.cache)
    BY <1>2, <1>5, Zenon DEF Owned
  <1>8. Owned(c, m)
    BY <1>2, <1>3, <1>5, <1>6, Zenon DEF Owned
  <1> QED BY <1>4, <1>7, <1>8, Zenon

LEMMA OwnSame ==
    ASSUME NEW c, NEW m, Owned(c, m), NEW d, d.head = c.head, d.versions = c.versions
    PROVE  Owned(d, m)
  BY Zenon DEF Owned

LEMMA OwnNothing ==
    ASSUME NEW c, NEW m, m.head = NoSecret,
           \A n \in Numbers : c.versions[n] = NoVersion /\ m.versions[n] = NoVersion
    PROVE  Owned(c, m)
  BY Zenon DEF Owned

\* More secrets and payloads may come.
LEMMA GoodMore ==
    ASSUME NEW k \in Nat, NEW a \in Nat, NEW o, Good(o, k, a), NEW l \in Nat, NEW y \in Nat,
           k <= l, a <= y
    PROVE  Good(o, l, y)
  <1>1. Heads(k) \subseteq Heads(l)
    BY DEF Heads
  <1>2. Payloads(k, a) \subseteq Payloads(l, y)
    BY DEF Payloads
  <1>3. {NoMount} \cup 0..a \subseteq {NoMount} \cup 0..y
    OBVIOUS
  <1>4. Clusters(k, a) \subseteq Clusters(l, y)
    BY <1>1, <1>2, <1>3, Zenon DEF Clusters
  <1>5. Copies(k, a) \subseteq Copies(l, y)
    BY <1>1, <1>2, Zenon DEF Copies
  <1> QED BY <1>4, <1>5, Zenon DEF Good
------------------------------------------------------------------------------
SecretInv ==
    /\ scene \in Scenarios
    /\ made \in Nat /\ made <= scene.made /\ adds \in Nat /\ base \in Nat /\ offset \in Nat
    /\ Good(CallBegins, made, adds)
    /\ ~torn => Owned(cluster, cache)
    /\ deploy.pc \in {"idle", "named", "read"}
    /\ deploy.pc # "idle" => deploy.n \in Numbers
    /\ deploy.pc = "read" => deploy.bytes \in 0..adds
    /\ sweeper.pc = "sweep" => sweeper = [pc |-> "sweep", at |-> 0]

\* What the calls may leave: k secrets and a payloads with what they bring.
Kept(o, k, a) == Good(o, k, a) /\ Along(o)

LEMMA InvParts ==
    ASSUME SecretInv
    PROVE  /\ CallBegins.cluster = cluster /\ CallBegins.cache = cache
           /\ CallBegins.failed = 0
           /\ cluster \in Clusters(made, adds) /\ cache \in Copies(made, adds)
           /\ Sound(cluster, cache) /\ Kept(CallBegins, made, adds)
           /\ made \in Nat /\ adds \in Nat
           /\ \A n \in Numbers : n \in Nat /\ n # 0
  <1>1. /\ CallBegins.cluster = cluster /\ CallBegins.cache = cache
        /\ CallBegins.failed = 0
    BY Zenon DEF CallBegins, Standing
  <1>2. Good(CallBegins, made, adds) /\ made \in Nat /\ adds \in Nat
    BY Zenon DEF SecretInv
  <1>3. Along(CallBegins)
    BY <1>1, Zenon DEF Along, Same, Stays
  <1>4. \A n \in Numbers : n \in Nat /\ n # 0
    BY SecretAssumption DEF SecretInv, Numbers
  <1> QED BY <1>1, <1>2, <1>3, <1>4, Zenon DEF Good, Kept

\* A version that a call has read and writes again, with its payload or none:
\* it may be written, and it is what the number may become.
LEMMA Rewritten ==
    ASSUME SecretInv, NEW n \in Numbers, cache.versions[n] # NoVersion,
           NEW v, v.made = cache.versions[n].made,
           v.bytes = cache.versions[n].bytes \/ v.bytes = 0,
           cache.versions[n].state = "DESTROYED" => v.state = "DESTROYED"
    PROVE  /\ Given(cluster.head, n, v) /\ Given(cache.head, n, v)
           /\ Agree(v, cache.versions[n])
           /\ Same(cluster.versions[n], v) /\ Stays(cache.versions[n], v)
  <1>1. /\ Given(cluster.head, n, cache.versions[n]) /\ Given(cache.head, n, cache.versions[n])
        /\ Agree(cluster.versions[n], cache.versions[n])
    BY InvParts, Zenon DEF Sound
  <1>2. Given(cluster.head, n, v) /\ Given(cache.head, n, v)
    BY <1>1, Zenon DEF Given
  <1>3. Agree(v, cache.versions[n])
    BY Zenon DEF Agree
  <1>4. Same(cluster.versions[n], v)
    BY <1>1, Zenon DEF Agree, Same
  <1>5. Stays(cache.versions[n], v)
    BY Zenon DEF Stays
  <1> QED BY <1>2, <1>3, <1>4, <1>5, Zenon

\* A call's step keeps to what a number may become.
LEMMA AlongVersion ==
    ASSUME NEW k, NEW a, NEW o, Kept(o, k, a), NEW n \in Numbers, NEW v \in Payloads(k, a),
           Given(o.cluster.head, n, v), Given(o.cache.head, n, v),
           Agree(v, o.cache.versions[n]),
           Same(cluster.versions[n], v), Stays(cache.versions[n], v),
           NEW p \in Request(o, PutVersion(n, v))
    PROVE  /\ Kept(p, k, a)
           /\ p.cluster.head = o.cluster.head /\ p.cache.head = o.cache.head
           /\ \A q \in Numbers : q # n => /\ p.cluster.versions[q] = o.cluster.versions[q]
                                          /\ p.cache.versions[q] = o.cache.versions[q]
           /\ p.cache.versions[n] = v \/ p.cache.versions[n] = o.cache.versions[n]
  <1>1. /\ Good(p, k, a)
        /\ p.cluster.head = o.cluster.head /\ p.cache.head = o.cache.head
        /\ p.cluster.versions[n] = v \/ p.cluster.versions[n] = o.cluster.versions[n]
        /\ p.cache.versions[n] = v \/ p.cache.versions[n] = o.cache.versions[n]
        /\ \A q \in Numbers : q # n => /\ p.cluster.versions[q] = o.cluster.versions[q]
                                       /\ p.cache.versions[q] = o.cache.versions[q]
    BY GoodVersion DEF Kept
  <1>2. Along(p)
    BY <1>1, Zenon DEF Kept, Along
  <1> QED BY <1>1, <1>2, Zenon DEF Kept

LEMMA AlongHead ==
    ASSUME NEW k, NEW a, NEW o, Kept(o, k, a), NEW h \in Heads(k),
           \A n \in Numbers : /\ Given(h, n, o.cluster.versions[n])
                              /\ Given(h, n, o.cache.versions[n]),
           NEW p \in Request(o, PutHead(h))
    PROVE  /\ Kept(p, k, a) /\ p.cluster.versions = o.cluster.versions
           /\ p.cache.versions = o.cache.versions
  <1>1. /\ Good(p, k, a) /\ p.cluster.versions = o.cluster.versions
        /\ p.cache.versions = o.cache.versions
    BY GoodHead DEF Kept
  <1> QED BY <1>1, Zenon DEF Kept, Along

LEMMA AlongMount ==
    ASSUME NEW k, NEW a, NEW o, Kept(o, k, a), NEW n \in Numbers,
           NEW y \in {NoMount} \cup 0..a, NEW p \in Request(o, SetMount(n, y))
    PROVE  /\ Kept(p, k, a) /\ p.cache = o.cache
           /\ p.cluster.head = o.cluster.head /\ p.cluster.versions = o.cluster.versions
  <1>1. /\ Good(p, k, a) /\ p.cache = o.cache
        /\ p.cluster.head = o.cluster.head /\ p.cluster.versions = o.cluster.versions
    BY GoodMount DEF Kept
  <1> QED BY <1>1, Zenon DEF Kept, Along

\* Deleting what there is.
LEMMA AlongDeleting ==
    ASSUME SecretInv, NEW p \in Deleting(CallBegins)
    PROVE  /\ Kept(p, made, adds)
           /\ \A n \in Numbers : \/ p.cache.versions[n] = cache.versions[n]
                                 \/ p.cache.versions[n] = NoVersion
           /\ p.failed # 1 => Owned(p.cluster, p.cache) /\ p.cache.head = NoSecret
  <1>1. /\ CallBegins.cluster = cluster /\ CallBegins.cache = cache
        /\ Good(CallBegins, made, adds) /\ made \in Nat
        /\ cluster \in Clusters(made, adds) /\ cache \in Copies(made, adds)
    BY InvParts, Zenon DEF Kept
  <1>2. /\ Good(p, made, adds)
        /\ \A n \in Numbers :
              /\ \/ p.cluster.versions[n] = cluster.versions[n]
                 \/ p.cluster.versions[n] = NoVersion
              /\ \/ p.cache.versions[n] = cache.versions[n]
                 \/ p.cache.versions[n] = NoVersion
        /\ p.failed # 1 => /\ p.cache.head = NoSecret
                           /\ \A n \in Numbers : /\ p.cluster.versions[n] = NoVersion
                                                 /\ p.cache.versions[n] = NoVersion
    BY <1>1, DeletingDoes
  <1>3. ASSUME NEW v \in Payloads(made, adds), NEW w, w = v \/ w = NoVersion
        PROVE  Same(v, w) /\ Stays(v, w)
    BY <1>1, <1>3, Absent DEF Same, Stays
  <1>4. Along(p)
    <2>1. \A n \in Numbers : /\ cluster.versions[n] \in Payloads(made, adds)
                             /\ cache.versions[n] \in Payloads(made, adds)
      BY <1>1, Zenon DEF Clusters, Copies
    <2> QED BY <1>2, <1>3, <2>1, Zenon DEF Along
  <1> QED BY <1>2, <1>4, OwnNothing, Zenon DEF Kept

\* The secret that memory has, written with its name and numbers.
LEMMA AlongOwnHead ==
    ASSUME SecretInv, NEW o, NEW k \in Nat, NEW a, Kept(o, k, a), made <= k,
           o.cache.head = cache.head, cache.head # NoSecret,
           NEW h \in Heads(k), h # NoSecret, h.made = cache.head.made,
           cache.head.next <= h.next, NEW p \in Request(o, PutHead(h))
    PROVE  /\ Kept(p, k, a) /\ p.cluster.versions = o.cluster.versions
           /\ p.cache.versions = o.cache.versions
           /\ Owned(o.cluster, o.cache) => Owned(p.cluster, p.cache)
  <1>1. Good(o, k, a) /\ Sound(o.cluster, o.cache) /\ o.cache \in Copies(k, a)
    BY Zenon DEF Kept, Good
  <1>2. cache.head \in Heads(k) /\ \A n \in Numbers : n \in Nat
    BY <1>1, InvParts, Zenon DEF Copies
  <1>3. ASSUME NEW n \in Numbers
        PROVE  Given(h, n, o.cluster.versions[n]) /\ Given(h, n, o.cache.versions[n])
    <2>1. Given(cache.head, n, o.cluster.versions[n]) /\ Given(cache.head, n, o.cache.versions[n])
      BY <1>1, Zenon DEF Sound
    <2> QED BY <1>2, <2>1, SameHead, Zenon
  <1>4. /\ Kept(p, k, a) /\ p.cluster.versions = o.cluster.versions
        /\ p.cache.versions = o.cache.versions
    BY <1>3, AlongHead
  <1>5. Owned(o.cluster, o.cache) => Owned(p.cluster, p.cache)
    BY <1>1, OwnHead, Zenon
  <1> QED BY <1>4, <1>5, Zenon

\* A version that memory has, written again; the head is as memory has it.
LEMMA AlongOwnVersion ==
    ASSUME SecretInv, NEW o, Kept(o, made, adds),
           o.cluster.head = cluster.head, o.cache.head = cache.head,
           NEW n \in Numbers, cache.versions[n] # NoVersion,
           o.cache.versions[n] = cache.versions[n],
           NEW v \in Payloads(made, adds), v.made = cache.versions[n].made,
           v.bytes = cache.versions[n].bytes \/ v.bytes = 0,
           cache.versions[n].state = "DESTROYED" => v.state = "DESTROYED",
           NEW p \in Request(o, PutVersion(n, v))
    PROVE  /\ Kept(p, made, adds)
           /\ p.cluster.head = cluster.head /\ p.cache.head = cache.head
           /\ \A q \in Numbers : q # n => p.cache.versions[q] = o.cache.versions[q]
           /\ Owned(cluster, cache) /\ Owned(o.cluster, o.cache) => Owned(p.cluster, p.cache)
  <1>1. /\ Given(cluster.head, n, v) /\ Given(cache.head, n, v)
        /\ Agree(v, cache.versions[n])
        /\ Same(cluster.versions[n], v) /\ Stays(cache.versions[n], v)
    BY Rewritten, Zenon
  <1>2. /\ Kept(p, made, adds)
        /\ p.cluster.head = o.cluster.head /\ p.cache.head = o.cache.head
        /\ \A q \in Numbers : q # n => p.cache.versions[q] = o.cache.versions[q]
    BY <1>1, AlongVersion
  <1>3. ASSUME Owned(cluster, cache), Owned(o.cluster, o.cache) PROVE Owned(p.cluster, p.cache)
    <2>1. v.made = cache.head.made
      BY <1>3, Zenon DEF Owned
    <2>2. cache.versions[n] \in Payloads(made, adds) /\ made \in Nat
      BY InvParts, Zenon DEF Copies
    <2>3. cache.head # NoSecret
      <3>1. cache.versions[n].made \in 1..made /\ NoSecret.made = 0
        BY <2>2, Absent, Zenon
      <3> QED BY <2>1, <3>1
    <2> QED BY <1>3, <2>1, <2>2, <2>3, OwnVersion, Zenon DEF Kept
  <1> QED BY <1>2, <1>3, Zenon

\* CreateSecret.
LEMMA Creating ==
    ASSUME SecretInv, NEW h \in FreshHead,
           NEW gone \in IF cache.head = NoSecret THEN {CallBegins} ELSE Deleting(CallBegins),
           NEW o \in Request(Standing(gone.cluster, gone.cache), PutHead(h))
    PROVE  /\ Kept(o, made + 1, adds)
           /\ Owned(cluster, cache) /\ gone.failed # 1 => Owned(o.cluster, o.cache)
  <1>1. made \in Nat /\ adds \in Nat /\ CallBegins.cluster = cluster /\ CallBegins.cache = cache
        /\ Kept(CallBegins, made, adds)
    BY InvParts, Zenon
  <1>2. /\ Kept(gone, made, adds)
        /\ Owned(cluster, cache) /\ gone.failed # 1 =>
             Owned(gone.cluster, gone.cache) /\ gone.cache.head = NoSecret
    <2>1. CASE cache.head = NoSecret
      BY <1>1, <2>1, Zenon
    <2>2. CASE cache.head # NoSecret
      BY <2>2, AlongDeleting, Zenon
    <2> QED BY <2>1, <2>2, Zenon
  <1> DEFINE s == Standing(gone.cluster, gone.cache)
  <1>3. s.cluster = gone.cluster /\ s.cache = gone.cache
    BY Zenon DEF Standing
  <1>4. Kept(s, made + 1, adds)
    <2>1. Good(gone, made + 1, adds)
      BY <1>1, <1>2, GoodMore DEF Kept
    <2> QED BY <1>2, <1>3, <2>1, Zenon DEF Kept, Good, Along
  <1>5. h \in Heads(made + 1) /\ h # NoSecret /\ h.made = made + 1
    <2>1. base \in Nat /\ offset \in Nat /\ scene.expiries \subseteq Nat
          /\ scene.rotations \subseteq Nat
      BY SecretAssumption, Zenon DEF SecretInv
    <2>2. [n \in Numbers |-> 0] \in [Numbers -> Nat]
      BY Zenon
    <2>3. h \in [made: {made + 1}, next: Nat, expire: Nat, ttl: scene.ttls, rot: Nat,
                 sched: [Numbers -> Nat]]
      BY <2>1, <2>2 DEF FreshHead, Now
    <2> QED BY <1>1, <2>3 DEF Heads, NoSecret
  <1>6. ASSUME NEW n \in Numbers
        PROVE  Given(h, n, s.cluster.versions[n]) /\ Given(h, n, s.cache.versions[n])
    <2>1. /\ s.cluster.versions[n] \in Payloads(made, adds)
          /\ s.cache.versions[n] \in Payloads(made, adds)
      BY <1>2, <1>3, Zenon DEF Kept, Good, Clusters, Copies
    <2>2. \A v \in Payloads(made, adds) : v # NoVersion => v.made # made + 1
      BY <1>1, Absent
    <2> QED BY <1>5, <2>1, <2>2, Zenon DEF Given
  <1> HIDE DEF s
  <1>7. o \in Request(s, PutHead(h))
    BY Zenon DEF s
  <1>8. Kept(o, made + 1, adds)
    BY <1>4, <1>5, <1>6, <1>7, AlongHead, Zenon
  <1>9. ASSUME Owned(cluster, cache), gone.failed # 1 PROVE Owned(o.cluster, o.cache)
    <2>1. Owned(s.cluster, s.cache) /\ s.cache.head = NoSecret
      BY <1>2, <1>3, <1>9, Zenon
    <2>2. Good(s, made + 1, adds) /\ made + 1 \in Nat
      BY <1>1, <1>4 DEF Kept
    <2> QED BY <1>5, <1>7, <2>1, <2>2, OwnHead, Zenon
  <1> QED BY <1>8, <1>9, Zenon

\* UpdateSecret.
LEMMA Updating ==
    ASSUME SecretInv, Live,
           NEW u \in ({"expire"} \X scene.expiries) \cup ({"rotation"} \X scene.rotations)
                     \cup ({"ttl"} \X scene.ttls) \cup {<<"labels", 0>>},
           NEW o \in Request(CallBegins, PutHead(Updated(u[1], u[2])))
    PROVE  /\ Kept(o, made, adds)
           /\ Owned(cluster, cache) => Owned(o.cluster, o.cache)
  <1>1. /\ made \in Nat /\ CallBegins.cluster = cluster /\ CallBegins.cache = cache
        /\ Kept(CallBegins, made, adds)
    BY InvParts, Zenon
  <1>2. cache.head \in Heads(made) /\ cache.head # NoSecret
    BY InvParts, Zenon DEF Copies, Live
  <1> DEFINE h == Updated(u[1], u[2])
  <1>3. base \in Nat /\ offset \in Nat /\ scene.expiries \subseteq Nat
        /\ scene.rotations \subseteq Nat
    BY SecretAssumption, Zenon DEF SecretInv
  <1>4. /\ h \in [made: 1..made, next: Nat, expire: Nat, ttl: scene.ttls, rot: Nat,
                  sched: [Numbers -> Nat]]
        /\ h.made = cache.head.made /\ h.next = cache.head.next
    <2>1. cache.head \in [made: 1..made, next: Nat, expire: Nat, ttl: scene.ttls, rot: Nat,
                          sched: [Numbers -> Nat]]
      BY <1>2, Zenon DEF Heads
    <2>2. CASE u \in {"expire"} \X scene.expiries
      BY <1>3, <2>1, <2>2 DEF Updated, Now
    <2>3. CASE u \in {"rotation"} \X scene.rotations
      BY <1>3, <2>1, <2>3 DEF Updated, Now
    <2>4. CASE u \in {"ttl"} \X scene.ttls
      BY <2>1, <2>4, Zenon DEF Updated
    <2>5. CASE u = <<"labels", 0>>
      BY <2>1, <2>5, Zenon DEF Updated
    <2> QED BY <2>2, <2>3, <2>4, <2>5, Zenon
  <1> HIDE DEF h
  <1>5. h \in Heads(made) /\ h # NoSecret /\ cache.head.next <= h.next
    BY <1>4 DEF Heads, NoSecret
  <1>6. o \in Request(CallBegins, PutHead(h))
    BY Zenon DEF h
  <1> QED BY <1>1, <1>2, <1>4, <1>5, <1>6, AlongOwnHead

\* AddVersion: no version of the secret has the number yet, in the cluster or
\* in memory, and the number is taken when the version is written.
LEMMA AddingKeeps ==
    ASSUME SecretInv, Live, cache.head.next \in Numbers,
           NEW o \in Adding(cache.head.next, [made |-> cache.head.made, bytes |-> adds + 1,
                                             sched |-> 0, state |-> "ENABLED"])
    PROVE  /\ Kept(o, made, adds + 1)
           /\ Owned(cluster, cache) => Owned(o.cluster, o.cache)
  <1> DEFINE n == cache.head.next
             v == [made |-> cache.head.made, bytes |-> adds + 1, sched |-> 0,
                   state |-> "ENABLED"]
             h == [cache.head EXCEPT !.next = @ + 1]
  <1>1. /\ made \in Nat /\ adds \in Nat /\ CallBegins.cluster = cluster
        /\ CallBegins.cache = cache /\ CallBegins.failed = 0 /\ Kept(CallBegins, made, adds)
    BY InvParts, Zenon
  <1>2. cache.head \in Heads(made) /\ cache.head # NoSecret
    BY InvParts, Zenon DEF Copies, Live
  <1>3. Kept(CallBegins, made, adds + 1)
    BY <1>1, GoodMore DEF Kept
  <1>4. cache.head \in [made: 1..made, next: Nat, expire: Nat, ttl: scene.ttls, rot: Nat,
                        sched: [Numbers -> Nat]]
    BY <1>2, Zenon DEF Heads
  <1>5. /\ h \in [made: 1..made, next: Nat, expire: Nat, ttl: scene.ttls, rot: Nat,
                  sched: [Numbers -> Nat]]
        /\ h.made = cache.head.made /\ h.next = n + 1 /\ n \in Nat
    BY <1>4
  <1>6. h \in Heads(made) /\ h # NoSecret /\ cache.head.next <= h.next
    BY <1>5 DEF Heads, NoSecret
  <1>7. v \in Payloads(made, adds + 1) /\ v.made = cache.head.made
    BY <1>1, <1>4 DEF Payloads
  <1>8. PICK p \in Request(CallBegins, PutHead(h)) : o \in Request(p, PutVersion(n, v))
    BY Zenon DEF Adding, Then, TakesNumber
  <1> HIDE DEF n, v, h
  <1>9. /\ Kept(p, made, adds + 1) /\ p.cluster.versions = cluster.versions
        /\ p.cache.versions = cache.versions
        /\ Owned(cluster, cache) => Owned(p.cluster, p.cache)
    BY <1>1, <1>2, <1>3, <1>5, <1>6, AlongOwnHead
  <1>10. CASE p.failed = 1
    <2>1. o = p
      BY <1>8, <1>10, EndedCall, Zenon
    <2> QED BY <1>9, <2>1, Zenon
  <1>11. CASE p.failed # 1
    <2>1. p.cluster = WithHead(cluster, h) /\ p.cache = WithHead(cache, h)
      BY <1>1, <1>11, HeadPut, Zenon
    <2>2. p.cluster.head = h /\ p.cache.head = h
      <3>1. cluster \in Clusters(made, adds) /\ cache \in Copies(made, adds)
        BY InvParts, Zenon
      <3> QED BY <1>6, <2>1, <3>1, HeadParts, HeadCopyParts
    <2>3. Given(h, n, v) /\ n \in Numbers
      BY <1>5 DEF Given, n
    <2>4. /\ Given(cache.head, n, cluster.versions[n]) /\ Given(cache.head, n, cache.versions[n])
      BY <2>3, InvParts, Zenon DEF Sound
    <2>5. /\ cluster.versions[n] # NoVersion => cluster.versions[n].made # v.made
          /\ cache.versions[n] # NoVersion => cache.versions[n].made # v.made
      BY <1>5, <1>7, <2>4 DEF Given, n
    <2>6. Agree(v, p.cache.versions[n])
      BY <1>9, <2>5, Zenon DEF Agree
    <2>7. Same(cluster.versions[n], v) /\ Stays(cache.versions[n], v)
      BY <2>5, Zenon DEF Same, Stays
    <2>8. Kept(o, made, adds + 1)
      BY <1>7, <1>8, <1>9, <2>2, <2>3, <2>6, <2>7, AlongVersion
    <2>9. Owned(cluster, cache) => Owned(o.cluster, o.cache)
      BY <1>1, <1>5, <1>6, <1>7, <1>8, <1>9, <2>2, <2>3, OwnVersion, Zenon DEF Kept
    <2> QED BY <2>8, <2>9, Zenon
  <1> QED BY <1>10, <1>11, Zenon

LEMMA Dropping ==
    ASSUME SecretInv, NEW o, Kept(o, made, adds), NEW n \in Numbers,
           NEW p \in Request(o, DropMount(n))
    PROVE  /\ Kept(p, made, adds) /\ p.cache = o.cache
           /\ p.cluster.head = o.cluster.head /\ p.cluster.versions = o.cluster.versions
           /\ Owned(o.cluster, o.cache) => Owned(p.cluster, p.cache)
  <1>1. 0 \in {NoMount} \cup 0..adds
    BY InvParts
  <1>2. /\ Kept(p, made, adds) /\ p.cache = o.cache
        /\ p.cluster.head = o.cluster.head /\ p.cluster.versions = o.cluster.versions
    <2>1. CASE cluster.mount[n] > 0
      <3>1. p \in Request(o, SetMount(n, 0))
        BY <2>1, Zenon DEF DropMount
      <3> QED BY <1>1, <3>1, AlongMount
    <2>2. CASE ~(cluster.mount[n] > 0)
      <3>1. p \in Request(o, NoRequest)
        BY <2>2, Zenon DEF DropMount
      <3>2. p = o
        BY <3>1, NothingAsked, Zenon
      <3> QED BY <3>2, Zenon
    <2> QED BY <2>1, <2>2, Zenon
  <1> QED BY <1>2, OwnSame, Zenon

\* What is written of a version again is a version.
LEMMA Restated ==
    ASSUME NEW k, NEW a, NEW at \in Nat, NEW st \in {"ENABLED", "DISABLED"},
           NEW v \in [made: 1..k, bytes: 0..a, sched: Nat,
                      state: {"ENABLED", "DISABLED", "DESTROYED"}],
           NEW x, x = [v EXCEPT !.state = st, !.sched = at]
    PROVE  x \in Payloads(k, a) /\ x.made = v.made /\ x.bytes = v.bytes
  <1> DEFINE w == [v EXCEPT !.state = st]
  <1>1. /\ w \in [made: 1..k, bytes: 0..a, sched: Nat,
                  state: {"ENABLED", "DISABLED", "DESTROYED"}]
        /\ w.made = v.made /\ w.bytes = v.bytes /\ w.state = st
    BY Zenon
  <1>2. x = [w EXCEPT !.sched = at]
    BY Zenon
  <1> HIDE DEF w
  <1>3. /\ x \in [made: 1..k, bytes: 0..a, sched: Nat,
                  state: {"ENABLED", "DISABLED", "DESTROYED"}]
        /\ x.made = w.made /\ x.bytes = w.bytes /\ x.state = w.state
    BY <1>1, <1>2, Zenon
  <1> QED BY <1>1, <1>3, Zenon DEF Payloads

LEMMA Erased ==
    ASSUME NEW k, NEW a \in Nat,
           NEW v \in [made: 1..k, bytes: 0..a, sched: Nat,
                      state: {"ENABLED", "DISABLED", "DESTROYED"}],
           NEW x, x = [v EXCEPT !.state = "DESTROYED", !.sched = 0, !.bytes = 0]
    PROVE  /\ x \in [made: 1..k, bytes: 0..a, sched: Nat,
                     state: {"ENABLED", "DISABLED", "DESTROYED"}]
           /\ x.made = v.made /\ x.bytes = 0 /\ x.state = "DESTROYED"
  <1> DEFINE w == [[v EXCEPT !.state = "DESTROYED"] EXCEPT !.sched = 0]
  <1>1. /\ w \in [made: 1..k, bytes: 0..a, sched: Nat,
                  state: {"ENABLED", "DISABLED", "DESTROYED"}]
        /\ w.made = v.made /\ w.state = "DESTROYED"
    <2> DEFINE u == [v EXCEPT !.state = "DESTROYED"]
    <2>1. /\ u \in [made: 1..k, bytes: 0..a, sched: Nat,
                    state: {"ENABLED", "DISABLED", "DESTROYED"}]
          /\ u.made = v.made /\ u.state = "DESTROYED"
      BY Zenon
    <2>2. w = [u EXCEPT !.sched = 0]
      BY Zenon
    <2> HIDE DEF u, w
    <2> QED BY <2>1, <2>2, Zenon
  <1>2. x = [w EXCEPT !.bytes = 0]
    BY Zenon
  <1> HIDE DEF w
  <1> QED BY <1>1, <1>2

LEMMA VersionTyped ==
    ASSUME SecretInv, NEW n \in Numbers, cache.versions[n] # NoVersion
    PROVE  /\ cache.versions[n] \in [made: 1..made, bytes: 0..adds, sched: Nat,
                                     state: {"ENABLED", "DISABLED", "DESTROYED"}]
           /\ cache.versions[n] \in Payloads(made, adds)
           /\ Destroyed(n) \in Payloads(made, adds) /\ Destroyed(n) # NoVersion
           /\ Destroyed(n).made = cache.versions[n].made /\ Destroyed(n).bytes = 0
           /\ Destroyed(n).state = "DESTROYED"
  <1>1. cache.versions[n] \in Payloads(made, adds) /\ adds \in Nat
    BY InvParts, Zenon DEF Copies
  <1>2. cache.versions[n] \in [made: 1..made, bytes: 0..adds, sched: Nat,
                               state: {"ENABLED", "DISABLED", "DESTROYED"}]
    BY <1>1, Zenon DEF Payloads
  <1>3. /\ Destroyed(n) \in [made: 1..made, bytes: 0..adds, sched: Nat,
                             state: {"ENABLED", "DISABLED", "DESTROYED"}]
        /\ Destroyed(n).made = cache.versions[n].made /\ Destroyed(n).bytes = 0
        /\ Destroyed(n).state = "DESTROYED"
    BY <1>1, <1>2, Erased, Zenon DEF Destroyed
  <1>4. Destroyed(n) \in Payloads(made, adds)
    BY <1>3, Zenon DEF Payloads
  <1>5. Destroyed(n) # NoVersion
    BY <1>3 DEF NoVersion
  <1> QED BY <1>1, <1>2, <1>3, <1>4, <1>5, Zenon

\* destroyNowQuiet.
LEMMA DestroyingKeeps ==
    ASSUME SecretInv, NEW o, Kept(o, made, adds),
           o.cluster.head = cluster.head, o.cache.head = cache.head,
           NEW n \in Numbers, cache.versions[n] # NoVersion,
           o.cache.versions[n] = cache.versions[n], NEW p \in Destroying(o, n)
    PROVE  /\ Kept(p, made, adds) /\ p.cache.head = cache.head
           /\ \A q \in Numbers : q # n => p.cache.versions[q] = o.cache.versions[q]
           /\ Owned(cluster, cache) /\ Owned(o.cluster, o.cache) => Owned(p.cluster, p.cache)
  <1>1. PICK r \in Request(o, PutVersion(n, Destroyed(n))) : p \in Request(r, DropMount(n))
    BY Zenon DEF Destroying, Then
  <1>2. /\ Destroyed(n) \in Payloads(made, adds)
        /\ Destroyed(n).made = cache.versions[n].made /\ Destroyed(n).bytes = 0
        /\ Destroyed(n).state = "DESTROYED"
    BY VersionTyped, Zenon
  <1>3. /\ Kept(r, made, adds)
        /\ r.cluster.head = cluster.head /\ r.cache.head = cache.head
        /\ \A q \in Numbers : q # n => r.cache.versions[q] = o.cache.versions[q]
        /\ Owned(cluster, cache) /\ Owned(o.cluster, o.cache) => Owned(r.cluster, r.cache)
    BY <1>2, AlongOwnVersion, Zenon
  <1>4. /\ Kept(p, made, adds) /\ p.cache = r.cache
        /\ Owned(r.cluster, r.cache) => Owned(p.cluster, p.cache)
    BY <1>1, <1>3, Dropping, Zenon
  <1> QED BY <1>3, <1>4, Zenon

\* scheduleDestroy.
LEMMA SchedulingKeeps ==
    ASSUME SecretInv, Live, NEW n \in Numbers, cache.versions[n] # NoVersion,
           cache.versions[n].state # "DESTROYED", NEW at \in Nat, NEW o \in Scheduling(n, at)
    PROVE  /\ Kept(o, made, adds)
           /\ Owned(cluster, cache) => Owned(o.cluster, o.cache)
  <1> DEFINE v == [cache.versions[n] EXCEPT !.state = "DISABLED", !.sched = at]
             h == [cache.head EXCEPT !.sched[n] = at]
  <1>1. /\ made \in Nat /\ adds \in Nat /\ CallBegins.cluster = cluster
        /\ CallBegins.cache = cache /\ Kept(CallBegins, made, adds)
    BY InvParts, Zenon
  <1>2. cache.head \in Heads(made) /\ cache.head # NoSecret
    BY InvParts, Zenon DEF Copies, Live
  <1>3. v \in Payloads(made, adds) /\ v.made = cache.versions[n].made
        /\ v.bytes = cache.versions[n].bytes
    <2>1. cache.versions[n] \in [made: 1..made, bytes: 0..adds, sched: Nat,
                                 state: {"ENABLED", "DISABLED", "DESTROYED"}]
      BY VersionTyped, Zenon
    <2>2. v = [cache.versions[n] EXCEPT !.state = "DISABLED", !.sched = at]
      BY Zenon
    <2> HIDE DEF v
    <2> QED BY <2>1, <2>2, Restated, Zenon
  <1>4. /\ h \in [made: 1..made, next: Nat, expire: Nat, ttl: scene.ttls, rot: Nat,
                  sched: [Numbers -> Nat]]
        /\ h.made = cache.head.made /\ h.next = cache.head.next
    BY <1>2, Zenon DEF Heads
  <1>5. h \in Heads(made) /\ h # NoSecret /\ cache.head.next <= h.next
    BY <1>4 DEF Heads, NoSecret
  <1>6. PICK p \in Request(CallBegins, PutVersion(n, v)) : o \in Request(p, PutHead(h))
    BY Zenon DEF Scheduling, Then
  <1> HIDE DEF v, h
  <1>7. /\ Kept(p, made, adds) /\ p.cache.head = cache.head
        /\ Owned(cluster, cache) => Owned(p.cluster, p.cache)
    BY <1>1, <1>3, <1>6, AlongOwnVersion, Zenon
  <1> QED BY <1>1, <1>2, <1>4, <1>5, <1>6, <1>7, AlongOwnHead

\* SetVersionState.
LEMMA SettingKeeps ==
    ASSUME SecretInv, Live, NEW n \in Numbers, NEW state \in {"ENABLED", "DISABLED"},
           MaySetState(cache.versions[n]), NEW o \in Setting(n, state)
    PROVE  /\ Kept(o, made, adds)
           /\ Owned(cluster, cache) => Owned(o.cluster, o.cache)
  <1> DEFINE v == [cache.versions[n] EXCEPT !.state = state, !.sched = 0]
             h == [cache.head EXCEPT !.sched[n] = 0]
  <1>1. /\ made \in Nat /\ adds \in Nat /\ CallBegins.cluster = cluster
        /\ CallBegins.cache = cache /\ Kept(CallBegins, made, adds)
    BY InvParts, Zenon
  <1>2. cache.head \in Heads(made) /\ cache.head # NoSecret
    BY InvParts, Zenon DEF Copies, Live
  <1>3. cache.versions[n] # NoVersion /\ cache.versions[n].state # "DESTROYED"
    BY Zenon DEF MaySetState
  <1>4. v \in Payloads(made, adds) /\ v.made = cache.versions[n].made
        /\ v.bytes = cache.versions[n].bytes
    <2>1. cache.versions[n] \in [made: 1..made, bytes: 0..adds, sched: Nat,
                                 state: {"ENABLED", "DISABLED", "DESTROYED"}]
      BY <1>3, VersionTyped, Zenon
    <2>2. v = [cache.versions[n] EXCEPT !.state = state, !.sched = 0]
      BY Zenon
    <2> HIDE DEF v
    <2> QED BY <2>1, <2>2, Restated, Zenon
  <1>5. /\ h \in [made: 1..made, next: Nat, expire: Nat, ttl: scene.ttls, rot: Nat,
                  sched: [Numbers -> Nat]]
        /\ h.made = cache.head.made /\ h.next = cache.head.next
    BY <1>2, Zenon DEF Heads
  <1>6. h \in Heads(made) /\ h # NoSecret /\ cache.head.next <= h.next
    BY <1>5 DEF Heads, NoSecret
  <1>7. PICK q \in Then(Request(CallBegins, PutVersion(n, v)),
                        IF cache.versions[n].sched # 0 THEN PutHead(h) ELSE NoRequest) :
             o \in Request(q, IF state = "DISABLED" THEN DropMount(n) ELSE NoRequest)
    BY Zenon DEF Setting, Then
  <1>8. PICK p \in Request(CallBegins, PutVersion(n, v)) :
             q \in Request(p, IF cache.versions[n].sched # 0 THEN PutHead(h) ELSE NoRequest)
    BY <1>7, Zenon DEF Then
  <1> HIDE DEF v, h
  <1>9. /\ Kept(p, made, adds) /\ p.cache.head = cache.head
        /\ Owned(cluster, cache) => Owned(p.cluster, p.cache)
    BY <1>1, <1>3, <1>4, <1>8, AlongOwnVersion, Zenon
  <1>10. Kept(q, made, adds) /\ (Owned(p.cluster, p.cache) => Owned(q.cluster, q.cache))
    <2>1. CASE q \in Request(p, PutHead(h))
      BY <1>1, <1>2, <1>5, <1>6, <1>9, <2>1, AlongOwnHead
    <2>2. CASE q \in Request(p, NoRequest)
      <3>1. q = p
        BY <2>2, NothingAsked, Zenon
      <3> QED BY <1>9, <3>1, Zenon
    <2> QED BY <1>8, <2>1, <2>2, Zenon
  <1>11. Kept(o, made, adds) /\ (Owned(q.cluster, q.cache) => Owned(o.cluster, o.cache))
    <2>1. CASE o \in Request(q, DropMount(n))
      BY <1>10, <2>1, Dropping, Zenon
    <2>2. CASE o \in Request(q, NoRequest)
      <3>1. o = q
        BY <2>2, NothingAsked, Zenon
      <3> QED BY <1>10, <3>1, Zenon
    <2> QED BY <1>7, <2>1, <2>2, Zenon
  <1> QED BY <1>9, <1>10, <1>11, Zenon

\* The destructions that due has come through keep what is stored.
LEMMA DueParts ==
    ASSUME SecretInv, NEW k
    PROVE  /\ DestroyedBefore(k).cluster \in Clusters(made, adds)
           /\ DestroyedBefore(k).cache \in Copies(made, adds)
           /\ DestroyedBefore(k).cluster.head = cluster.head
           /\ DestroyedBefore(k).cache.head = cache.head
           /\ \A n \in Numbers :
                 IF n \in DueDestroyed /\ n < k
                 THEN /\ DestroyedBefore(k).cluster.versions[n] = Destroyed(n)
                      /\ DestroyedBefore(k).cache.versions[n] = Destroyed(n)
                 ELSE /\ DestroyedBefore(k).cluster.versions[n] = cluster.versions[n]
                      /\ DestroyedBefore(k).cache.versions[n] = cache.versions[n]
  <1> DEFINE D(n) == n \in DueDestroyed /\ n < k
             V == [n \in Numbers |-> IF D(n) THEN Destroyed(n) ELSE cluster.versions[n]]
             W == [n \in Numbers |-> IF D(n) THEN Destroyed(n) ELSE cache.versions[n]]
             M == [n \in Numbers |-> IF D(n) /\ cluster.mount[n] > 0 THEN 0
                                     ELSE cluster.mount[n]]
             C == [cluster EXCEPT !.versions = V, !.mount = M]
             N == [cache EXCEPT !.versions = W]
  <1>1. DestroyedBefore(k) = Standing(C, N)
    BY Zenon DEF DestroyedBefore
  <1>2. \A n \in Numbers : n \in DueDestroyed => cache.versions[n] # NoVersion
    BY Zenon DEF DueDestroyed, Scheduled
  <1>3. \A n \in Numbers : n \in DueDestroyed => Destroyed(n) \in Payloads(made, adds)
    BY <1>2, VersionTyped, Zenon
  <1>4. /\ cluster \in Clusters(made, adds) /\ cache \in Copies(made, adds) /\ adds \in Nat
    BY InvParts, Zenon
  <1> HIDE DEF D
  <1>5. V \in [Numbers -> Payloads(made, adds)] /\ W \in [Numbers -> Payloads(made, adds)]
    BY <1>3, <1>4, Zenon DEF D, Clusters, Copies
  <1>6. M \in [Numbers -> {NoMount} \cup 0..adds]
    BY <1>4 DEF Clusters
  <1>7. \A n \in Numbers : IF n \in DueDestroyed /\ n < k
                           THEN V[n] = Destroyed(n) /\ W[n] = Destroyed(n)
                           ELSE V[n] = cluster.versions[n] /\ W[n] = cache.versions[n]
    BY Zenon DEF D
  <1> HIDE DEF V, W, M
  <1>8. C \in Clusters(made, adds) /\ C.head = cluster.head /\ C.versions = V
    BY <1>4, <1>5, <1>6, Zenon DEF Clusters
  <1>9. N \in Copies(made, adds) /\ N.head = cache.head /\ N.versions = W
    BY <1>4, <1>5, Zenon DEF Copies
  <1> HIDE DEF C, N
  <1>10. DestroyedBefore(k).cluster = C /\ DestroyedBefore(k).cache = N
    BY <1>1 DEF Standing
  <1> QED BY <1>7, <1>8, <1>9, <1>10, Zenon

LEMMA DueKeeps ==
    ASSUME SecretInv, cache.head # NoSecret, NEW k
    PROVE  /\ Kept(DestroyedBefore(k), made, adds)
           /\ Owned(cluster, cache) =>
                 Owned(DestroyedBefore(k).cluster, DestroyedBefore(k).cache)
  <1> DEFINE o == DestroyedBefore(k)
  <1>1. /\ o.cluster \in Clusters(made, adds) /\ o.cache \in Copies(made, adds)
        /\ o.cluster.head = cluster.head /\ o.cache.head = cache.head
        /\ \A n \in Numbers :
              \/ /\ n \in DueDestroyed
                 /\ o.cluster.versions[n] = Destroyed(n) /\ o.cache.versions[n] = Destroyed(n)
              \/ /\ o.cluster.versions[n] = cluster.versions[n]
                 /\ o.cache.versions[n] = cache.versions[n]
    BY DueParts, Zenon
  <1> HIDE DEF o
  <1>2. ASSUME NEW n \in Numbers, n \in DueDestroyed
        PROVE  /\ cache.versions[n] # NoVersion /\ Destroyed(n) # NoVersion
               /\ Destroyed(n).made = cache.versions[n].made
               /\ Given(cluster.head, n, Destroyed(n)) /\ Given(cache.head, n, Destroyed(n))
               /\ Agree(Destroyed(n), Destroyed(n))
               /\ Same(cluster.versions[n], Destroyed(n))
               /\ Stays(cache.versions[n], Destroyed(n))
    <2>1. cache.versions[n] # NoVersion
      BY <1>2, Zenon DEF DueDestroyed, Scheduled
    <2>2. /\ Destroyed(n) # NoVersion /\ Destroyed(n).made = cache.versions[n].made
          /\ Destroyed(n).bytes = 0 /\ Destroyed(n).state = "DESTROYED"
      BY <2>1, VersionTyped, Zenon
    <2>3. /\ Given(cluster.head, n, Destroyed(n)) /\ Given(cache.head, n, Destroyed(n))
          /\ Same(cluster.versions[n], Destroyed(n)) /\ Stays(cache.versions[n], Destroyed(n))
      BY <2>1, <2>2, Rewritten, Zenon
    <2>4. Agree(Destroyed(n), Destroyed(n))
      BY Zenon DEF Agree
    <2> QED BY <2>1, <2>2, <2>3, <2>4, Zenon
  <1>3. Sound(o.cluster, o.cache)
    <2> SUFFICES ASSUME NEW n \in Numbers
                 PROVE  /\ Given(cluster.head, n, o.cluster.versions[n])
                        /\ Given(cluster.head, n, o.cache.versions[n])
                        /\ Given(cache.head, n, o.cluster.versions[n])
                        /\ Given(cache.head, n, o.cache.versions[n])
                        /\ Agree(o.cluster.versions[n], o.cache.versions[n])
      BY <1>1, Zenon DEF Sound
    <2>1. CASE /\ n \in DueDestroyed
               /\ o.cluster.versions[n] = Destroyed(n) /\ o.cache.versions[n] = Destroyed(n)
      BY <1>2, <2>1, Zenon
    <2>2. CASE /\ o.cluster.versions[n] = cluster.versions[n]
               /\ o.cache.versions[n] = cache.versions[n]
      <3>1. Sound(cluster, cache)
        BY InvParts, Zenon
      <3> QED BY <2>2, <3>1, Zenon DEF Sound
    <2> QED BY <1>1, <2>1, <2>2, Zenon
  <1>4. Along(o)
    <2> SUFFICES ASSUME NEW n \in Numbers
                 PROVE  /\ Same(cluster.versions[n], o.cluster.versions[n])
                        /\ Stays(cache.versions[n], o.cache.versions[n])
      BY Zenon DEF Along
    <2>1. CASE /\ n \in DueDestroyed
               /\ o.cluster.versions[n] = Destroyed(n) /\ o.cache.versions[n] = Destroyed(n)
      BY <1>2, <2>1, Zenon
    <2>2. CASE /\ o.cluster.versions[n] = cluster.versions[n]
               /\ o.cache.versions[n] = cache.versions[n]
      BY <2>2, Zenon DEF Same, Stays
    <2> QED BY <1>1, <2>1, <2>2, Zenon
  <1>5. ASSUME Owned(cluster, cache) PROVE Owned(o.cluster, o.cache)
    <2> SUFFICES ASSUME NEW n \in Numbers
                 PROVE  /\ o.cluster.versions[n] # NoVersion =>
                              o.cluster.versions[n].made = cluster.head.made
                        /\ o.cache.versions[n] # NoVersion =>
                              o.cache.versions[n].made = cache.head.made
      BY <1>1, <1>5, Zenon DEF Owned
    <2>1. CASE /\ n \in DueDestroyed
               /\ o.cluster.versions[n] = Destroyed(n) /\ o.cache.versions[n] = Destroyed(n)
      <3>1. cache.versions[n].made = cache.head.made /\ cluster.head.made = cache.head.made
        BY <1>2, <1>5, <2>1, Zenon DEF Owned
      <3> QED BY <1>2, <2>1, <3>1, Zenon
    <2>2. CASE /\ o.cluster.versions[n] = cluster.versions[n]
               /\ o.cache.versions[n] = cache.versions[n]
      BY <1>5, <2>2, Zenon DEF Owned
    <2> QED BY <1>1, <2>1, <2>2, Zenon
  <1>6. Kept(o, made, adds)
    BY <1>1, <1>3, <1>4, Zenon DEF Kept, Good
  <1> QED BY <1>5, <1>6, Zenon DEF o

LEMMA RotationTyped ==
    ASSUME SecretInv, NEW rot \in Nat PROVE NextRotation(rot) \in Nat
  <1>1. Now \in Nat /\ RotationPeriod \in Nat
    BY SecretAssumption DEF SecretInv, Now
  <1>2. CASE rot = 0 \/ Now < rot
    BY <1>2, Zenon DEF NextRotation
  <1>3. CASE ~(rot = 0 \/ Now < rot) /\ RotationPeriod = 0
    BY <1>3, Zenon DEF NextRotation
  <1>4. CASE ~(rot = 0 \/ Now < rot) /\ RotationPeriod # 0
    <2>1. (Now - rot) \div RotationPeriod + 1 \in Nat
      BY <1>1, <1>4
    <2>2. \A i, j \in Nat : i * j \in Nat
      OBVIOUS
    <2>3. RotationPeriod * ((Now - rot) \div RotationPeriod + 1) \in Nat
      BY <1>1, <2>1, <2>2, Zenon
    <2>4. rot + RotationPeriod * ((Now - rot) \div RotationPeriod + 1) \in Nat
      BY <2>3
    <2> QED BY <1>4, <2>4, Zenon DEF NextRotation
  <1> QED BY <1>2, <1>3, <1>4, Zenon

LEMMA SweptTyped ==
    ASSUME SecretInv, cache.head # NoSecret
    PROVE  /\ Swept(cache.head) \in Heads(made) /\ Swept(cache.head) # NoSecret
           /\ Swept(cache.head).made = cache.head.made
           /\ Swept(cache.head).next = cache.head.next /\ cache.head.next \in Nat
  <1> DEFINE S == [n \in Numbers |-> IF n \in DueNumbers THEN 0 ELSE cache.head.sched[n]]
             g == [cache.head EXCEPT !.rot = NextRotation(cache.head.rot)]
             h == [g EXCEPT !.sched = S]
             R == [made: 1..made, next: Nat, expire: Nat, ttl: scene.ttls, rot: Nat,
                   sched: [Numbers -> Nat]]
  <1>1. cache.head \in R
    BY InvParts, Zenon DEF Copies, Heads
  <1>2. NextRotation(cache.head.rot) \in Nat
    BY <1>1, RotationTyped, Zenon
  <1>3. S \in [Numbers -> Nat]
    BY <1>1, Zenon
  <1>4. Swept(cache.head) = h
    BY Zenon DEF Swept
  <1> HIDE DEF S
  <1>5. g \in R /\ g.made = cache.head.made /\ g.next = cache.head.next
    BY <1>1, <1>2, Zenon
  <1> HIDE DEF g
  <1>6. h \in R /\ h.made = g.made /\ h.next = g.next
    BY <1>3, <1>5, Zenon
  <1> HIDE DEF h
  <1>7. h \in Heads(made) /\ h # NoSecret
    BY <1>6 DEF Heads, NoSecret
  <1> QED BY <1>1, <1>4, <1>5, <1>6, <1>7, Zenon

\* due.
LEMMA RunsDueKeeps ==
    ASSUME SecretInv, cache.head # NoSecret, NEW o \in RunsDue
    PROVE  /\ Kept(o, made, adds)
           /\ Owned(cluster, cache) => Owned(o.cluster, o.cache)
           /\ \A n \in Numbers : n \notin DueDestroyed => o.cache.versions[n] = cache.versions[n]
  <1>1. PICK p \in {DestroyedBefore(scene.versions + 1)}
                   \cup {x \in UNION {Destroying(DestroyedBefore(n), n) : n \in DueDestroyed} :
                         x.failed = 1} :
             o \in Request(p, IF Swept(cache.head) # cache.head
                              THEN PutHead(Swept(cache.head)) ELSE NoRequest)
    BY Zenon DEF RunsDue, Then
  <1>2. /\ Kept(p, made, adds) /\ p.cache.head = cache.head
        /\ Owned(cluster, cache) => Owned(p.cluster, p.cache)
        /\ \A n \in Numbers : n \notin DueDestroyed => p.cache.versions[n] = cache.versions[n]
    <2>1. CASE p = DestroyedBefore(scene.versions + 1)
      BY <2>1, DueParts, DueKeeps, Zenon
    <2>2. ASSUME NEW n \in DueDestroyed, p \in Destroying(DestroyedBefore(n), n)
          PROVE  /\ Kept(p, made, adds) /\ p.cache.head = cache.head
                 /\ Owned(cluster, cache) => Owned(p.cluster, p.cache)
                 /\ \A q \in Numbers :
                       q \notin DueDestroyed => p.cache.versions[q] = cache.versions[q]
      <3> DEFINE y == DestroyedBefore(n)
      <3>1. n \in Numbers /\ cache.versions[n] # NoVersion
        BY Zenon DEF DueDestroyed, DueNumbers, Scheduled
      <3>2. ~(n < n)
        BY <3>1, InvParts
      <3>3. /\ y.cluster.head = cluster.head /\ y.cache.head = cache.head
            /\ y.cache.versions[n] = cache.versions[n]
            /\ \A q \in Numbers :
                  q \notin DueDestroyed => y.cache.versions[q] = cache.versions[q]
        BY <3>1, <3>2, DueParts, Zenon
      <3>4. Kept(y, made, adds) /\ (Owned(cluster, cache) => Owned(y.cluster, y.cache))
        BY DueKeeps, Zenon
      <3>5. p \in Destroying(y, n)
        BY <2>2, Zenon
      <3> HIDE DEF y
      <3>6. /\ Kept(p, made, adds) /\ p.cache.head = cache.head
            /\ \A q \in Numbers : q # n => p.cache.versions[q] = y.cache.versions[q]
            /\ Owned(cluster, cache) /\ Owned(y.cluster, y.cache) => Owned(p.cluster, p.cache)
        BY <3>1, <3>3, <3>4, <3>5, DestroyingKeeps, Zenon
      <3> QED BY <3>3, <3>4, <3>6, Zenon
    <2> QED BY <1>1, <2>1, <2>2, Zenon
  <1>3. CASE o \in Request(p, PutHead(Swept(cache.head)))
    <2>1. made \in Nat
      BY InvParts, Zenon
    <2>2. /\ Swept(cache.head) \in Heads(made) /\ Swept(cache.head) # NoSecret
          /\ Swept(cache.head).made = cache.head.made
          /\ cache.head.next <= Swept(cache.head).next
      BY SweptTyped
    <2>3. /\ Kept(o, made, adds) /\ o.cache.versions = p.cache.versions
          /\ Owned(p.cluster, p.cache) => Owned(o.cluster, o.cache)
      BY <1>2, <1>3, <2>1, <2>2, AlongOwnHead
    <2> QED BY <1>2, <2>3, Zenon
  <1>4. CASE o \in Request(p, NoRequest)
    <2>1. o = p
      BY <1>4, NothingAsked, Zenon
    <2> QED BY <1>2, <2>1, Zenon
  <1> QED BY <1>1, <1>3, <1>4, Zenon

\* Sweep.
LEMMA SweepingKeeps ==
    ASSUME SecretInv, NEW o \in Sweeping
    PROVE  /\ Kept(o, made, adds)
           /\ Owned(cluster, cache)
                 /\ ~(o.failed = 1 /\ cache.head # NoSecret /\ Expired(cache.head)) =>
                 Owned(o.cluster, o.cache)
           /\ \A n \in Numbers : cache.versions[n] # NoVersion /\ cache.versions[n].sched = 0 =>
                 o.cache.versions[n] = cache.versions[n] \/ o.cache.versions[n] = NoVersion
  <1>1. CASE cache.head = NoSecret
    <2>1. o = CallBegins
      BY <1>1, Zenon DEF Sweeping
    <2> QED BY <2>1, InvParts, Zenon
  <1>2. CASE cache.head # NoSecret /\ Expired(cache.head)
    <2>1. o \in Deleting(CallBegins)
      BY <1>2, Zenon DEF Sweeping
    <2> QED BY <1>2, <2>1, AlongDeleting, Zenon
  <1>3. CASE cache.head # NoSecret /\ ~Expired(cache.head)
    <2>1. o \in RunsDue
      BY <1>3, Zenon DEF Sweeping
    <2>2. \A n \in Numbers : cache.versions[n].sched = 0 => n \notin DueDestroyed
      BY Zenon DEF DueDestroyed, Scheduled
    <2> QED BY <1>3, <2>1, <2>2, RunsDueKeeps, Zenon
  <1> QED BY <1>1, <1>2, <1>3, Zenon

\* RefreshMounts writes mounts alone.
LEMMA MountsOnly ==
    ASSUME SecretInv, NEW f \in [Numbers -> {NoMount} \cup 0..adds],
           NEW o, o = Standing([cluster EXCEPT !.mount = f], cache)
    PROVE  /\ Kept(o, made, adds)
           /\ Owned(cluster, cache) => Owned(o.cluster, o.cache)
  <1>1. o.cluster = [cluster EXCEPT !.mount = f] /\ o.cache = cache
    BY Zenon DEF Standing
  <1>2. cluster \in Clusters(made, adds) /\ cache \in Copies(made, adds) /\ Sound(cluster, cache)
    BY InvParts, Zenon
  <1>3. /\ o.cluster \in Clusters(made, adds) /\ o.cluster.head = cluster.head
        /\ o.cluster.versions = cluster.versions
    BY <1>1, <1>2, Zenon DEF Clusters
  <1>4. Sound(o.cluster, o.cache)
    BY <1>1, <1>2, <1>3, Zenon DEF Sound
  <1>5. Along(o)
    BY <1>1, <1>3, Zenon DEF Along, Same, Stays
  <1>6. Kept(o, made, adds)
    BY <1>1, <1>2, <1>3, <1>4, <1>5, Zenon DEF Kept, Good
  <1> QED BY <1>1, <1>3, <1>6, OwnSame, Zenon

LEMMA RefreshedTyped ==
    ASSUME SecretInv, NEW n \in Numbers
    PROVE  Refreshed(n) \in {NoMount} \cup 0..adds
  <1>1. cluster.mount[n] \in {NoMount} \cup 0..adds /\ adds \in Nat
    BY InvParts, Zenon DEF Clusters
  <1>2. Readable(cache.versions[n]) => cache.versions[n].bytes \in 0..adds
    BY VersionTyped, Zenon DEF Readable
  <1>3. 0 \in 0..adds
    BY <1>1
  <1> QED BY <1>1, <1>2, <1>3, Zenon DEF Refreshed

LEMMA RefreshingKeeps ==
    ASSUME SecretInv,
           NEW o \in {RefreshedBefore(scene.versions + 1)} \cup
               {x \in UNION {Request(RefreshedBefore(n), SetMount(n, Refreshed(n))) :
                             n \in {i \in Numbers : Refreshed(i) # cluster.mount[i]}} :
                x.failed = 1}
    PROVE  /\ Kept(o, made, adds)
           /\ Owned(cluster, cache) => Owned(o.cluster, o.cache)
  <1>1. ASSUME NEW k
        PROVE  /\ Kept(RefreshedBefore(k), made, adds)
               /\ Owned(cluster, cache) =>
                     Owned(RefreshedBefore(k).cluster, RefreshedBefore(k).cache)
    <2> DEFINE f == [n \in Numbers |-> IF n < k THEN Refreshed(n) ELSE cluster.mount[n]]
    <2>1. cluster.mount \in [Numbers -> {NoMount} \cup 0..adds]
      BY InvParts, Zenon DEF Clusters
    <2>2. f \in [Numbers -> {NoMount} \cup 0..adds]
      BY <2>1, RefreshedTyped, Zenon
    <2>3. RefreshedBefore(k) = Standing([cluster EXCEPT !.mount = f], cache)
      BY Zenon DEF RefreshedBefore
    <2> HIDE DEF f
    <2> QED BY <2>2, <2>3, MountsOnly, Zenon
  <1>2. CASE o = RefreshedBefore(scene.versions + 1)
    BY <1>1, <1>2, Zenon
  <1>3. ASSUME NEW n \in Numbers, o \in Request(RefreshedBefore(n), SetMount(n, Refreshed(n)))
        PROVE  /\ Kept(o, made, adds)
               /\ Owned(cluster, cache) => Owned(o.cluster, o.cache)
    <2>1. Refreshed(n) \in {NoMount} \cup 0..adds
      BY RefreshedTyped, Zenon
    <2>2. /\ Kept(o, made, adds) /\ o.cache = RefreshedBefore(n).cache
          /\ o.cluster.head = RefreshedBefore(n).cluster.head
          /\ o.cluster.versions = RefreshedBefore(n).cluster.versions
      BY <1>1, <1>3, <2>1, AlongMount
    <2> QED BY <1>1, <2>2, OwnSame, Zenon
  <1> QED BY <1>2, <1>3, Zenon

\* mount, of ResolveSecretRef.
LEMMA MountingKeeps ==
    ASSUME SecretInv, deploy.pc = "read",
           NEW o \in Request(CallBegins, IF keyOK THEN SetMount(deploy.n, deploy.bytes)
                                        ELSE NoRequest)
    PROVE  /\ Kept(o, made, adds)
           /\ Owned(cluster, cache) => Owned(o.cluster, o.cache)
  <1>1. deploy.n \in Numbers /\ deploy.bytes \in {NoMount} \cup 0..adds
    BY Zenon DEF SecretInv
  <1>2. /\ Kept(CallBegins, made, adds) /\ CallBegins.cluster = cluster
        /\ CallBegins.cache = cache
    BY InvParts, Zenon
  <1>3. CASE o \in Request(CallBegins, SetMount(deploy.n, deploy.bytes))
    <2>1. /\ Kept(o, made, adds) /\ o.cache = cache
          /\ o.cluster.head = cluster.head /\ o.cluster.versions = cluster.versions
      BY <1>1, <1>2, <1>3, AlongMount
    <2> QED BY <2>1, OwnSame, Zenon
  <1>4. CASE o \in Request(CallBegins, NoRequest)
    <2>1. o = CallBegins
      BY <1>4, NothingAsked, Zenon
    <2> QED BY <1>2, <2>1, Zenon
  <1> QED BY <1>3, <1>4, Zenon

\* The store lists the cluster again, which has what it had, or less.
LEMMA Reloaded ==
    ASSUME SecretInv, NEW d \in Clusters(made, adds), d.head = cluster.head \/ d.head = NoSecret,
           \A n \in Numbers : d.versions[n] = cluster.versions[n] \/ d.versions[n] = NoVersion
    PROVE  Kept(Standing(d, Loaded(d)), made, adds)
  <1> DEFINE o == Standing(d, Loaded(d))
  <1>1. /\ o.cluster = d /\ o.cache = Loaded(d)
        /\ Loaded(d).head = d.head /\ Loaded(d).versions = d.versions
    BY Zenon DEF Standing, Loaded
  <1>2. Loaded(d) \in Copies(made, adds)
    BY Zenon DEF Loaded, Clusters, Copies
  <1>3. /\ cluster \in Clusters(made, adds) /\ cache \in Copies(made, adds)
        /\ Sound(cluster, cache) /\ made \in Nat
    BY InvParts, Zenon
  <1>4. Sound(d, cache)
    BY <1>3, SoundLess, Zenon
  <1> HIDE DEF o
  <1>5. Sound(d, Loaded(d))
    BY <1>1, <1>4, Zenon DEF Sound, Agree
  <1>6. ASSUME NEW n \in Numbers
        PROVE  /\ Same(cluster.versions[n], d.versions[n])
               /\ Stays(cache.versions[n], d.versions[n])
    <2>1. /\ cluster.versions[n] \in Payloads(made, adds)
          /\ cache.versions[n] \in Payloads(made, adds)
          /\ Agree(cluster.versions[n], cache.versions[n])
      BY <1>3, Zenon DEF Clusters, Copies, Sound
    <2>2. CASE d.versions[n] = NoVersion
      BY <1>3, <2>1, <2>2, Absent DEF Same, Stays
    <2>3. CASE d.versions[n] = cluster.versions[n] /\ d.versions[n] # NoVersion
      BY <2>1, <2>3, Zenon DEF Same, Stays, Agree
    <2> QED BY <2>2, <2>3, Zenon
  <1>7. Along(o)
    BY <1>1, <1>6, Zenon DEF Along
  <1>8. Good(o, made, adds)
    BY <1>1, <1>2, <1>5, Zenon DEF Good
  <1> QED BY <1>7, <1>8, Zenon DEF Kept, o

LEMMA RestartOwned ==
    ASSUME SecretInv, Owned(cluster, cache) PROVE Owned(cluster, Loaded(cluster))
  <1>1. Loaded(cluster).head = cluster.head /\ Loaded(cluster).versions = cluster.versions
    BY Zenon DEF Loaded
  <1>2. cluster.head = NoSecret => cache.head = NoSecret
    <2>1. cache \in Copies(made, adds) /\ made \in Nat
      BY InvParts, Zenon
    <2>2. cache.head \in Heads(made)
      BY <2>1, Zenon DEF Copies
    <2> QED BY <2>1, <2>2, Absent DEF Owned
  <1> QED BY <1>1, <1>2, Zenon DEF Owned

LEMMA ResetKeeps ==
    ASSUME SecretInv, ResetSecrets
    PROVE  /\ Kept(Standing(cluster', cache'), made, adds)
           /\ ~torn' => Owned(cluster', cache')
  <1>1. cache' = Loaded(cluster')
    BY Zenon DEF ResetSecrets
  <1>2. cluster \in Clusters(made, adds)
    BY InvParts, Zenon
  <1>3. CASE cluster' = EmptyCluster
    <2>1. /\ EmptyCluster.head = NoSecret /\ EmptyCluster \in Clusters(made, adds)
          /\ EmptyCluster.versions = Nothing
      <3>1. NoSecret \in Heads(made) /\ Nothing \in [Numbers -> Payloads(made, adds)]
        BY Zenon DEF Heads, Payloads, Nothing
      <3>2. Unmounted \in [Numbers -> {NoMount} \cup 0..adds]
        BY Zenon DEF Unmounted
      <3> QED BY <3>1, <3>2, Zenon DEF EmptyCluster, Clusters
    <2>2. \A n \in Numbers : EmptyCluster.versions[n] = NoVersion
      BY <2>1, Zenon DEF Nothing
    <2> HIDE DEF EmptyCluster
    <2>3. Kept(Standing(EmptyCluster, Loaded(EmptyCluster)), made, adds)
      BY <2>1, <2>2, Reloaded, Zenon
    <2>4. /\ Loaded(EmptyCluster).head = NoSecret
          /\ \A n \in Numbers : Loaded(EmptyCluster).versions[n] = NoVersion
      BY <2>1, <2>2, Zenon DEF Loaded
    <2>5. Owned(EmptyCluster, Loaded(EmptyCluster))
      BY <2>2, <2>4, OwnNothing, Zenon
    <2> QED BY <1>1, <1>3, <2>3, <2>5, Zenon
  <1>4. ASSUME NEW m \in {cluster.mount, Unmounted}, NEW c \in Failing(cluster, DeleteCollection),
               cluster' = [c EXCEPT !.mount = m]
        PROVE  Kept(Standing(cluster', cache'), made, adds)
    <2>1. /\ c \in Clusters(made, adds) /\ (c.head = cluster.head \/ c.head = NoSecret)
          /\ \A n \in Numbers : c.versions[n] = cluster.versions[n] \/ c.versions[n] = NoVersion
      BY <1>2, CollectionFailing
    <2>2. m \in [Numbers -> {NoMount} \cup 0..adds]
      BY <1>2, Zenon DEF Clusters, Unmounted
    <2>3. /\ cluster' \in Clusters(made, adds) /\ cluster'.head = c.head
          /\ cluster'.versions = c.versions
      BY <1>4, <2>1, <2>2, Zenon DEF Clusters
    <2>4. Kept(Standing(cluster', Loaded(cluster')), made, adds)
      BY <2>1, <2>3, Reloaded, Zenon
    <2> QED BY <1>1, <2>4, Zenon
  <1>5. \/ cluster' = EmptyCluster
        \/ /\ torn'
           /\ \E m \in {cluster.mount, Unmounted} :
                 \E c \in Failing(cluster, DeleteCollection) : cluster' = [c EXCEPT !.mount = m]
    BY Zenon DEF ResetSecrets
  <1> QED BY <1>3, <1>4, <1>5, Zenon
------------------------------------------------------------------------------
\* What a step is to keep.
Onward ==
    /\ SecretInv'
    /\ \A n \in Numbers : /\ Same(cluster.versions[n], cluster'.versions[n])
                          /\ Stays(cache.versions[n], cache'.versions[n])

\* A step of the process that leaves the cluster and memory as o.
LEMMA Steps ==
    ASSUME SecretInv, UNCHANGED <<scene>>, NEW o, cluster' = o.cluster, cache' = o.cache,
           made' \in Nat, made' <= scene.made, adds' \in Nat, base' \in Nat, offset' \in Nat,
           Kept(o, made', adds'), ~torn' => Owned(o.cluster, o.cache),
           deploy'.pc \in {"idle", "named", "read"},
           deploy'.pc # "idle" => deploy'.n \in Numbers,
           deploy'.pc = "read" => deploy'.bytes \in 0..adds',
           sweeper'.pc = "sweep" => sweeper' = [pc |-> "sweep", at |-> 0]
    PROVE  Onward
  <1>1. scene' = scene /\ Numbers' = Numbers
    BY Zenon DEF Numbers
  <1>2. /\ CallBegins'.cluster = o.cluster /\ CallBegins'.cache = o.cache
    BY Zenon DEF CallBegins, Standing
  <1>3. Good(o, made', adds') /\ Along(o)
    BY Zenon DEF Kept
  <1>4. Good(CallBegins, made, adds)'
    <2>1. (CallBegins.cluster \in Clusters(made, adds))'
      BY <1>1, <1>2, <1>3, Zenon DEF Good, Clusters, Heads, Payloads
    <2>2. (CallBegins.cache \in Copies(made, adds))'
      BY <1>1, <1>2, <1>3, Zenon DEF Good, Copies, Heads, Payloads
    <2>3. Sound(CallBegins.cluster, CallBegins.cache)'
      BY <1>1, <1>2, <1>3, Zenon DEF Good, Sound, Given, Agree
    <2> QED BY <2>1, <2>2, <2>3, Zenon DEF Good
  <1>5. (~torn => Owned(cluster, cache))'
    BY <1>1, Zenon DEF Owned
  <1>6. SecretInv'
    BY <1>1, <1>4, <1>5, Zenon DEF SecretInv
  <1>7. \A n \in Numbers : /\ Same(cluster.versions[n], cluster'.versions[n])
                           /\ Stays(cache.versions[n], cache'.versions[n])
    BY <1>3, Zenon DEF Along
  <1> QED BY <1>6, <1>7, Zenon DEF Onward

\* A call that leaves the clocks, the loop and the deployment alone.
LEMMA CallSteps ==
    ASSUME SecretInv, UNCHANGED <<scene, base, offset, sweeper, deploy, made, adds>>,
           NEW o, cluster' = o.cluster, cache' = o.cache,
           Kept(o, made, adds), ~torn' => Owned(o.cluster, o.cache)
    PROVE  Onward
  <1>1. /\ made' = made /\ adds' = adds /\ base' = base /\ offset' = offset
        /\ deploy' = deploy /\ sweeper' = sweeper /\ scene' = scene
    BY Zenon
  <1>2. /\ made \in Nat /\ made <= scene.made /\ adds \in Nat /\ base \in Nat /\ offset \in Nat
        /\ deploy.pc \in {"idle", "named", "read"}
        /\ deploy.pc # "idle" => deploy.n \in Numbers
        /\ deploy.pc = "read" => deploy.bytes \in 0..adds
        /\ sweeper.pc = "sweep" => sweeper = [pc |-> "sweep", at |-> 0]
    BY Zenon DEF SecretInv
  <1> QED BY <1>1, <1>2, Steps, Zenon

\* A step that leaves the cluster, memory and what they were brought alone.
LEMMA InertSteps ==
    ASSUME SecretInv, UNCHANGED <<scene, cluster, cache, made, adds, torn>>,
           base' \in Nat, offset' \in Nat,
           deploy'.pc \in {"idle", "named", "read"},
           deploy'.pc # "idle" => deploy'.n \in Numbers,
           deploy'.pc = "read" => deploy'.bytes \in 0..adds,
           sweeper'.pc = "sweep" => sweeper' = [pc |-> "sweep", at |-> 0]
    PROVE  Onward
  <1>1. /\ made' = made /\ adds' = adds /\ scene' = scene
        /\ cluster' = CallBegins.cluster /\ cache' = CallBegins.cache
        /\ Kept(CallBegins, made, adds)
    BY InvParts, Zenon
  <1>2. made \in Nat /\ made <= scene.made /\ adds \in Nat
    BY Zenon DEF SecretInv
  <1>3. ~torn' => Owned(CallBegins.cluster, CallBegins.cache)
    BY InvParts, Zenon DEF SecretInv
  <1> QED BY <1>1, <1>2, <1>3, Steps, Zenon

LEMMA CreateSteps ==
    ASSUME SecretInv, CreateSecret PROVE Onward
  <1>1. PICK h \in FreshHead,
             gone \in IF cache.head = NoSecret THEN {CallBegins} ELSE Deleting(CallBegins) :
          \E o \in Request(Standing(gone.cluster, gone.cache), PutHead(h)) :
             /\ CallEnds([o EXCEPT !.failed = @ + gone.failed])
             /\ torn' = (torn \/ gone.failed = 1)
    BY Zenon DEF CreateSecret
  <1>2. PICK o \in Request(Standing(gone.cluster, gone.cache), PutHead(h)) :
             /\ CallEnds([o EXCEPT !.failed = @ + gone.failed])
             /\ torn' = (torn \/ gone.failed = 1)
    BY <1>1, Zenon
  <1>3. /\ made < scene.made /\ made' = made + 1
        /\ UNCHANGED <<scene, base, offset, sweeper, deploy, adds>>
    BY Zenon DEF CreateSecret
  <1>4. /\ Kept(o, made + 1, adds)
        /\ Owned(cluster, cache) /\ gone.failed # 1 => Owned(o.cluster, o.cache)
    BY Creating, Zenon
  <1>5. cluster' = o.cluster /\ cache' = o.cache
    <2>1. PutHead(h).op # "none"
      BY Zenon DEF PutHead
    <2>2. \E c, m, f : o = [cluster |-> c, cache |-> m, failed |-> f]
      BY <2>1, Zenon DEF Request, Standing
    <2>3. PICK c, m, f : o = [cluster |-> c, cache |-> m, failed |-> f]
      BY <2>2, Zenon
    <2>4. /\ [o EXCEPT !.failed = @ + gone.failed].cluster = o.cluster
          /\ [o EXCEPT !.failed = @ + gone.failed].cache = o.cache
      BY <2>3, Zenon
    <2> QED BY <1>2, <2>4, Zenon DEF CallEnds
  <1>6. /\ made \in Nat /\ adds \in Nat /\ base \in Nat /\ offset \in Nat
        /\ deploy.pc \in {"idle", "named", "read"}
        /\ deploy.pc # "idle" => deploy.n \in Numbers
        /\ deploy.pc = "read" => deploy.bytes \in 0..adds
        /\ sweeper.pc = "sweep" => sweeper = [pc |-> "sweep", at |-> 0]
        /\ ~torn => Owned(cluster, cache) /\ scene \in Scenarios
    BY Zenon DEF SecretInv
  <1>7. made + 1 \in Nat /\ made + 1 <= scene.made
    BY <1>3, <1>6, SecretAssumption DEF SecretInv
  <1>8. ~torn' => Owned(o.cluster, o.cache)
    BY <1>2, <1>4, <1>6, Zenon
  <1>9. /\ adds' = adds /\ base' = base /\ offset' = offset /\ deploy' = deploy
        /\ sweeper' = sweeper /\ UNCHANGED <<scene>>
    BY <1>3, Zenon
  <1> QED BY <1>3, <1>4, <1>5, <1>6, <1>7, <1>8, <1>9, Steps, Zenon

LEMMA AddSteps ==
    ASSUME SecretInv, AddVersion PROVE Onward
  <1>1. PICK o \in Adding(cache.head.next, [made |-> cache.head.made, bytes |-> adds + 1,
                                           sched |-> 0, state |-> "ENABLED"]) : CallEnds(o)
    BY Zenon DEF AddVersion
  <1>2. /\ Live /\ cache.head.next \in Numbers
        /\ adds' = adds + 1 /\ made' = made /\ base' = base /\ offset' = offset
        /\ deploy' = deploy /\ sweeper' = sweeper /\ torn' = torn /\ UNCHANGED <<scene>>
    BY Zenon DEF AddVersion
  <1>3. /\ Kept(o, made, adds + 1)
        /\ Owned(cluster, cache) => Owned(o.cluster, o.cache)
    BY <1>2, AddingKeeps, Zenon
  <1>4. cluster' = o.cluster /\ cache' = o.cache
    BY <1>1, Zenon DEF CallEnds
  <1>5. /\ made \in Nat /\ adds + 1 \in Nat /\ base \in Nat /\ offset \in Nat
        /\ made <= scene.made
        /\ deploy.pc \in {"idle", "named", "read"}
        /\ deploy.pc # "idle" => deploy.n \in Numbers
        /\ deploy.pc = "read" => deploy.bytes \in 0..adds + 1
        /\ sweeper.pc = "sweep" => sweeper = [pc |-> "sweep", at |-> 0]
        /\ ~torn => Owned(cluster, cache)
    BY DEF SecretInv
  <1>6. ~torn' => Owned(o.cluster, o.cache)
    BY <1>2, <1>3, <1>5, Zenon
  <1> QED BY <1>2, <1>3, <1>4, <1>5, <1>6, Steps, Zenon

LEMMA UpdateSteps ==
    ASSUME SecretInv, UpdateSecret PROVE Onward
  <1>1. PICK u \in ({"expire"} \X scene.expiries) \cup ({"rotation"} \X scene.rotations)
                   \cup ({"ttl"} \X scene.ttls) \cup {<<"labels", 0>>} :
             \E o \in Request(CallBegins, PutHead(Updated(u[1], u[2]))) : CallEnds(o)
    BY Zenon DEF UpdateSecret
  <1>2. PICK o \in Request(CallBegins, PutHead(Updated(u[1], u[2]))) : CallEnds(o)
    BY <1>1, Zenon
  <1>3. Live /\ UNCHANGED <<scene, base, offset, sweeper, deploy, made, adds>> /\ torn' = torn
    BY Zenon DEF UpdateSecret
  <1>4. Kept(o, made, adds) /\ (Owned(cluster, cache) => Owned(o.cluster, o.cache))
    BY <1>3, Updating, Zenon
  <1>5. ~torn => Owned(cluster, cache)
    BY Zenon DEF SecretInv
  <1>6. cluster' = o.cluster /\ cache' = o.cache
    BY <1>2, Zenon DEF CallEnds
  <1> QED BY <1>3, <1>4, <1>5, <1>6, CallSteps, Zenon

LEMMA DeleteSteps ==
    ASSUME SecretInv, DeleteSecret PROVE Onward
  <1>1. PICK o \in Deleting(CallBegins) : CallEnds(o) /\ torn' = (torn \/ o.failed = 1)
    BY Zenon DEF DeleteSecret
  <1>2. UNCHANGED <<scene, base, offset, sweeper, deploy, made, adds>>
    BY Zenon DEF DeleteSecret
  <1>3. Kept(o, made, adds) /\ (o.failed # 1 => Owned(o.cluster, o.cache))
    BY AlongDeleting, Zenon
  <1>4. cluster' = o.cluster /\ cache' = o.cache
    BY <1>1, Zenon DEF CallEnds
  <1>5. ~torn' => Owned(o.cluster, o.cache)
    BY <1>1, <1>3, Zenon
  <1> QED BY <1>2, <1>3, <1>4, <1>5, CallSteps, Zenon

LEMMA ResetSteps ==
    ASSUME SecretInv, ResetSecrets PROVE Onward
  <1>1. UNCHANGED <<scene, base, offset, sweeper, deploy, made, adds>>
    BY Zenon DEF ResetSecrets
  <1>2. /\ Standing(cluster', cache').cluster = cluster'
        /\ Standing(cluster', cache').cache = cache'
    BY Zenon DEF Standing
  <1>3. Kept(Standing(cluster', cache'), made, adds) /\ (~torn' => Owned(cluster', cache'))
    BY ResetKeeps, Zenon
  <1> QED BY <1>1, <1>2, <1>3, CallSteps, Zenon

LEMMA StateSteps ==
    ASSUME SecretInv, SetVersionState PROVE Onward
  <1>1. PICK n \in Numbers, state \in {"ENABLED", "DISABLED"} :
             MaySetState(cache.versions[n]) /\ \E o \in Setting(n, state) : CallEnds(o)
    BY Zenon DEF SetVersionState
  <1>2. PICK o \in Setting(n, state) : CallEnds(o)
    BY <1>1, Zenon
  <1>3. Live /\ UNCHANGED <<scene, base, offset, sweeper, deploy, made, adds>> /\ torn' = torn
    BY Zenon DEF SetVersionState
  <1>4. Kept(o, made, adds) /\ (Owned(cluster, cache) => Owned(o.cluster, o.cache))
    BY <1>1, <1>3, SettingKeeps, Zenon
  <1>5. ~torn => Owned(cluster, cache)
    BY Zenon DEF SecretInv
  <1>6. cluster' = o.cluster /\ cache' = o.cache
    BY <1>2, Zenon DEF CallEnds
  <1> QED BY <1>3, <1>4, <1>5, <1>6, CallSteps, Zenon

LEMMA DestroySteps ==
    ASSUME SecretInv, DestroyVersion PROVE Onward
  <1>1. PICK n \in Numbers :
             /\ cache.versions[n] # NoVersion /\ cache.versions[n].state # "DESTROYED"
             /\ \E o \in IF cache.head.ttl > 0 THEN Scheduling(n, Now + cache.head.ttl)
                         ELSE Destroying(CallBegins, n) : CallEnds(o)
    BY Zenon DEF DestroyVersion
  <1>2. PICK o \in IF cache.head.ttl > 0 THEN Scheduling(n, Now + cache.head.ttl)
                   ELSE Destroying(CallBegins, n) : CallEnds(o)
    BY <1>1, Zenon
  <1>3. Live /\ UNCHANGED <<scene, base, offset, sweeper, deploy, made, adds>> /\ torn' = torn
    BY Zenon DEF DestroyVersion
  <1>4. Kept(o, made, adds) /\ (Owned(cluster, cache) => Owned(o.cluster, o.cache))
    <2>1. CASE o \in Scheduling(n, Now + cache.head.ttl)
      <3>1. cache.head \in Heads(made) /\ cache.head # NoSecret
        BY <1>3, InvParts, Zenon DEF Copies, Live
      <3>2. cache.head.ttl \in scene.ttls
        BY <3>1, Zenon DEF Heads
      <3>3. cache.head.ttl \in Nat /\ Now \in Nat
        BY <3>2, SecretAssumption DEF SecretInv, Now
      <3>4. Now + cache.head.ttl \in Nat
        BY <3>3
      <3> QED BY <1>1, <1>3, <2>1, <3>4, SchedulingKeeps, Zenon
    <2>2. CASE o \in Destroying(CallBegins, n)
      <3>1. /\ Kept(CallBegins, made, adds) /\ CallBegins.cluster = cluster
            /\ CallBegins.cache = cache
        BY InvParts, Zenon
      <3> QED BY <1>1, <2>2, <3>1, DestroyingKeeps, Zenon
    <2> QED BY <1>2, <2>1, <2>2, Zenon
  <1>5. ~torn => Owned(cluster, cache)
    BY Zenon DEF SecretInv
  <1>6. cluster' = o.cluster /\ cache' = o.cache
    BY <1>2, Zenon DEF CallEnds
  <1> QED BY <1>3, <1>4, <1>5, <1>6, CallSteps, Zenon

LEMMA SweepSteps ==
    ASSUME SecretInv, Sweep
    PROVE  /\ Onward
           /\ \A n \in Numbers : cache.versions[n] # NoVersion /\ cache.versions[n].sched = 0 =>
                 cache'.versions[n] = cache.versions[n] \/ cache'.versions[n] = NoVersion
  <1>1. PICK o \in Sweeping :
             /\ SweepEnds(o)
             /\ sweeper' = IF o.failed = 1 THEN [pc |-> "retry", at |-> 0]
                           ELSE LET next == Upcoming(o.cache.head) IN
                                [pc |-> "sleep", at |-> IF next = 0 THEN 0 ELSE next - offset]
    BY Zenon DEF Sweep
  <1>2. /\ made' = made /\ adds' = adds /\ base' = base /\ offset' = offset
        /\ deploy' = deploy /\ UNCHANGED <<scene>>
    BY Zenon DEF Sweep
  <1>3. /\ cluster' = o.cluster /\ cache' = o.cache
        /\ torn' = (torn \/ (o.failed = 1 /\ cache.head # NoSecret /\ Expired(cache.head)))
    BY <1>1, Zenon DEF SweepEnds, CallEnds
  <1>4. /\ Kept(o, made, adds)
        /\ Owned(cluster, cache)
              /\ ~(o.failed = 1 /\ cache.head # NoSecret /\ Expired(cache.head)) =>
              Owned(o.cluster, o.cache)
        /\ \A n \in Numbers : cache.versions[n] # NoVersion /\ cache.versions[n].sched = 0 =>
              o.cache.versions[n] = cache.versions[n] \/ o.cache.versions[n] = NoVersion
    BY SweepingKeeps, Zenon
  <1>5. sweeper'.pc # "sweep"
    BY <1>1, Zenon
  <1>6. /\ made \in Nat /\ adds \in Nat /\ base \in Nat /\ offset \in Nat
        /\ made <= scene.made
        /\ deploy.pc \in {"idle", "named", "read"}
        /\ deploy.pc # "idle" => deploy.n \in Numbers
        /\ deploy.pc = "read" => deploy.bytes \in 0..adds
        /\ ~torn => Owned(cluster, cache)
    BY Zenon DEF SecretInv
  <1>7. ~torn' => Owned(o.cluster, o.cache)
    BY <1>3, <1>4, <1>6, Zenon
  <1>8. Onward
    BY <1>2, <1>3, <1>4, <1>5, <1>6, <1>7, Steps, Zenon
  <1> QED BY <1>3, <1>4, <1>8, Zenon

LEMMA AdvanceSteps ==
    ASSUME SecretInv, AdvanceSweeps PROVE Onward
  <1>1. PICK o \in Sweeping : SweepEnds(o)
    BY Zenon DEF AdvanceSweeps
  <1>2. UNCHANGED <<scene, base, offset, sweeper, deploy, made, adds>>
    BY Zenon DEF AdvanceSweeps
  <1>3. /\ cluster' = o.cluster /\ cache' = o.cache
        /\ torn' = (torn \/ (o.failed = 1 /\ cache.head # NoSecret /\ Expired(cache.head)))
    BY <1>1, Zenon DEF SweepEnds, CallEnds
  <1>4. /\ Kept(o, made, adds)
        /\ Owned(cluster, cache)
              /\ ~(o.failed = 1 /\ cache.head # NoSecret /\ Expired(cache.head)) =>
              Owned(o.cluster, o.cache)
    BY SweepingKeeps, Zenon
  <1>5. ~torn => Owned(cluster, cache)
    BY Zenon DEF SecretInv
  <1>6. ~torn' => Owned(o.cluster, o.cache)
    BY <1>3, <1>4, <1>5, Zenon
  <1> QED BY <1>2, <1>3, <1>4, <1>6, CallSteps, Zenon

LEMMA RefreshSteps ==
    ASSUME SecretInv, RefreshMounts PROVE Onward
  <1>1. PICK o \in {RefreshedBefore(scene.versions + 1)} \cup
               {x \in UNION {Request(RefreshedBefore(n), SetMount(n, Refreshed(n))) :
                             n \in {i \in Numbers : Refreshed(i) # cluster.mount[i]}} :
                x.failed = 1} : CallEnds(o)
    BY Zenon DEF RefreshMounts
  <1>2. UNCHANGED <<scene, base, offset, sweeper, deploy, made, adds>> /\ torn' = torn
    BY Zenon DEF RefreshMounts
  <1>3. Kept(o, made, adds) /\ (Owned(cluster, cache) => Owned(o.cluster, o.cache))
    BY RefreshingKeeps, Zenon
  <1>4. ~torn => Owned(cluster, cache)
    BY Zenon DEF SecretInv
  <1>5. cluster' = o.cluster /\ cache' = o.cache
    BY <1>1, Zenon DEF CallEnds
  <1> QED BY <1>2, <1>3, <1>4, <1>5, CallSteps, Zenon

LEMMA MountSteps ==
    ASSUME SecretInv, MountRef PROVE Onward
  <1>1. PICK o \in Request(CallBegins, IF keyOK THEN SetMount(deploy.n, deploy.bytes)
                                      ELSE NoRequest) : CallEnds(o)
    BY Zenon DEF MountRef
  <1>2. /\ made' = made /\ adds' = adds /\ base' = base /\ offset' = offset
        /\ sweeper' = sweeper /\ torn' = torn /\ UNCHANGED <<scene>>
        /\ deploy.pc = "read" /\ deploy' = Idle
    BY Zenon DEF MountRef
  <1>3. Kept(o, made, adds) /\ (Owned(cluster, cache) => Owned(o.cluster, o.cache))
    BY <1>2, MountingKeeps, Zenon
  <1>4. cluster' = o.cluster /\ cache' = o.cache
    BY <1>1, Zenon DEF CallEnds
  <1>5. deploy'.pc = "idle"
    BY <1>2, Zenon DEF Idle
  <1>6. /\ made \in Nat /\ adds \in Nat /\ base \in Nat /\ offset \in Nat
        /\ made <= scene.made
        /\ sweeper.pc = "sweep" => sweeper = [pc |-> "sweep", at |-> 0]
        /\ ~torn => Owned(cluster, cache)
    BY Zenon DEF SecretInv
  <1>7. ~torn' => Owned(o.cluster, o.cache)
    BY <1>2, <1>3, <1>6, Zenon
  <1> QED BY <1>2, <1>3, <1>4, <1>5, <1>6, <1>7, Steps, Zenon

LEMMA RestartSteps ==
    ASSUME SecretInv, RestartStore PROVE Onward /\ (sweeper.pc = "sweep" => sweeper' = sweeper)
  <1> DEFINE o == Standing(cluster, Loaded(cluster))
  <1>1. /\ made' = made /\ adds' = adds /\ base' = base /\ offset' = 0 /\ torn' = torn
        /\ UNCHANGED <<scene>> /\ cluster' = cluster /\ cache' = Loaded(cluster)
        /\ deploy' = Idle /\ sweeper' = [pc |-> "sweep", at |-> 0]
    BY Zenon DEF RestartStore
  <1>2. cluster \in Clusters(made, adds)
    BY InvParts, Zenon
  <1>3. Kept(o, made, adds)
    BY <1>2, Reloaded, Zenon
  <1>4. o.cluster = cluster /\ o.cache = Loaded(cluster)
    BY Zenon DEF Standing
  <1>5. ~torn => Owned(cluster, Loaded(cluster))
    BY RestartOwned, Zenon DEF SecretInv
  <1>6. /\ made \in Nat /\ adds \in Nat /\ base \in Nat /\ made <= scene.made
        /\ sweeper.pc = "sweep" => sweeper = [pc |-> "sweep", at |-> 0]
    BY Zenon DEF SecretInv
  <1>7. deploy'.pc = "idle"
    BY <1>1, Zenon DEF Idle
  <1> HIDE DEF o
  <1>8. Onward
    BY <1>1, <1>3, <1>4, <1>5, <1>6, <1>7, Steps, Zenon
  <1> QED BY <1>1, <1>6, <1>8, Zenon

\* The steps that write nothing.
LEMMA OtherSteps ==
    ASSUME SecretInv, \/ RunWakes \/ Advance \/ ResolveRef \/ ReadRef \/ KmsChanges \/ BaseTick
                      \/ UNCHANGED secretVars
    PROVE  Onward
  <1>1. /\ base \in Nat /\ offset \in Nat /\ adds \in Nat
        /\ deploy.pc \in {"idle", "named", "read"}
        /\ deploy.pc # "idle" => deploy.n \in Numbers
        /\ deploy.pc = "read" => deploy.bytes \in 0..adds
        /\ sweeper.pc = "sweep" => sweeper = [pc |-> "sweep", at |-> 0]
    BY Zenon DEF SecretInv
  <1>2. UNCHANGED <<scene, cluster, cache, made, adds, torn>>
    BY Zenon DEF RunWakes, Advance, ResolveRef, ReadRef, KmsChanges, BaseTick, secretVars
  <1>3. base' \in Nat /\ offset' \in Nat
    <2>1. CASE Advance
      <3>1. scene.offset \in Nat
        BY SecretAssumption, Zenon DEF SecretInv
      <3> QED BY <1>1, <2>1, <3>1 DEF Advance
    <2>2. CASE BaseTick
      BY <1>1, <2>2 DEF BaseTick
    <2>3. CASE ~Advance /\ ~BaseTick
      BY <1>1, <2>3, Zenon DEF RunWakes, ResolveRef, ReadRef, KmsChanges, secretVars
    <2> QED BY <2>1, <2>2, <2>3, Zenon
  <1>4. sweeper'.pc = "sweep" => sweeper' = [pc |-> "sweep", at |-> 0]
    BY <1>1, Zenon DEF RunWakes, Advance, ResolveRef, ReadRef, KmsChanges, BaseTick, secretVars
  <1>5. /\ deploy'.pc \in {"idle", "named", "read"}
        /\ deploy'.pc # "idle" => deploy'.n \in Numbers
        /\ deploy'.pc = "read" => deploy'.bytes \in 0..adds
    <2>1. CASE ResolveRef
      <3>1. PICK n \in Numbers : deploy' = [pc |-> "named", n |-> n]
        BY <2>1, Zenon DEF ResolveRef
      <3> QED BY <3>1, Zenon
    <2>2. CASE ReadRef
      <3> DEFINE v == cache.versions[deploy.n]
      <3>1. deploy.n \in Numbers
        BY <1>1, <2>2, Zenon DEF ReadRef
      <3>2. v # NoVersion => v.bytes \in 0..adds
        BY <3>1, VersionTyped, Zenon
      <3>3. \/ deploy' = Idle
            \/ v # NoVersion /\ deploy' = [pc |-> "read", n |-> deploy.n, bytes |-> v.bytes]
        BY <2>2, Zenon DEF ReadRef
      <3> QED BY <3>1, <3>2, <3>3 DEF Idle
    <2>3. CASE ~ResolveRef /\ ~ReadRef
      <3>1. deploy' = deploy
        BY <2>3, Zenon DEF RunWakes, Advance, KmsChanges, BaseTick, secretVars
      <3> QED BY <1>1, <3>1, Zenon
    <2> QED BY <2>1, <2>2, <2>3, Zenon
  <1> QED BY <1>2, <1>3, <1>4, <1>5, InertSteps, Zenon

LEMMA SecretSteps ==
    ASSUME SecretInv, [SecretNext]_secretVars
    PROVE  /\ Onward
           /\ sweeper' # sweeper /\ sweeper.pc = "sweep" =>
                 \A n \in Numbers : cache.versions[n] # NoVersion /\ cache.versions[n].sched = 0 =>
                    cache'.versions[n] = cache.versions[n] \/ cache'.versions[n] = NoVersion
  <1>1. CASE CreateSecret
    BY <1>1, CreateSteps, Zenon DEF CreateSecret
  <1>2. CASE UpdateSecret
    BY <1>2, UpdateSteps, Zenon DEF UpdateSecret
  <1>3. CASE DeleteSecret
    BY <1>3, DeleteSteps, Zenon DEF DeleteSecret
  <1>4. CASE ResetSecrets
    BY <1>4, ResetSteps, Zenon DEF ResetSecrets
  <1>5. CASE AddVersion
    BY <1>5, AddSteps, Zenon DEF AddVersion
  <1>6. CASE SetVersionState
    BY <1>6, StateSteps, Zenon DEF SetVersionState
  <1>7. CASE DestroyVersion
    BY <1>7, DestroySteps, Zenon DEF DestroyVersion
  <1>8. CASE Sweep
    BY <1>8, SweepSteps, Zenon
  <1>9. CASE AdvanceSweeps
    <2>1. sweeper' = sweeper
      BY <1>9, Zenon DEF AdvanceSweeps
    <2> QED BY <1>9, <2>1, AdvanceSteps, Zenon
  <1>10. CASE RefreshMounts
    BY <1>10, RefreshSteps, Zenon DEF RefreshMounts
  <1>11. CASE MountRef
    BY <1>11, MountSteps, Zenon DEF MountRef
  <1>12. CASE RestartStore
    BY <1>12, RestartSteps, Zenon
  <1>13. CASE RunWakes
    <2>1. sweeper.pc # "sweep"
      BY <1>13, Zenon DEF RunWakes
    <2> QED BY <1>13, <2>1, OtherSteps, Zenon
  <1>14. CASE \/ Advance \/ ResolveRef \/ ReadRef \/ KmsChanges \/ BaseTick
              \/ UNCHANGED secretVars
    <2>1. sweeper' = sweeper
      BY <1>14, Zenon DEF Advance, ResolveRef, ReadRef, KmsChanges, BaseTick, secretVars
    <2> QED BY <1>14, <2>1, OtherSteps, Zenon
  <1> QED BY <1>1, <1>2, <1>3, <1>4, <1>5, <1>6, <1>7, <1>8, <1>9, <1>10, <1>11, <1>12,
             <1>13, <1>14, Zenon DEF SecretNext

LEMMA SecretStart ==
    ASSUME SecretInit PROVE SecretInv
  <1>1. /\ scene \in Scenarios /\ cluster = EmptyCluster /\ cache = Loaded(cluster)
        /\ base = 1 /\ offset = 0 /\ sweeper = [pc |-> "sweep", at |-> 0]
        /\ deploy = Idle /\ made = 0 /\ adds = 0
    BY Zenon DEF SecretInit
  <1>2. scene.made \in Nat
    BY <1>1, SecretAssumption, Zenon
  <1>3. /\ cluster.head = NoSecret /\ cluster.versions = Nothing /\ cache.head = NoSecret
        /\ cache.versions = Nothing
    BY <1>1, Zenon DEF EmptyCluster, Loaded
  <1>4. \A n \in Numbers : cluster.versions[n] = NoVersion /\ cache.versions[n] = NoVersion
    BY <1>3, Zenon DEF Nothing
  <1>5. Sound(cluster, cache)
    BY <1>4, Zenon DEF Sound, Given, Agree
  <1>6. Owned(cluster, cache)
    BY <1>3, <1>4, OwnNothing, Zenon
  <1>7. cluster \in Clusters(made, adds) /\ cache \in Copies(made, adds)
    <2>1. NoSecret \in Heads(made) /\ Nothing \in [Numbers -> Payloads(made, adds)]
      BY Zenon DEF Heads, Payloads, Nothing
    <2>2. Unmounted \in [Numbers -> {NoMount} \cup 0..adds]
      BY Zenon DEF Unmounted
    <2> QED BY <1>1, <2>1, <2>2, Zenon DEF EmptyCluster, Clusters, Copies, Loaded
  <1>8. Good(CallBegins, made, adds)
    BY <1>5, <1>7, Zenon DEF Good, CallBegins, Standing
  <1>9. deploy.pc = "idle"
    BY <1>1, Zenon DEF Idle
  <1> QED BY <1>1, <1>2, <1>6, <1>8, <1>9 DEF SecretInv

LEMMA SecretTyped ==
    ASSUME SecretInv PROVE SecretTypeOK
  <1>1. /\ cluster \in Clusters(made, adds) /\ cache \in Copies(made, adds)
        /\ made \in Nat /\ made <= scene.made /\ adds \in Nat /\ scene.made \in Nat
    BY InvParts, SecretAssumption, Zenon DEF SecretInv
  <1>2. \A h \in Heads(made) : h = NoSecret \/ h \in Secret
    BY <1>1 DEF Heads, Secret
  <1>3. \A v \in Payloads(made, adds) :
           \/ v = NoVersion
           \/ v \in Version /\ (v.state = "DESTROYED" => v.bytes = 0)
    BY <1>1 DEF Payloads, Version
  <1>4. \A s \in {Loaded(cluster), cache} :
           s.head \in Heads(made) /\ \A n \in Numbers : s.versions[n] \in Payloads(made, adds)
    BY <1>1 DEF Loaded, Clusters, Copies
  <1>5. cluster.mount \in [Numbers -> {NoMount} \cup 0..adds]
    BY <1>1, Zenon DEF Clusters
  <1> QED BY <1>2, <1>3, <1>4, <1>5, Zenon DEF SecretTypeOK

LEMMA SecretInvariant == SecretSpec => []SecretInv
  <1>1. SecretInit => SecretInv
    BY SecretStart, Zenon
  <1>2. SecretInv /\ [SecretNext]_secretVars => SecretInv'
    BY SecretSteps, Zenon DEF Onward
  <1> QED BY <1>1, <1>2, PTL DEF SecretSpec

\* The records of the cluster and of memory keep their types, and a destroyed
\* version has no payload in either, however requests fail.
THEOREM SecretsTyped == SecretSpec => []SecretTypeOK
  BY SecretInvariant, SecretTyped, PTL

\* OwnVersions: no version outlives its secret, for any number of versions,
\* secrets and failing requests.
THEOREM VersionsOwned == SecretSpec => []OwnVersions
  <1>1. SecretInv => OwnVersions
    BY DEF SecretInv, OwnVersions, Owned, Loaded
  <1> QED BY <1>1, SecretInvariant, PTL

\* NumbersNotReused: a version number never comes to name another payload, as
\* what the cluster has and memory's copy agree, and no version has a number
\* its secret has not given out.
THEOREM NumbersKept == SecretSpec => NumbersNotReused
  <1>1. SecretInv /\ [SecretNext]_secretVars =>
          [\A n \in Numbers :
             LET v == cluster.versions[n] w == cluster'.versions[n] IN
             (v # NoVersion /\ v.made = w.made /\ 0 \notin {v.bytes, w.bytes})
                => v.bytes = w.bytes]_secretVars
    BY SecretSteps, Zenon DEF Onward, Same
  <1> QED BY <1>1, SecretInvariant, PTL DEF SecretSpec, NumbersNotReused

\* DestroyedStays: a destroyed version of a secret stays destroyed, over
\* sweeps, failing calls, resets and restarts.
THEOREM DestructionLasts == SecretSpec => DestroyedStays
  <1>1. SecretInv /\ [SecretNext]_secretVars =>
          [\A n \in Numbers :
             LET v == cache.versions[n] w == cache'.versions[n] IN
             (v # NoVersion /\ v.made = w.made /\ v.state = "DESTROYED")
                => w.state = "DESTROYED"]_secretVars
    BY SecretSteps, Zenon DEF Onward, Stays
  <1> QED BY <1>1, SecretInvariant, PTL DEF SecretSpec, DestroyedStays

\* CancelledKept: a sweep leaves a version alone whose destruction was
\* cancelled, whatever the secret's list says.
THEOREM CancelledNotSwept == SecretSpec => CancelledKept
  <1>1. SecretInv /\ [SecretNext]_secretVars =>
          [sweeper' # sweeper /\ sweeper.pc = "sweep" =>
             \A n \in Numbers :
               (cache.versions[n] # NoVersion /\ cache.versions[n].sched = 0)
                  => cache'.versions[n] \in {cache.versions[n], NoVersion}]_secretVars
    BY SecretSteps, Zenon
  <1> QED BY <1>1, SecretInvariant, PTL DEF SecretSpec, CancelledKept
==============================================================================
