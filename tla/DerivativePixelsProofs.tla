------------------------- MODULE DerivativePixelsProofs -------------------------
(***************************************************************************)
(* That a derivative is offered as ready only with a file of its pixels,   *)
(* proved on top of the invariant of DerivativesProofs.                    *)
(***************************************************************************)
EXTENDS DerivativesProofs

-----------------------------------------------------------------------------
(* The inductive invariant.  A file that does not return to an identity it *)
(* had before has identities in order of time, so that an identity seen    *)
(* earlier is at most the present one.                                     *)

\* The source of asset a is gone, or has reached identity i or a later one.
Reached(a, i) == disk[a] = 0 \/ i <= disk[a]

\* The catalog has seen what the disk had, and a cache file holds pixels of its own
\* identity or of a later one that the source has had.
WorldPixels ==
  /\ \A a \in Assets : Reached(a, cat[a].ident)
  /\ \A p \in Key : file[p] # 0 => p[3] <= file[p] /\ Reached(p[1], file[p])

\* A row names only its own file, which has its pixels unless an eviction removed
\* it; what is ready, or will be when an eviction fails, has a file.
RowPixels(k) ==
  /\ row[k].path \in {0, k[3]}
  /\ row[k].path # 0 => k[3] <= cat[k[1]].ident
  /\ row[k].path # 0 /\ k \notin audit.misled \cup audit.torn \cup op.gone => file[k] = k[3]
  /\ row[k].st = "ready" /\ k \notin audit.misled => row[k].path # 0 /\ file[k] # 0
  /\ row[k].st = "ready" /\ k \in op.sel => k \in audit.misled
  /\ row[k].st = "evicted" /\ k \in op.sel \ op.gone /\ k \notin audit.misled => file[k] # 0

\* What an eviction has in hand belongs to its stage; files to discard are of
\* superseded identities, which nothing brings back; a clear leaves no rows.
HandPixels ==
  /\ op.sel \subseteq Key /\ op.gone \subseteq op.sel
  /\ op.stage # "unlinked" => op.gone = {}
  /\ op.stage \notin {"evicted", "unlinked"} => op.sel = {}
  /\ op.stage # "discard" => op.drop = {}
  /\ \A p \in Key : p \in op.drop => p[3] < cat[p[1]].ident /\ row[p].path = 0 /\ ~ActiveJob(job[p])
  /\ op.kind = "clear" => op.stage = "want" /\ \A k \in Key : row[k] = NoRow /\ job[k] = NoJob

\* A superseded derivative that neither a row nor a job will offer again.
Outdated(p) == p[3] < cat[p[1]].ident /\ row[p].path = 0 /\ ~ActiveJob(job[p])

\* A caller that will coalesce has derivatives to coalesce.
KeysPixels ==
  /\ \E S : op.keys \in Seq(S)
  /\ \/ op.kind = "schedule"
     \/ op.kind # "enforce" /\ op.stage \in {"reserve", "evicted", "unlinked", "retry"}
     => op.keys # <<>>

\* Only files of such derivatives have their unlink put off, and no caller is about to
\* schedule them or those it discards.
PutOffPixels ==
  /\ KeysPixels
  /\ \A p \in Key : p \in deferred => Outdated(p)
  /\ \A p \in Key : p \in deferred \cup op.drop => p \notin ToSet(op.keys)

OpPixels == HandPixels /\ PutOffPixels

Stated == {"stated", "pathed", "keyed", "rendered", "valid", "handled"}
Keyed == {"keyed", "rendered", "valid", "handled"}

\* A worker's claims are of one asset and identity, and the identities it sees on its
\* way, for the claim, the path, the key and the pixels, come in order.
InOrder(r) ==
  /\ \A c, d \in Has(r) : c.key[1] = d.key[1] /\ c.key[3] = d.key[3]
  /\ r.pc \in {"claimed", "checked", "stated", "pathed"} => r.img = 0
  /\ \A c \in Has(r) :
       /\ c.key[3] <= cat[c.key[1]].ident
       /\ r.pc \in Stated => c.key[3] <= r.pid /\ Reached(c.key[1], r.pid)
       /\ r.pc \in Keyed => r.pid <= r.kid /\ Reached(c.key[1], r.kid)
       /\ r.pc \in Keyed /\ r.img # 0 => r.kid <= r.img /\ Reached(c.key[1], r.img)

\* What it produced is there while it owns the job; once it found the source
\* unchanged, all those identities are the claim's.
Produced(r) ==
  \A c \in ToSet(r.cur) :
    /\ r.pc \in {"rendered", "valid"} /\ r.exc = "none" /\ Owns(c) /\ r.kid = c.key[3] => file[c.key] # 0
    /\ r.pc = "valid" => r.pid = c.key[3] /\ (Owns(c) => file[c.key] = c.key[3])

PixelInv ==
  /\ WorldPixels /\ OpPixels
  /\ \A k \in Key : RowPixels(k)
  /\ \A w \in Workers : InOrder(worker[w]) /\ Produced(worker[w])

-----------------------------------------------------------------------------
(* What a step may do.                                                     *)

\* Identities go up.
Later ==
  /\ \A a \in Assets : disk'[a] = 0 \/ (disk[a] # 0 /\ disk[a] <= disk'[a])
  /\ \A a \in Assets : cat[a].ident <= cat'[a].ident /\ Reached(a, cat[a].ident)'

\* A file stays, is made from a source that is new enough, or goes, while no job runs
\* for it and no row that counts offers it.
FileStep(p) ==
  \/ file'[p] = file[p]
  \/ file[p] = 0 /\ p[3] <= file'[p] /\ Reached(p[1], file[p])'
  \/ /\ file'[p] = 0 /\ job'[p].st # "running"
     /\ row'[p].path = 0 \/ p \in op'.gone
     /\ row'[p].st = "ready" => p \in audit'.misled

\* A row stays, loses its file, is withdrawn, is offered again with a file that is
\* there, or is made ready with one that has its pixels.
OfferedAgain(k) ==
  /\ row'[k].st = "ready" /\ row'[k].path = row[k].path
  /\ k \in audit'.misled \/ (row[k].path # 0 /\ file[k] # 0 /\ k \notin op'.sel)
OfferedNew(k) ==
  /\ row'[k].st = "ready" /\ row'[k].path = k[3]
  /\ file[k] = k[3] /\ k[3] <= cat[k[1]].ident /\ k \notin op'.sel
PixelRowStep(k) ==
  \/ row'[k] = row[k]
  \/ row'[k].path = 0 /\ row'[k].st # "ready"
  \/ row[k].st = "ready" /\ row'[k].st = "evicted" /\ row'[k].path = row[k].path
  \/ OfferedAgain(k)
  \/ OfferedNew(k)

\* An unlinked file is not forgotten while its row names it, and only ready rows are
\* selected.
EvictStep(k) ==
  /\ k \in op.gone => k \in op'.gone \cup audit'.torn \cup audit'.misled \/ row'[k].path = 0
  /\ k \in op'.sel => k \in op.sel \/ (row[k].st = "ready" /\ row'[k].st = "evicted")
  /\ k \in op'.sel /\ k \in op.gone => k \in op'.gone

\* A job runs on, or is claimed with a token nobody holds.
RunStep(k) ==
  job'[k].st = "running" =>
    (job[k].st = "running" /\ job'[k].token = job[k].token) \/ job'[k].token > claims[k]

KeyPixels(k) == FileStep(k) /\ PixelRowStep(k) /\ EvictStep(k) /\ RunStep(k)

\* The history grows.
MoreHistory == audit.misled \subseteq audit'.misled /\ audit.torn \subseteq audit'.torn

\* A step of the kind that keeps the invariant.
PixelStep ==
  /\ Later /\ MoreHistory
  /\ \A k \in Key : KeyPixels(k)

-----------------------------------------------------------------------------
(* Such steps keep the invariant.                                          *)

\* Identities are numbers.
LEMMA KeyFacts ==
  ASSUME NEW k \in Key
  PROVE  /\ k = <<k[1], k[2], k[3]>> /\ k[1] \in Assets /\ k[2] \in Variant
         /\ k[3] \in 1..MaxIdent /\ k[3] \in Nat /\ k[3] # 0 /\ PathOf(k, k[3]) = k
BY DEF Key, Ident, PathOf

\* What was reached stays so.
LEMMA StaysReached ==
  ASSUME World, World', Later, NEW a \in Assets, NEW i \in Nat, Reached(a, i)
  PROVE  Reached(a, i)'
<1>1. disk[a] \in Nat /\ disk'[a] \in Nat
  BY DerivativeAssumption DEF World
<1>2. disk'[a] = 0 \/ (disk[a] # 0 /\ disk[a] <= disk'[a])
  BY DEF Later
<1> QED
  BY <1>1, <1>2 DEF Reached

\* A row keeps its file, or is no longer offered.
LEMMA RowPixelsKept ==
  ASSUME DerivInv, DerivInv', NEW k \in Key, RowPixels(k), Later, MoreHistory, KeyPixels(k)
  PROVE  RowPixels(k)'
<1>1. k[3] \in Nat /\ k[3] # 0 /\ k[1] \in Assets
  BY KeyFacts
<1>2. cat[k[1]].ident \in Nat /\ cat'[k[1]].ident \in Nat /\ cat[k[1]].ident <= cat'[k[1]].ident
  BY <1>1 DEF DerivInv, World, Later, Ident
<1>3. k \in op'.sel /\ row'[k].st = "evicted" => row'[k].path # 0
  BY DEF DerivInv, OpOK
<1>4. (k \in audit.misled => k \in audit'.misled) /\ (k \in audit.torn => k \in audit'.torn)
  BY DEF MoreHistory
<1>5. /\ FileStep(k) /\ PixelRowStep(k)
      /\ k \in op.gone => k \in op'.gone \cup audit'.torn \cup audit'.misled \/ row'[k].path = 0
      /\ k \in op'.sel => k \in op.sel \/ (row[k].st = "ready" /\ row'[k].st = "evicted")
      /\ k \in op'.sel /\ k \in op.gone => k \in op'.gone
  BY DEF KeyPixels, EvictStep
<1>6. row'[k].path \in {0, k[3]}
  BY <1>5 DEF PixelRowStep, OfferedAgain, OfferedNew, RowPixels
<1>7. row'[k].path # 0 => k[3] <= cat'[k[1]].ident
  BY <1>1, <1>2, <1>5 DEF PixelRowStep, OfferedAgain, OfferedNew, RowPixels
<1>8. ASSUME row'[k].path # 0, k \notin audit'.misled \cup audit'.torn \cup op'.gone
      PROVE  file'[k] = k[3]
  <2>1. file[k] = k[3]
    BY <1>4, <1>5, <1>8 DEF PixelRowStep, OfferedAgain, OfferedNew, RowPixels
  <2>2. file'[k] = file[k]
    BY <1>1, <1>5, <1>8, <2>1 DEF FileStep
  <2> QED
    BY <2>1, <2>2
<1>9. ASSUME row'[k].st = "ready", k \notin audit'.misled
      PROVE  row'[k].path # 0 /\ file'[k] # 0
  <2>1. row'[k].path # 0 /\ file[k] # 0
    BY <1>1, <1>4, <1>5, <1>9 DEF PixelRowStep, OfferedAgain, OfferedNew, RowPixels
  <2> QED
    BY <1>5, <1>9, <2>1 DEF FileStep
<1>10. ASSUME row'[k].st = "ready", k \in op'.sel
       PROVE  k \in audit'.misled
  BY <1>4, <1>5, <1>10 DEF PixelRowStep, OfferedAgain, OfferedNew, RowPixels
<1>11. ASSUME row'[k].st = "evicted", k \in op'.sel \ op'.gone, k \notin audit'.misled
       PROVE  file'[k] # 0
  <2>1. file[k] # 0
    BY <1>3, <1>4, <1>5, <1>11 DEF PixelRowStep, OfferedAgain, OfferedNew, RowPixels
  <2>2. row'[k].path # 0
    BY <1>3, <1>11
  <2> QED
    BY <1>5, <1>11, <2>1, <2>2 DEF FileStep
<1> QED
  BY <1>6, <1>7, <1>8, <1>9, <1>10, <1>11 DEF RowPixels

\* So do the files and the catalog.
LEMMA WorldPixelsKept ==
  ASSUME DerivInv, DerivInv', WorldPixels, PixelStep
  PROVE  WorldPixels'
<1>1. World /\ World' /\ Later /\ \A p \in Key : FileStep(p)
  BY DEF DerivInv, PixelStep, KeyPixels
<1>2. \A a \in Assets : Reached(a, cat[a].ident)'
  BY <1>1 DEF Later
<1>3. ASSUME NEW p \in Key, file'[p] # 0 PROVE p[3] <= file'[p] /\ Reached(p[1], file[p])'
  <2>1. CASE file'[p] = file[p]
    <3>1. p[3] <= file[p] /\ Reached(p[1], file[p])
      BY <1>3, <2>1 DEF WorldPixels
    <3>2. file[p] \in Nat /\ p[1] \in Assets
      BY <1>1, KeyFacts, DerivativeAssumption DEF World
    <3>3. PICK i \in Nat : i = file[p]
      BY <3>2
    <3>4. Reached(p[1], i)'
      BY <1>1, <3>1, <3>2, <3>3, StaysReached
    <3> QED
      BY <2>1, <3>1, <3>3, <3>4 DEF Reached
  <2>2. CASE file'[p] # file[p]
    BY <1>1, <1>3, <2>2 DEF FileStep
  <2> QED
    BY <2>1, <2>2
<1> QED
  BY <1>2, <1>3 DEF WorldPixels, PixelStep

\* Workers hold claims of derivatives, which are finitely many numbers.
LEMMA ClaimFacts ==
  ASSUME DerivInv, NEW w \in Workers, NEW c \in Has(worker[w])
  PROVE  /\ c \in Claim /\ c.key \in Key /\ c.key[1] \in Assets /\ c.key[3] \in Nat /\ c.key[3] # 0
         /\ worker[w].pid \in Nat /\ worker[w].kid \in Nat /\ worker[w].img \in Nat
         /\ disk[c.key[1]] \in Nat /\ cat[c.key[1]].ident \in Nat
<1>1. worker[w] \in WorkerRec /\ World
  BY DEF DerivInv, Crew
<1>2. c \in Claim
  BY <1>1, HasClaims
<1>3. c.key \in Key
  BY <1>2 DEF Claim
<1>4. c.key[1] \in Assets /\ c.key[3] \in Nat /\ c.key[3] # 0
  BY <1>3, KeyFacts
<1> QED
  BY <1>1, <1>2, <1>3, <1>4, DerivativeAssumption DEF WorkerRec, World, Ident

\* Who owns a job after the step owned it before.
LEMMA OwnedBefore ==
  ASSUME DerivInv, NEW w \in Workers, NEW c \in Has(worker[w]), RunStep(c.key), Owns(c)'
  PROVE  Owns(c)
<1>1. c.token \in 1..claims[c.key] /\ claims[c.key] \in Nat
  <2>1. c.key \in Key
    BY ClaimFacts
  <2> QED
    BY <2>1, DerivativeAssumption, BudgetAssumption DEF DerivInv, Crew, Drawn, Rows
<1>2. job'[c.key].st = "running" /\ job'[c.key].token = c.token
  BY DEF Owns
<1>3. ~(c.token > claims[c.key])
  BY <1>1
<1> QED
  BY <1>2, <1>3 DEF RunStep, Owns

\* A worker goes on in order: what it does not see anew stays as it was.
LEMMA OrderKept ==
  ASSUME DerivInv, DerivInv', Later, NEW w \in Workers, InOrder(worker[w]),
         NEW s, s = worker'[w], Has(s) \subseteq Has(worker[w]),
         s.pc \in {"claimed", "checked", "stated", "pathed"} => s.img = 0,
         s.pc \in Stated => \/ worker[w].pc \in Stated /\ s.pid = worker[w].pid
                            \/ \A c \in Has(s) : c.key[3] <= s.pid /\ Reached(c.key[1], s.pid),
         s.pc \in Keyed => \/ worker[w].pc \in Keyed /\ s.pid = worker[w].pid /\ s.kid = worker[w].kid
                           \/ \A c \in Has(s) : s.pid <= s.kid /\ Reached(c.key[1], s.kid),
         s.pc \in Keyed /\ s.img # 0 =>
           \/ worker[w].pc \in Keyed /\ s.kid = worker[w].kid /\ s.img = worker[w].img
           \/ \A c \in Has(s) : s.kid <= s.img /\ Reached(c.key[1], s.img)
  PROVE  InOrder(worker[w])'
<1>1. World /\ World' /\ worker'[w] \in WorkerRec
  BY DEF DerivInv, Crew
<1>2. s.pid \in Nat /\ s.kid \in Nat /\ s.img \in Nat
  BY <1>1, DerivativeAssumption DEF WorkerRec
<1>3. \A c, d \in Has(s) : c.key[1] = d.key[1] /\ c.key[3] = d.key[3]
  BY DEF InOrder
<1>4. ASSUME NEW c \in Has(s)
      PROVE  /\ c.key[3] <= cat'[c.key[1]].ident
             /\ s.pc \in Stated => c.key[3] <= s.pid /\ Reached(c.key[1], s.pid)'
             /\ s.pc \in Keyed => s.pid <= s.kid /\ Reached(c.key[1], s.kid)'
             /\ s.pc \in Keyed /\ s.img # 0 => s.kid <= s.img /\ Reached(c.key[1], s.img)'
  <2>1. /\ c.key[1] \in Assets /\ c.key[3] \in Nat /\ cat[c.key[1]].ident \in Nat
    BY <1>4, ClaimFacts
  <2>2. cat[c.key[1]].ident <= cat'[c.key[1]].ident /\ cat'[c.key[1]].ident \in Nat
    BY <1>1, <2>1 DEF Later, World, Ident
  <2>3. c.key[3] <= cat[c.key[1]].ident
    BY <1>4 DEF InOrder
  <2>4. \A i \in Nat : Reached(c.key[1], i) => Reached(c.key[1], i)'
    BY <1>1, <2>1, StaysReached
  <2>5. c.key[3] <= cat'[c.key[1]].ident
    BY <2>1, <2>2, <2>3
  <2>6. s.pc \in Stated => c.key[3] <= s.pid /\ Reached(c.key[1], s.pid)'
    <3>1. s.pc \in Stated => c.key[3] <= s.pid /\ Reached(c.key[1], s.pid)
      BY <1>4 DEF InOrder
    <3> QED
      BY <1>2, <2>4, <3>1
  <2>7. s.pc \in Keyed => s.pid <= s.kid /\ Reached(c.key[1], s.kid)'
    <3>1. s.pc \in Keyed => s.pid <= s.kid /\ Reached(c.key[1], s.kid)
      BY <1>4 DEF InOrder
    <3> QED
      BY <1>2, <2>4, <3>1
  <2>8. s.pc \in Keyed /\ s.img # 0 => s.kid <= s.img /\ Reached(c.key[1], s.img)'
    <3>1. s.pc \in Keyed /\ s.img # 0 => s.kid <= s.img /\ Reached(c.key[1], s.img)
      BY <1>4 DEF InOrder
    <3> QED
      BY <1>2, <2>4, <3>1
  <2> QED
    BY <2>5, <2>6, <2>7, <2>8
<1> QED
  BY <1>3, <1>4 DEF InOrder, Reached

\* A worker that stays where it is.
LEMMA WorkerRests ==
  ASSUME DerivInv, DerivInv', Later, NEW w \in Workers, InOrder(worker[w]), Produced(worker[w]),
         worker'[w] = worker[w], \A k \in Key : KeyPixels(k)
  PROVE  InOrder(worker[w])' /\ Produced(worker[w])'
<1>1. PICK s : s = worker'[w]
  OBVIOUS
<1>2. InOrder(worker[w])'
  <2>1. s.pc \in {"claimed", "checked", "stated", "pathed"} => s.img = 0
    BY <1>1 DEF InOrder
  <2>2. /\ s.pc = worker[w].pc /\ s.pid = worker[w].pid /\ s.kid = worker[w].kid /\ s.img = worker[w].img
        /\ Has(s) \subseteq Has(worker[w])
    BY <1>1
  <2> QED
    BY <1>1, <2>1, <2>2, OrderKept
<1>3. ASSUME NEW c \in ToSet(s.cur)
      PROVE  /\ s.pc \in {"rendered", "valid"} /\ s.exc = "none" /\ Owns(c)' /\ s.kid = c.key[3] => file'[c.key] # 0
             /\ s.pc = "valid" => s.pid = c.key[3] /\ (Owns(c)' => file'[c.key] = c.key[3])
  <2>1. c \in Has(worker[w]) /\ c \in ToSet(worker[w].cur)
    BY <1>1, <1>3 DEF Has
  <2>2. c.key \in Key /\ c.key[3] # 0
    BY <2>1, ClaimFacts
  <2>3. FileStep(c.key) /\ RunStep(c.key)
    BY <2>2 DEF KeyPixels
  <2>4. Owns(c)' => Owns(c) /\ job'[c.key].st = "running"
    BY <2>1, <2>3, OwnedBefore DEF Owns
  <2>5. Owns(c)' /\ file[c.key] # 0 => file'[c.key] = file[c.key]
    BY <2>3, <2>4 DEF FileStep
  <2> QED
    BY <1>1, <2>1, <2>2, <2>4, <2>5 DEF Produced
<1>4. Produced(worker[w])'
  BY <1>1, <1>3 DEF Produced, Owns
<1> QED
  BY <1>2, <1>4

\* Nobody moves.
LEMMA AllRest ==
  ASSUME DerivInv, DerivInv', PixelInv, PixelStep, worker' = worker
  PROVE  \A w \in Workers : InOrder(worker[w])' /\ Produced(worker[w])'
BY WorkerRests DEF PixelInv, PixelStep

\* One worker moves.
LEMMA OneMoves ==
  ASSUME DerivInv, DerivInv', PixelInv, PixelStep, NEW w \in Workers, NEW s, worker' = [worker EXCEPT ![w] = s],
         InOrder(worker[w])', Produced(worker[w])'
  PROVE  \A v \in Workers : InOrder(worker[v])' /\ Produced(worker[v])'
<1>1. ASSUME NEW v \in Workers, v # w PROVE InOrder(worker[v])' /\ Produced(worker[v])'
  <2>1. worker'[v] = worker[v]
    BY <1>1 DEF DerivInv, Crew
  <2> QED
    BY <2>1, WorkerRests DEF PixelInv, PixelStep
<1> QED
  BY <1>1

\* The parts of the invariant together.
LEMMA PixelsKept ==
  ASSUME DerivInv, DerivInv', PixelInv, PixelStep, OpPixels',
         \A w \in Workers : InOrder(worker[w])' /\ Produced(worker[w])'
  PROVE  PixelInv'
<1>1. WorldPixels'
  BY WorldPixelsKept DEF PixelInv
<1>2. ASSUME NEW k \in Key PROVE RowPixels(k)'
  BY RowPixelsKept DEF PixelInv, PixelStep
<1> QED
  BY <1>1, <1>2 DEF PixelInv

\* The eviction goes on with what it had, or is over and had unlinked nothing.
EvictCalm ==
  \/ op'.sel = op.sel /\ op'.gone = op.gone
  \/ op'.sel = {} /\ op.gone = {}

\* The source files and the catalog stay.
LEMMA CalmWorld ==
  ASSUME DerivInv, PixelInv, UNCHANGED <<disk, cat>>
  PROVE  Later
<1>1. \A a \in Assets : disk[a] \in Nat /\ cat[a].ident \in Nat
  BY DerivativeAssumption DEF DerivInv, World, Ident
<1>2. \A a \in Assets : disk[a] = 0 \/ (disk[a] # 0 /\ disk[a] <= disk[a])
  BY <1>1
<1>3. \A a \in Assets : cat[a].ident <= cat[a].ident /\ Reached(a, cat[a].ident)
  BY <1>1 DEF PixelInv, WorldPixels
<1> QED
  BY <1>2, <1>3 DEF Later, Reached

\* A derivative that a step leaves alone.
LEMMA CalmKey ==
  ASSUME NEW k \in Key, file'[k] = file[k], row'[k] = row[k], job'[k] = job[k], EvictCalm
  PROVE  KeyPixels(k)
BY DEF KeyPixels, FileStep, PixelRowStep, EvictStep, RunStep, EvictCalm

\* A step that leaves them all alone.
LEMMA CalmStep ==
  ASSUME DerivInv, PixelInv, UNCHANGED <<disk, cat, row, job, file, served, deferred, audit>>, EvictCalm
  PROVE  PixelStep
<1>1. Later
  BY CalmWorld
<1>2. \A k \in Key : KeyPixels(k)
  BY CalmKey
<1>3. MoreHistory
  BY DEF MoreHistory
<1> QED
  BY <1>1, <1>2, <1>3 DEF PixelStep

\* What was put off stays so, and the caller has other derivatives to schedule.
LEMMA PutOffKept ==
  ASSUME DerivInv, DerivInv', PixelInv, Later, KeysPixels', deferred' \subseteq deferred,
         \A p \in Key : p \in deferred => row'[p].path = 0 /\ ~ActiveJob(job'[p]),
         \A p \in Key : p \in deferred \cup op'.drop => p \notin ToSet(op'.keys)
  PROVE  PutOffPixels'
<1>1. ASSUME NEW p \in Key, p \in deferred' PROVE Outdated(p)'
  <2>1. p[3] < cat[p[1]].ident /\ p[3] \in Nat /\ p[1] \in Assets
    BY <1>1, KeyFacts DEF PixelInv, OpPixels, PutOffPixels, Outdated
  <2>2. cat[p[1]].ident \in Nat /\ cat'[p[1]].ident \in Nat /\ cat[p[1]].ident <= cat'[p[1]].ident
    BY <2>1 DEF DerivInv, World, Later, Ident
  <2> QED
    BY <1>1, <2>1, <2>2 DEF Outdated
<1> QED
  BY <1>1 DEF PutOffPixels

\* The caller's state stays, and so does what it relies on.
LEMMA OpPixelsStay ==
  ASSUME DerivInv, DerivInv', PixelInv, Later, UNCHANGED <<op, deferred>>,
         \A p \in Key : p \in op.drop \cup deferred => row'[p].path = 0 /\ ~ActiveJob(job'[p]),
         op.kind = "clear" => \A k \in Key : row'[k] = row[k] /\ job'[k] = job[k]
  PROVE  OpPixels'
<1>1. HandPixels /\ PutOffPixels
  BY DEF PixelInv, OpPixels
<1>2. ASSUME NEW p \in Key, p \in op.drop
      PROVE  p[3] < cat'[p[1]].ident /\ row'[p].path = 0 /\ ~ActiveJob(job'[p])
  <2>1. p[3] < cat[p[1]].ident /\ p[3] \in Nat /\ p[1] \in Assets
    BY <1>1, <1>2, KeyFacts DEF HandPixels
  <2>2. cat[p[1]].ident \in Nat /\ cat'[p[1]].ident \in Nat /\ cat[p[1]].ident <= cat'[p[1]].ident
    BY <2>1 DEF DerivInv, World, Later, Ident
  <2> QED
    BY <1>2, <2>1, <2>2
<1>3. HandPixels'
  BY <1>1, <1>2 DEF HandPixels
<1>4. KeysPixels' /\ \A p \in Key : p \in deferred \cup op'.drop => p \notin ToSet(op'.keys)
  BY <1>1 DEF PutOffPixels, KeysPixels
<1>5. PutOffPixels'
  BY <1>4, PutOffKept
<1> QED
  BY <1>3, <1>5 DEF OpPixels

\* What the caller relies on of the rows.
LEMMA OpRelies ==
  ASSUME PixelInv
  PROVE  \A p \in Key : p \in op.drop \cup deferred =>
           p[3] < cat[p[1]].ident /\ row[p].path = 0 /\ ~ActiveJob(job[p])
BY DEF PixelInv, OpPixels, HandPixels, PutOffPixels, Outdated

\* The rows stay too.
LEMMA OpPixelsRest ==
  ASSUME DerivInv, DerivInv', PixelInv, Later, UNCHANGED <<op, deferred, row, job>>
  PROVE  OpPixels'
BY OpRelies, OpPixelsStay

\* A caller that has nothing in hand.
LEMMA FreshOpPixels ==
  ASSUME op'.sel = {}, op'.gone = {}, op'.drop = {}, op'.kind # "clear", PutOffPixels'
  PROVE  OpPixels'
BY DEF OpPixels, HandPixels

\* A caller that is done.
LEMMA DonePixels ==
  ASSUME DerivInv, DerivInv', PixelInv, Later, op' = NoOp, deferred' \subseteq deferred,
         \A p \in Key : p \in deferred => row'[p].path = 0 /\ ~ActiveJob(job'[p])
  PROVE  OpPixels' /\ PutOffPixels'
<1>1. op'.sel = {} /\ op'.gone = {} /\ op'.drop = {} /\ op'.kind = "none" /\ op'.keys = <<>>
      /\ op'.stage = "none"
  BY DEF NoOp
<1>2. <<>> \in Seq({}) /\ ToSet(<<>>) = {}
  BY DEF ToSet
<1>3. KeysPixels'
  BY <1>1, <1>2 DEF KeysPixels
<1>4. PutOffPixels'
  BY <1>1, <1>2, <1>3, PutOffKept
<1> QED
  BY <1>1, <1>4, FreshOpPixels

\* A worker moves, and nothing else does.
LEMMA WorkerMoves ==
  ASSUME DerivInv, DerivInv', PixelInv, NEW w \in Workers, NEW s, worker' = [worker EXCEPT ![w] = s],
         UNCHANGED <<disk, cat, row, job, file, served, deferred, audit, op>>,
         InOrder(worker[w])', Produced(worker[w])'
  PROVE  PixelInv'
<1>1. PixelStep /\ Later
  BY CalmStep DEF EvictCalm, PixelStep
<1>2. OpPixels'
  BY <1>1, OpPixelsRest
<1>3. \A v \in Workers : InOrder(worker[v])' /\ Produced(worker[v])'
  BY <1>1, OneMoves
<1> QED
  BY <1>1, <1>2, <1>3, PixelsKept

\* Only a worker that has rendered has a product.
LEMMA NoProduct ==
  ASSUME NEW w \in Workers, worker'[w].pc \notin {"rendered", "valid"}
  PROVE  Produced(worker[w])'
BY DEF Produced

\* What a worker is and the invariant says of it.
LEMMA WorkerPixelFacts ==
  ASSUME DerivInv, PixelInv, NEW w \in Workers
  PROVE  /\ worker[w] \in WorkerRec /\ Shape(worker[w]) /\ InOrder(worker[w]) /\ Produced(worker[w])
         /\ \A s : worker' = [worker EXCEPT ![w] = s] => worker'[w] = s
         /\ World /\ WorldPixels
BY DEF DerivInv, Crew, PixelInv

\* _validate_claimed_source before the render.
LEMMA ValidatePixels ==
  ASSUME DerivInv, DerivInv', PixelInv, NEW w \in Workers, Validate(w)
  PROVE  PixelInv'
<1>1. /\ worker[w] \in WorkerRec /\ InOrder(worker[w])
      /\ \A s : worker' = [worker EXCEPT ![w] = s] => worker'[w] = s
  BY WorkerPixelFacts
<1>2. UNCHANGED <<disk, cat, row, job, file, served, deferred, audit, op>>
  BY DEF Validate, WorkerOnly, db
<1>3. PICK p, code, s :
        /\ s = [worker[w] EXCEPT !.pc = p, !.exc = code] /\ worker' = [worker EXCEPT ![w] = s]
        /\ \/ worker[w].pc \in {"claimed", "stated"} /\ p = "failing"
           \/ worker[w].pc = "claimed" /\ p = "checked"
           \/ worker[w].pc = "stated" /\ p = "pathed"
  BY DEF Validate, Set
<1>4. s.pc = p /\ s.pid = worker[w].pid /\ s.img = worker[w].img /\ Has(s) = Has(worker[w])
  BY <1>1, <1>3 DEF WorkerRec, Has
<1>5. worker[w].img = 0
  BY <1>1, <1>3 DEF InOrder
<1>6. Later
  BY <1>2, CalmWorld
<1>7. InOrder(worker[w])'
  <2>1. s.pc \in {"claimed", "checked", "stated", "pathed"} => s.img = 0
    BY <1>4, <1>5
  <2>2. s.pc \notin Keyed /\ (s.pc \in Stated => worker[w].pc \in Stated)
    BY <1>3, <1>4 DEF Keyed, Stated
  <2> QED
    BY <1>1, <1>3, <1>4, <1>6, <2>1, <2>2, OrderKept
<1>8. Produced(worker[w])'
  BY <1>1, <1>3, <1>4, NoProduct
<1> QED
  BY <1>2, <1>3, <1>7, <1>8, WorkerMoves

\* The source as a worker sees it now is no older than what it saw before.
LEMMA SeesSource ==
  ASSUME DerivInv, PixelInv, NEW w \in Workers, NEW c \in Has(worker[w]),
         NEW i, i = disk[Asset(w)], i # 0
  PROVE  /\ i \in Nat /\ c.key[3] <= i /\ Reached(c.key[1], i) /\ disk[c.key[1]] = i
         /\ \A j \in Nat : Reached(c.key[1], j) => j <= i
<1>1. worker[w] \in WorkerRec /\ InOrder(worker[w]) /\ WorldPixels
  BY WorkerPixelFacts
<1>2. worker[w].open # <<>> \/ worker[w].cur # <<>>
  BY DEF Has, ToSet
<1>3. InHand(w) \in Has(worker[w]) /\ Asset(w) = InHand(w).key[1]
  BY <1>2, HandFacts DEF InHand, Asset
<1>4. Asset(w) = c.key[1]
  BY <1>1, <1>3 DEF InOrder
<1>5. i \in Nat /\ c.key[3] \in Nat /\ cat[c.key[1]].ident \in Nat /\ c.key[1] \in Assets
  BY <1>4, ClaimFacts
<1>6. c.key[3] <= cat[c.key[1]].ident /\ Reached(c.key[1], cat[c.key[1]].ident)
  BY <1>1, <1>5 DEF InOrder, WorldPixels
<1> QED
  BY <1>4, <1>5, <1>6 DEF Reached

\* A worker fails, or goes on to steps at which it need have nothing.
LEMMA GivesUp ==
  ASSUME DerivInv, DerivInv', PixelInv, NEW w \in Workers, NEW s, worker' = [worker EXCEPT ![w] = s],
         UNCHANGED <<disk, cat>>,
         Has(s) \subseteq Has(worker[w]), s.pc \in {"failing", "releasing", "closing", "quota", "idle"}
  PROVE  InOrder(worker[w])' /\ Produced(worker[w])'
<1>1. worker'[w] = s /\ InOrder(worker[w])
  BY WorkerPixelFacts
<1>2. Later
  BY CalmWorld
<1>3. InOrder(worker[w])'
  <2>1. s.pc \notin Keyed \cup Stated \cup {"claimed", "checked", "stated", "pathed"}
    BY DEF Keyed, Stated
  <2> QED
    BY <1>1, <1>2, <2>1, OrderKept
<1>4. Produced(worker[w])'
  BY <1>1, NoProduct
<1> QED
  BY <1>3, <1>4

\* derivative_cache_path: the path is made of the file as it is now.
LEMMA CachePathsPixels ==
  ASSUME DerivInv, DerivInv', PixelInv, NEW w \in Workers, CachePaths(w)
  PROVE  PixelInv'
<1>1. /\ worker[w] \in WorkerRec /\ InOrder(worker[w])
      /\ \A s : worker' = [worker EXCEPT ![w] = s] => worker'[w] = s
  BY WorkerPixelFacts
<1>2. UNCHANGED <<disk, cat, row, job, file, served, deferred, audit, op>>
      /\ worker[w].pc \in {"checked", "claimed"}
  BY DEF CachePaths, WorkerOnly, db
<1>3. PICK i : i = disk[Asset(w)]
  OBVIOUS
<1>4. CASE i = 0
  <2>1. PICK s : s = [worker[w] EXCEPT !.pc = "failing", !.exc = "source_missing"]
                 /\ worker' = [worker EXCEPT ![w] = s]
    BY <1>3, <1>4 DEF CachePaths, Set
  <2>2. s.pc = "failing" /\ Has(s) \subseteq Has(worker[w])
    BY <1>1, <2>1 DEF WorkerRec, Has
  <2>3. InOrder(worker[w])' /\ Produced(worker[w])'
    BY <1>2, <2>1, <2>2, GivesUp
  <2> QED
    BY <1>2, <2>1, <2>3, WorkerMoves
<1>5. CASE i # 0
  <2>1. PICK p, g, s :
          /\ p \in {"pathed", "stated"} /\ s = [worker[w] EXCEPT !.pc = p, !.pid = i, !.gen = g]
          /\ worker' = [worker EXCEPT ![w] = s]
    <3>1. PICK p : p = IF worker[w].pc = "checked" THEN "pathed" ELSE "stated"
      OBVIOUS
    <3>2. PICK g : g = {PathOf(c.key, i) : c \in ToSet(worker[w].open)}
      OBVIOUS
    <3>3. PICK s : s = [worker[w] EXCEPT !.pc = p, !.pid = i, !.gen = g]
      OBVIOUS
    <3>4. s = [worker[w] EXCEPT !.pc = IF @ = "checked" THEN "pathed" ELSE "stated", !.pid = i, !.gen = g]
      BY <3>1, <3>3
    <3>5. worker' = [worker EXCEPT ![w] = s]
      BY <1>3, <1>5, <3>2, <3>4 DEF CachePaths, Set
    <3> QED
      BY <3>1, <3>3, <3>5
  <2>2. s.pc = p /\ s.pid = i /\ s.img = worker[w].img /\ Has(s) = Has(worker[w])
    BY <1>1, <2>1 DEF WorkerRec, Has
  <2>3. worker[w].img = 0
    BY <1>1, <1>2 DEF InOrder
  <2>4. \A c \in Has(s) : c.key[3] <= s.pid /\ Reached(c.key[1], s.pid)
    BY <1>3, <1>5, <2>2, SeesSource
  <2>5. Later /\ s.pc \notin Keyed
    BY <1>2, <2>1, <2>2, CalmWorld DEF Keyed
  <2>6. InOrder(worker[w])'
    BY <1>1, <2>1, <2>2, <2>3, <2>4, <2>5, OrderKept
  <2>7. Produced(worker[w])'
    BY <1>1, <2>1, <2>2, NoProduct
  <2> QED
    BY <1>2, <2>1, <2>6, <2>7, WorkerMoves
<1> QED
  BY <1>4, <1>5

\* The render keys are made.
LEMMA RenderKeysPixels ==
  ASSUME DerivInv, DerivInv', PixelInv, NEW w \in Workers, RenderKeys(w)
  PROVE  PixelInv'
<1>1. /\ worker[w] \in WorkerRec /\ InOrder(worker[w])
      /\ \A s : worker' = [worker EXCEPT ![w] = s] => worker'[w] = s
  BY WorkerPixelFacts
<1>2. UNCHANGED <<disk, cat, row, job, file, served, deferred, audit, op>> /\ worker[w].pc = "pathed"
  BY DEF RenderKeys, WorkerOnly, db
<1>3. PICK i : i = disk[Asset(w)]
  OBVIOUS
<1>4. CASE i = 0
  <2>1. PICK s : s = [worker[w] EXCEPT !.pc = "failing", !.exc = "source_missing"]
                 /\ worker' = [worker EXCEPT ![w] = s]
    BY <1>3, <1>4 DEF RenderKeys, Set
  <2>2. s.pc = "failing" /\ Has(s) \subseteq Has(worker[w])
    BY <1>1, <2>1 DEF WorkerRec, Has
  <2>3. InOrder(worker[w])' /\ Produced(worker[w])'
    BY <1>2, <2>1, <2>2, GivesUp
  <2> QED
    BY <1>2, <2>1, <2>3, WorkerMoves
<1>5. CASE i # 0
  <2>1. PICK s : s = [worker[w] EXCEPT !.pc = "keyed", !.kid = i] /\ worker' = [worker EXCEPT ![w] = s]
    BY <1>3, <1>5 DEF RenderKeys, Set
  <2>2. s.pc = "keyed" /\ s.kid = i /\ s.pid = worker[w].pid /\ s.img = worker[w].img /\ Has(s) = Has(worker[w])
    BY <1>1, <2>1 DEF WorkerRec, Has
  <2>3. worker[w].img = 0
    BY <1>1, <1>2 DEF InOrder
  <2>4. ASSUME NEW c \in Has(s) PROVE s.pid <= s.kid /\ Reached(c.key[1], s.kid)
    <3>1. Reached(c.key[1], worker[w].pid)
      BY <1>1, <1>2, <2>2, <2>4 DEF InOrder, Stated
    <3>2. worker[w].pid \in Nat
      BY <2>2, <2>4, ClaimFacts
    <3> QED
      BY <1>3, <1>5, <2>2, <2>4, <3>1, <3>2, SeesSource
  <2>5. Later /\ worker[w].pc \in Stated
    BY <1>2, CalmWorld DEF Stated
  <2>6. InOrder(worker[w])'
    BY <1>1, <2>1, <2>2, <2>3, <2>4, <2>5, OrderKept
  <2>7. Produced(worker[w])'
    BY <1>1, <2>1, <2>2, NoProduct
  <2> QED
    BY <1>2, <2>1, <2>6, <2>7, WorkerMoves
<1> QED
  BY <1>4, <1>5

\* The source is decoded.
LEMMA DecodePixels ==
  ASSUME DerivInv, DerivInv', PixelInv, NEW w \in Workers, Decode(w)
  PROVE  PixelInv'
<1>1. /\ worker[w] \in WorkerRec /\ InOrder(worker[w])
      /\ \A s : worker' = [worker EXCEPT ![w] = s] => worker'[w] = s
  BY WorkerPixelFacts
<1>2. UNCHANGED <<disk, cat, row, job, file, served, deferred, audit, op>> /\ worker[w].pc = "keyed"
  BY DEF Decode, WorkerOnly, db
<1>3. PICK i : i = disk[Asset(w)]
  OBVIOUS
<1>4. CASE i = 0
  <2>1. PICK s : s = [worker[w] EXCEPT !.pc = "failing", !.exc = "source_missing"]
                 /\ worker' = [worker EXCEPT ![w] = s]
    BY <1>3, <1>4 DEF Decode, Set
  <2>2. s.pc = "failing" /\ Has(s) \subseteq Has(worker[w])
    BY <1>1, <2>1 DEF WorkerRec, Has
  <2>3. InOrder(worker[w])' /\ Produced(worker[w])'
    BY <1>2, <2>1, <2>2, GivesUp
  <2> QED
    BY <1>2, <2>1, <2>3, WorkerMoves
<1>5. CASE i # 0
  <2>1. PICK s : s = [worker[w] EXCEPT !.img = i] /\ worker' = [worker EXCEPT ![w] = s]
    BY <1>3, <1>5 DEF Decode, Set
  <2>2. s.pc = "keyed" /\ s.img = i /\ s.pid = worker[w].pid /\ s.kid = worker[w].kid /\ Has(s) = Has(worker[w])
    BY <1>1, <1>2, <2>1 DEF WorkerRec, Has
  <2>4. ASSUME NEW c \in Has(s) PROVE s.kid <= s.img /\ Reached(c.key[1], s.img)
    <3>1. Reached(c.key[1], worker[w].kid)
      BY <1>1, <1>2, <2>2, <2>4 DEF InOrder, Keyed
    <3>2. worker[w].kid \in Nat
      BY <2>2, <2>4, ClaimFacts
    <3> QED
      BY <1>3, <1>5, <2>2, <2>4, <3>1, <3>2, SeesSource
  <2>5. Later /\ worker[w].pc \in Stated /\ worker[w].pc \in Keyed
    BY <1>2, CalmWorld DEF Stated, Keyed
  <2>6. InOrder(worker[w])'
    BY <1>1, <2>1, <2>2, <2>4, <2>5, OrderKept
  <2>7. Produced(worker[w])'
    BY <1>1, <2>1, <2>2, NoProduct
  <2> QED
    BY <1>2, <2>1, <2>6, <2>7, WorkerMoves
<1> QED
  BY <1>4, <1>5

\* The claim that is rendered next: its path is free only if the source was decoded.
LEMMA RendersFacts ==
  ASSUME DerivInv, PixelInv, NEW w \in Workers, Render(w), NEW n, n = NextClaim(w),
         NEW c, c = worker[w].open[n], NEW p, p = PathOf(c.key, worker[w].kid)
  PROVE  /\ n \in 1..Len(worker[w].open) /\ c \in ToSet(worker[w].open) /\ c \in Has(worker[w]) /\ p \in Key
         /\ p[1] = c.key[1] /\ p[3] = worker[w].kid /\ (worker[w].kid = c.key[3] => p = c.key)
         /\ file[p] = 0 => /\ worker[w].img # 0
                           /\ p[3] <= worker[w].img /\ Reached(p[1], worker[w].img)
<1>1. worker[w] \in WorkerRec /\ InOrder(worker[w]) /\ Shape(worker[w])
  BY WorkerPixelFacts
<1>2. worker[w].pc = "keyed" /\ (worker[w].img # 0 \/ Cached(w) # {})
  BY DEF Render
<1>3. worker[w].open # <<>> /\ worker[w].open \in Seq(Claim)
  BY <1>1, <1>2 DEF Shape, WorkerRec
<1>4. n \in 1..Len(worker[w].open) /\ (Cached(w) # {} => n \in Cached(w))
  BY <1>3, NextClaimIsOpen
<1>5. c \in ToSet(worker[w].open) /\ c \in Has(worker[w])
  BY <1>3, <1>4, Elements DEF Has
<1>6. /\ c.key \in Key /\ c.key[3] \in Nat /\ c.key[3] # 0 /\ worker[w].pid \in Nat /\ worker[w].kid \in Nat
      /\ worker[w].kid \in 0..MaxIdent
  BY <1>1, <1>5, ClaimFacts DEF WorkerRec
<1>7. c.key[3] <= worker[w].pid /\ worker[w].pid <= worker[w].kid
  BY <1>1, <1>2, <1>5 DEF InOrder, Stated, Keyed
<1>8. worker[w].kid \in 1..MaxIdent
  BY <1>6, <1>7, DerivativeAssumption
<1>9. /\ p \in Key /\ p = <<c.key[1], c.key[2], worker[w].kid>>
      /\ c.key = <<c.key[1], c.key[2], c.key[3]>>
  BY <1>6, <1>8 DEF PathOf, Key, Ident
<1>10. ASSUME file[p] = 0
       PROVE  worker[w].img # 0 /\ p[3] <= worker[w].img /\ Reached(p[1], worker[w].img)
  <2>1. n \notin Cached(w)
    BY <1>10 DEF Cached
  <2>2. worker[w].img # 0
    BY <1>2, <1>4, <2>1
  <2>3. worker[w].kid <= worker[w].img /\ Reached(c.key[1], worker[w].img)
    BY <1>1, <1>2, <1>5, <2>2 DEF InOrder, Keyed
  <2> QED
    BY <1>9, <2>2, <2>3
<1> QED
  BY <1>4, <1>5, <1>9, <1>10

\* A variant is found in the cache, or written there.
LEMMA RenderPixels ==
  ASSUME DerivInv, DerivInv', PixelInv, NEW w \in Workers, Render(w)
  PROVE  PixelInv'
<1>1. /\ worker[w] \in WorkerRec /\ InOrder(worker[w]) /\ Shape(worker[w]) /\ World
      /\ \A s : worker' = [worker EXCEPT ![w] = s] => worker'[w] = s
  BY WorkerPixelFacts
<1>2. UNCHANGED <<disk, cat, row, job, served, deferred, audit, op>> /\ worker[w].pc = "keyed"
  BY DEF Render, db
<1>3. PICK n : n = NextClaim(w)
  OBVIOUS
<1>4. PICK c : c = worker[w].open[n]
  OBVIOUS
<1>5. PICK p : p = PathOf(c.key, worker[w].kid)
  OBVIOUS
<1>6. /\ n \in 1..Len(worker[w].open) /\ c \in ToSet(worker[w].open) /\ c \in Has(worker[w]) /\ p \in Key
      /\ p[1] = c.key[1] /\ p[3] = worker[w].kid /\ (worker[w].kid = c.key[3] => p = c.key)
      /\ file[p] = 0 => /\ worker[w].img # 0
                        /\ p[3] <= worker[w].img /\ Reached(p[1], worker[w].img)
  BY <1>3, <1>4, <1>5, RendersFacts
<1>7. PICK s : /\ s = [worker[w] EXCEPT !.pc = "rendered", !.cur = <<c>>, !.open = RemoveAt(worker[w].open, n)]
               /\ worker' = [worker EXCEPT ![w] = s]
  BY <1>3, <1>4 DEF Render, Set
<1>8. file' = IF file[p] = 0 THEN [file EXCEPT ![p] = worker[w].img] ELSE file
  BY <1>3, <1>4, <1>5 DEF Render
<1>9. \A k \in Key : file'[k] = IF k = p /\ file[k] = 0 THEN worker[w].img ELSE file[k]
  BY <1>1, <1>6, <1>8 DEF World
<1>10. Later
  BY <1>2, CalmWorld
<1>11. ASSUME NEW k \in Key PROVE KeyPixels(k)
  <2>1. FileStep(k)
    BY <1>2, <1>6, <1>9 DEF FileStep, Reached
  <2>2. PixelRowStep(k) /\ EvictStep(k) /\ RunStep(k)
    BY <1>2 DEF PixelRowStep, EvictStep, RunStep
  <2> QED
    BY <2>1, <2>2 DEF KeyPixels
<1>12. PixelStep
  BY <1>2, <1>10, <1>11 DEF PixelStep, PixelInv, WorldPixels, MoreHistory
<1>13. OpPixels'
  BY <1>2, <1>10, OpPixelsRest
<1>14. /\ s.pc = "rendered" /\ s.cur = <<c>> /\ s.open = RemoveAt(worker[w].open, n)
       /\ s.pid = worker[w].pid /\ s.kid = worker[w].kid /\ s.img = worker[w].img /\ s.exc = worker[w].exc
  BY <1>1, <1>7 DEF WorkerRec
<1>15. Has(s) \subseteq Has(worker[w])
  <2>1. worker[w].open \in Seq(Claim)
    BY <1>1 DEF WorkerRec
  <2>2. PICK t : t = RemoveAt(worker[w].open, n)
    OBVIOUS
  <2>3. Less(worker[w].open, t, n)
    BY <1>6, <2>1, <2>2, RemoveAtFacts DEF Less
  <2>4. s.open = t /\ s.cur = <<worker[w].open[n]>> /\ s.pc = "rendered"
    BY <1>4, <1>14, <2>2
  <2> QED
    BY <1>1, <1>2, <1>6, <2>3, <2>4, TakesInHand
<1>16. InOrder(worker[w])'
  <2>1. s.pc \in Stated /\ s.pc \in Keyed /\ worker[w].pc \in Stated /\ worker[w].pc \in Keyed
    BY <1>2, <1>14 DEF Stated, Keyed
  <2> QED
    BY <1>1, <1>7, <1>10, <1>14, <1>15, <2>1, OrderKept
<1>17. Produced(worker[w])'
  <2>0. c \in Claim
    BY <1>6, ClaimFacts
  <2>1. worker'[w] = s /\ ToSet(s.cur) = {c}
    BY <1>1, <1>7, <1>14, <2>0, Single
  <2>2. s.kid = c.key[3] => file'[c.key] # 0
    BY <1>6, <1>9, <1>14
  <2> QED
    BY <1>14, <2>1, <2>2 DEF Produced
<1>18. \A v \in Workers : InOrder(worker[v])' /\ Produced(worker[v])'
  BY <1>7, <1>12, <1>16, <1>17, OneMoves
<1> QED
  BY <1>12, <1>13, <1>18, PixelsKept

\* A decode or an encode fails: the worker has no result.
LEMMA RenderFailsPixels ==
  ASSUME DerivInv, DerivInv', PixelInv, NEW w \in Workers, RenderFails(w)
  PROVE  PixelInv'
<1>1. /\ worker[w] \in WorkerRec /\ InOrder(worker[w]) /\ Shape(worker[w])
      /\ \A s : worker' = [worker EXCEPT ![w] = s] => worker'[w] = s
  BY WorkerPixelFacts
<1>2. UNCHANGED <<disk, cat, row, job, file, served, deferred, audit, op>> /\ worker[w].pc = "keyed"
  BY DEF RenderFails, db
<1>3. PICK code, s :
        /\ s = (IF worker[w].img = 0 THEN [worker[w] EXCEPT !.pc = "failing", !.exc = code]
                ELSE [worker[w] EXCEPT !.pc = "rendered", !.exc = code,
                                       !.cur = <<Head(worker[w].open)>>, !.open = Tail(worker[w].open)])
        /\ worker' = [worker EXCEPT ![w] = s]
        /\ code \in {"invalid_source", "transient", "internal_error"}
  <2>1. PICK code \in {"invalid_source", "transient", "internal_error"} :
          worker' = [worker EXCEPT ![w] =
            IF worker[w].img = 0 THEN [worker[w] EXCEPT !.pc = "failing", !.exc = code]
            ELSE [worker[w] EXCEPT !.pc = "rendered", !.exc = code,
                                   !.cur = <<Head(worker[w].open)>>, !.open = Tail(worker[w].open)]]
    BY DEF RenderFails, Set
  <2> QED
    BY <2>1
<1>4. CASE worker[w].img = 0
  <2>1. s.pc = "failing" /\ Has(s) \subseteq Has(worker[w])
    BY <1>1, <1>3, <1>4 DEF WorkerRec, Has
  <2>2. InOrder(worker[w])' /\ Produced(worker[w])'
    BY <1>2, <1>3, <2>1, GivesUp
  <2> QED
    BY <1>2, <1>3, <2>2, WorkerMoves
<1>5. CASE worker[w].img # 0
  <2>1. /\ s.pc = "rendered" /\ s.exc = code /\ s.cur = <<Head(worker[w].open)>> /\ s.open = Tail(worker[w].open)
        /\ s.pid = worker[w].pid /\ s.kid = worker[w].kid /\ s.img = worker[w].img
    BY <1>1, <1>3, <1>5 DEF WorkerRec
  <2>2. Has(s) \subseteq Has(worker[w])
    <3>1. worker[w].open \in Seq(Claim) /\ worker[w].open # <<>>
      BY <1>1, <1>2 DEF WorkerRec, Shape
    <3>2. PICK t : t = Tail(worker[w].open)
      OBVIOUS
    <3>3. Less(worker[w].open, t, 1) /\ Head(worker[w].open) = worker[w].open[1] /\ 1 \in 1..Len(worker[w].open)
      BY <3>1, <3>2, TailIsLess
    <3>4. s.open = t /\ s.cur = <<worker[w].open[1]>>
      BY <2>1, <3>2, <3>3
    <3> QED
      BY <1>1, <1>2, <2>1, <3>3, <3>4, TakesInHand
  <2>3. s.pc \in Stated /\ s.pc \in Keyed /\ worker[w].pc \in Stated /\ worker[w].pc \in Keyed
    BY <1>2, <2>1 DEF Stated, Keyed
  <2>4. Later
    BY <1>2, CalmWorld
  <2>5. InOrder(worker[w])'
    BY <1>1, <1>3, <2>1, <2>2, <2>3, <2>4, OrderKept
  <2>6. Produced(worker[w])'
    BY <1>1, <1>3, <2>1 DEF Produced
  <2> QED
    BY <1>2, <1>3, <2>5, <2>6, WorkerMoves
<1> QED
  BY <1>4, <1>5

\* The source is validated again: if it is unchanged, every identity on the way was
\* the claim's, and so are the pixels.
LEMMA RevalidatePixels ==
  ASSUME DerivInv, DerivInv', PixelInv, NEW w \in Workers, Revalidate(w)
  PROVE  PixelInv'
<1>1. /\ worker[w] \in WorkerRec /\ InOrder(worker[w]) /\ Shape(worker[w]) /\ Produced(worker[w]) /\ World
      /\ WorldPixels
      /\ \A s : worker' = [worker EXCEPT ![w] = s] => worker'[w] = s
  BY WorkerPixelFacts
<1>2. UNCHANGED <<disk, cat, row, job, file, served, deferred, audit, op>>
      /\ worker[w].pc = "rendered" /\ worker[w].exc = "none"
  BY DEF Revalidate, WorkerOnly, db
<1>3. PICK code, s :
        /\ code = Verdict(InHand(w))
        /\ s = [worker[w] EXCEPT !.pc = IF code = "none" THEN "valid" ELSE "rendered", !.exc = code]
        /\ worker' = [worker EXCEPT ![w] = s]
  BY DEF Revalidate, Set
<1>4. /\ s.pc = (IF code = "none" THEN "valid" ELSE "rendered") /\ s.exc = code /\ s.cur = worker[w].cur
      /\ s.pid = worker[w].pid /\ s.kid = worker[w].kid /\ s.img = worker[w].img /\ Has(s) = Has(worker[w])
  BY <1>1, <1>3 DEF WorkerRec, Has
<1>5. InOrder(worker[w])'
  <2>1. s.pc \in Stated /\ s.pc \in Keyed /\ worker[w].pc \in Stated /\ worker[w].pc \in Keyed
    BY <1>2, <1>4 DEF Stated, Keyed
  <2>2. s.pc \notin {"claimed", "checked", "stated", "pathed"}
    BY <1>4
  <2>3. Later
    BY <1>2, CalmWorld
  <2>4. worker'[w] = s /\ Has(s) \subseteq Has(worker[w])
    BY <1>1, <1>3, <1>4
  <2>5. s.pid = worker[w].pid /\ s.kid = worker[w].kid /\ s.img = worker[w].img
    BY <1>4
  <2> QED
    BY <1>1, <2>1, <2>2, <2>3, <2>4, <2>5, OrderKept
<1>6. ASSUME NEW c \in ToSet(s.cur), s.pc = "valid"
      PROVE  s.pid = c.key[3] /\ s.kid = c.key[3] /\ (Owns(c) => file[c.key] = c.key[3])
  <2>1. c \in ToSet(worker[w].cur) /\ c \in Has(worker[w]) /\ worker[w].cur # <<>>
    BY <1>4, <1>6 DEF Has, ToSet
  <2>2. c = InHand(w)
    <3>1. Len(worker[w].cur) = 1 /\ worker[w].cur \in Seq(Claim)
      BY <1>1, <1>2 DEF Shape, WorkerRec
    <3>2. \E i \in 1..1 : c = worker[w].cur[i]
      BY <2>1, <3>1, Elements
    <3>3. \A i \in 1..1 : i = 1
      OBVIOUS
    <3> QED
      BY <2>1, <3>2, <3>3 DEF InHand
  <2>3. Verdict(c) = "none"
    BY <1>3, <1>4, <1>6, <2>2
  <2>4. disk[c.key[1]] = c.key[3] /\ disk[c.key[1]] # 0
    BY <2>3 DEF Verdict
  <2>5. /\ c.key \in Key /\ c.key[3] \in Nat /\ worker[w].pid \in Nat /\ worker[w].kid \in Nat
        /\ file[c.key] \in Nat
    BY <1>1, <2>1, ClaimFacts, DerivativeAssumption DEF World
  <2>6. /\ c.key[3] <= worker[w].pid /\ worker[w].pid <= worker[w].kid /\ Reached(c.key[1], worker[w].kid)
    BY <1>1, <1>2, <2>1 DEF InOrder, Stated, Keyed
  <2>7. worker[w].pid = c.key[3] /\ worker[w].kid = c.key[3]
    BY <2>4, <2>5, <2>6 DEF Reached
  <2>8. ASSUME Owns(c) PROVE file[c.key] = c.key[3]
    <3>1. file[c.key] # 0
      BY <1>1, <1>2, <2>1, <2>7, <2>8 DEF Produced
    <3>2. c.key[3] <= file[c.key] /\ Reached(c.key[1], file[c.key])
      BY <1>1, <2>5, <3>1 DEF WorldPixels
    <3> QED
      BY <2>4, <2>5, <3>2 DEF Reached
  <2> QED
    BY <1>4, <2>7, <2>8
<1>7. Produced(worker[w])'
  <2>1. worker'[w] = s
    BY <1>1, <1>3
  <2>2. \A c \in ToSet(s.cur) : c.key[3] # 0
    BY <1>4, ClaimFacts DEF Has
  <2>3. s.pc = "rendered" => s.exc # "none"
    BY <1>4
  <2> QED
    BY <1>2, <1>6, <2>1, <2>2, <2>3 DEF Produced, Owns
<1> QED
  BY <1>2, <1>3, <1>5, <1>7, WorkerMoves

-----------------------------------------------------------------------------
(* Steps that write rows.                                                  *)

\* What a transaction does to a row and a job, while no eviction is under way or
\* the row has no file.
LEMMA TxRowPixels ==
  ASSUME DerivInv, DerivInv', NEW k \in Key, RowPixels(k), NEW t, TxStep(k, t), row' = t.row, job' = t.job,
         op'.sel = {} \/ ActiveJob(job[k])
  PROVE  PixelRowStep(k) /\ RunStep(k)
<1>1. row[k] \in Row /\ row'[k] \in Row /\ KeyOK(k)
  BY DEF DerivInv, Rows
<1>2. RunStep(k)
  BY DEF TxStep, JobStep, JobStays, JobSettled, JobQueues, JobEnds, JobReturns, Over, RunStep
<1>3. CASE row'[k] = row[k]
  BY <1>2, <1>3 DEF PixelRowStep
<1>4. CASE RowLost(row[k], row'[k])
  BY <1>2, <1>4 DEF PixelRowStep, RowLost
<1>5. CASE RowKept(row[k], row'[k]) /\ row'[k] # row[k]
  <2>1. row[k].path # 0 /\ row'[k].path = row[k].path /\ row'[k].st \in {"ready", "evicted"}
    BY <1>5 DEF RowKept
  <2>2. k \notin op'.sel
    BY <1>1, <2>1 DEF KeyOK
  <2>3. row'[k].st # "evicted"
    <3>1. ASSUME row'[k].st = "evicted" PROVE row[k].st = row'[k].st
      BY <3>1 DEF TxStep
    <3> QED
      BY <1>1, <1>5, <2>1, <3>1 DEF Row
  <2>4. row'[k].st = "ready" /\ HasFile(k, row[k])
    BY <1>5, <2>1, <2>3 DEF TxStep
  <2>5. file[k] # 0
    BY <2>1, <2>4, KeyFacts DEF HasFile, RowPixels
  <2> QED
    BY <1>2, <2>1, <2>2, <2>4, <2>5 DEF PixelRowStep, OfferedAgain
<1> QED
  BY <1>2, <1>3, <1>4, <1>5 DEF TxStep

\* Whoever writes rows of active jobs leaves what the caller relies on.
LEMMA ActivePixels ==
  ASSUME DerivInv, DerivInv', PixelInv, UNCHANGED <<disk, cat, file, served, deferred, audit, op>>,
         \A k \in Key : \/ row'[k] = row[k] /\ job'[k] = job[k]
                        \/ ActiveJob(job[k]) /\ PixelRowStep(k) /\ RunStep(k)
  PROVE  PixelStep /\ OpPixels'
<1>1. Later /\ EvictCalm
  BY CalmWorld DEF EvictCalm
<1>2. ASSUME NEW k \in Key PROVE KeyPixels(k)
  <2>1. CASE row'[k] = row[k] /\ job'[k] = job[k]
    BY <1>1, <2>1, CalmKey
  <2>2. CASE ActiveJob(job[k]) /\ PixelRowStep(k) /\ RunStep(k)
    BY <2>2 DEF KeyPixels, FileStep, EvictStep
  <2> QED
    BY <2>1, <2>2
<1>3. MoreHistory
  BY DEF MoreHistory
<1>4. OpPixels'
  <2>1. OpPixels
    BY DEF PixelInv
  <2>2. ASSUME NEW p \in Key, p \in op.drop \cup deferred PROVE row'[p].path = 0 /\ ~ActiveJob(job'[p])
    BY <2>2, OpRelies
  <2>3. ASSUME op.kind = "clear", NEW k \in Key PROVE row'[k] = row[k] /\ job'[k] = job[k]
    <3>1. job[k] = NoJob
      BY <2>1, <2>3 DEF OpPixels, HandPixels
    <3> QED
      BY <3>1, NoJobFacts DEF ActiveJob
  <2> QED
    BY <1>1, <2>2, <2>3, OpPixelsStay
<1> QED
  BY <1>1, <1>2, <1>3, <1>4 DEF PixelStep

\* Ends of active jobs.
LEMMA EndsPixels ==
  ASSUME DerivInv, DerivInv', PixelInv, UNCHANGED <<disk, cat, file, served, deferred, audit, op>>,
         NEW ends, EndsOK(ends), NEW t, t = SetEnds(Tx(NoLedger), ends), row' = t.row, job' = t.job
  PROVE  PixelStep /\ OpPixels'
<1>1. Rows
  BY DEF DerivInv
<1>2. \A k \in Key : /\ TxStep(k, t)
                     /\ k \notin DOMAIN ends => t.row[k] = row[k] /\ t.job[k] = job[k]
  BY <1>1, SetEndsFacts
<1>3. ASSUME NEW k \in Key
      PROVE  \/ row'[k] = row[k] /\ job'[k] = job[k]
             \/ ActiveJob(job[k]) /\ PixelRowStep(k) /\ RunStep(k)
  <2>1. CASE k \notin DOMAIN ends
    BY <1>2, <2>1
  <2>2. CASE k \in DOMAIN ends
    <3>1. ActiveJob(job[k]) /\ RowPixels(k)
      BY <2>2 DEF EndsOK, PixelInv
    <3> QED
      BY <1>2, <3>1, TxRowPixels
  <2> QED
    BY <2>1, <2>2
<1> QED
  BY <1>3, ActivePixels

\* The queue sweep and recovery write what they decided.
LEMMA SweepsPixels ==
  ASSUME DerivInv, DerivInv', PixelInv, SweepWrite \/ RecoverWrite
  PROVE  PixelInv'
<1>1. SweepOK
  BY DEF DerivInv
<1>2. /\ UNCHANGED <<disk, cat, file, served, deferred, audit, op>> /\ worker' = worker
      /\ \E ends : /\ EndsOK(ends) /\ row' = SetEnds(Tx(NoLedger), ends).row
                   /\ job' = SetEnds(Tx(NoLedger), ends).job
  <2>1. CASE SweepWrite
    <3>1. PICK ends : ends = [k \in {d \in DOMAIN sweep.todo : job[d].st = "queued"} |-> <<"skipped", sweep.todo[k]>>]
      OBVIOUS
    <3>2. /\ sweep.kind = "queued" /\ worker' = worker
          /\ row' = SetEnds(Tx(NoLedger), ends).row /\ job' = SetEnds(Tx(NoLedger), ends).job
          /\ UNCHANGED <<disk, cat, file, served, deferred, audit, op>>
      BY <2>1, <3>1 DEF SweepWrite, Commit
    <3>3. ASSUME NEW k \in Key, k \in DOMAIN ends
          PROVE  /\ ends[k] = <<"skipped", sweep.todo[k]>> /\ job[k].st = "queued"
                 /\ sweep.todo[k] \in ResultCodes
      BY <1>1, <3>1, <3>2, <3>3 DEF SweepOK
    <3>4. EndsOK(ends)
      BY <3>3 DEF EndsOK, ActiveJob
    <3> QED
      BY <3>2, <3>4
  <2>2. CASE RecoverWrite
    <3>1. PICK ends : ends = Recovered(sweep.todo)
      OBVIOUS
    <3>2. /\ sweep.kind = "recover" /\ worker' = worker
          /\ row' = SetEnds(Tx(NoLedger), ends).row /\ job' = SetEnds(Tx(NoLedger), ends).job
          /\ UNCHANGED <<disk, cat, file, served, deferred, audit, op>>
      BY <2>2, <3>1 DEF RecoverWrite, Commit
    <3>3. ASSUME NEW k \in Key, k \in DOMAIN ends
          PROVE  /\ ends[k] = sweep.todo[k].end /\ k \in DOMAIN sweep.todo
                 /\ job[k].st = "running" /\ job[k].token = sweep.todo[k].token
      BY <3>1, <3>3 DEF Recovered
    <3>4. EndsOK(ends)
      BY <1>1, <3>2, <3>3 DEF EndsOK, ActiveJob, SweepOK
    <3> QED
      BY <3>2, <3>4
  <2> QED
    BY <2>1, <2>2
<1>3. PICK ends : /\ EndsOK(ends) /\ row' = SetEnds(Tx(NoLedger), ends).row
                  /\ job' = SetEnds(Tx(NoLedger), ends).job
  BY <1>2
<1>4. PixelStep /\ OpPixels'
  BY <1>2, <1>3, EndsPixels
<1> QED
  BY <1>2, <1>4, AllRest, PixelsKept

\* The failure op is refused.
LEMMA FailRefusedPixels ==
  ASSUME DerivInv, DerivInv', PixelInv, NEW w \in Workers, FailRefused(w)
  PROVE  PixelInv'
<1>1. worker[w] \in WorkerRec
  BY WorkerPixelFacts
<1>2. Failing(w) /\ UNCHANGED <<disk, cat, row, job, file, served, deferred, audit, op>>
  BY DEF FailRefused, db
<1>3. PICK s : /\ worker' = [worker EXCEPT ![w] = s]
               /\ s.pc \in {"failing", "closing"} /\ Has(s) \subseteq Has(worker[w])
  <2>1. CASE worker' = [worker EXCEPT ![w] =
                         [worker[w] EXCEPT !.pc = "closing", !.cur = <<>>, !.open = <<>>]]
    <3>1. PICK s : s = [worker[w] EXCEPT !.pc = "closing", !.cur = <<>>, !.open = <<>>]
      OBVIOUS
    <3>2. s.pc = "closing" /\ Has(s) \subseteq Has(worker[w])
      BY <1>1, <3>1 DEF WorkerRec, Has, ToSet
    <3> QED
      BY <2>1, <3>1, <3>2
  <2>2. CASE /\ OthersOpen(w) # <<>>
             /\ worker' = [worker EXCEPT ![w] =
                  [worker[w] EXCEPT !.pc = "failing", !.cur = <<>>, !.exc = "transient",
                                    !.open = OthersOpen(w)]]
    <3>1. PICK s : s = [worker[w] EXCEPT !.pc = "failing", !.cur = <<>>, !.exc = "transient",
                                         !.open = OthersOpen(w)]
      OBVIOUS
    <3>2. Has(s) \subseteq Has(worker[w])
      BY <1>2, <2>2, <3>1, OthersFacts
    <3>3. s.pc = "failing"
      BY <1>1, <3>1 DEF WorkerRec
    <3> QED
      BY <2>2, <3>1, <3>2, <3>3
  <2> QED
    BY <2>1, <2>2 DEF FailRefused, Set
<1>4. InOrder(worker[w])' /\ Produced(worker[w])'
  BY <1>2, <1>3, GivesUp
<1> QED
  BY <1>2, <1>3, <1>4, WorkerMoves

\* The worker goes on with the next claim, or ends.
LEMMA ContinuePixels ==
  ASSUME DerivInv, DerivInv', PixelInv, NEW w \in Workers, Continue(w)
  PROVE  PixelInv'
<1>1. /\ worker[w] \in WorkerRec /\ InOrder(worker[w])
      /\ \A s : worker' = [worker EXCEPT ![w] = s] => worker'[w] = s
  BY WorkerPixelFacts
<1>2. PICK p, s :
        p \in {"releasing", "closing", "keyed"} /\ s = [worker[w] EXCEPT !.pc = p] /\ worker' = [worker EXCEPT ![w] = s]
  BY DEF Continue, Set
<1>3. UNCHANGED <<disk, cat, row, job, file, served, deferred, audit, op>> /\ worker[w].pc = "handled"
  BY DEF Continue, WorkerOnly, db
<1>4. /\ s.pc = p /\ s.pid = worker[w].pid /\ s.kid = worker[w].kid /\ s.img = worker[w].img
      /\ Has(s) \subseteq Has(worker[w])
  BY <1>1, <1>2 DEF WorkerRec, Has
<1>5. Later
  BY <1>3, CalmWorld
<1>6. InOrder(worker[w])'
  <2>1. worker[w].pc \in Stated /\ worker[w].pc \in Keyed /\ s.pc \notin {"claimed", "checked", "stated", "pathed"}
    BY <1>2, <1>3, <1>4 DEF Stated, Keyed
  <2>2. s = worker'[w]
    BY <1>1, <1>2
  <2> QED
    BY <1>1, <1>4, <1>5, <2>1, <2>2, OrderKept
<1>7. Produced(worker[w])'
  BY <1>1, <1>2, <1>4, NoProduct
<1> QED
  BY <1>2, <1>3, <1>6, <1>7, WorkerMoves

\* The worker is done, and may ask for the quota to be enforced.
LEMMA ClosePixels ==
  ASSUME DerivInv, DerivInv', PixelInv, NEW w \in Workers, Close(w)
  PROVE  PixelInv'
<1>1. PICK s : /\ worker' = [worker EXCEPT ![w] = s] /\ s \in {Idle, [Idle EXCEPT !.pc = "quota"]}
  BY DEF Close, Set
<1>2. UNCHANGED <<disk, cat, row, job, file, served, deferred, audit, op>>
  BY DEF Close, WorkerOnly, db
<1>3. Has(s) \subseteq Has(worker[w]) /\ s.pc \in {"idle", "quota"}
  <2>1. Idle.pc = "idle" /\ [Idle EXCEPT !.pc = "quota"].pc = "quota"
    BY DEF Idle
  <2> QED
    BY <1>1, <2>1, IdleFacts
<1>4. InOrder(worker[w])' /\ Produced(worker[w])'
  BY <1>1, <1>2, <1>3, GivesUp
<1> QED
  BY <1>1, <1>2, <1>4, WorkerMoves

\* A worker asks for the quota to be enforced.
LEMMA EnforceQuotaPixels ==
  ASSUME DerivInv, DerivInv', PixelInv, NEW w \in Workers, EnforceQuota(w)
  PROVE  PixelInv'
<1>1. worker' = [worker EXCEPT ![w] = Idle] /\ UNCHANGED <<disk, cat, row, job, file, served, deferred, audit>>
  BY DEF EnforceQuota, Set, db
<1>2. op.gone = {} /\ op'.sel = {} /\ op'.gone = {} /\ op'.drop = {} /\ op'.kind # "clear"
  BY DEF EnforceQuota, NoOp
<1>3. Idle.pc = "idle" /\ Has(Idle) \subseteq Has(worker[w])
  BY IdleFacts DEF Idle
<1>4. PICK s : s = Idle
  OBVIOUS
<1>5. InOrder(worker[w])' /\ Produced(worker[w])'
  BY <1>1, <1>3, <1>4, GivesUp
<1>6. PixelStep
  BY <1>1, <1>2, CalmStep DEF EvictCalm
<1>7. \A v \in Workers : InOrder(worker[v])' /\ Produced(worker[v])'
  BY <1>1, <1>5, <1>6, OneMoves
<1>8. OpPixels'
  <2>1. /\ op'.keys = <<>> /\ op'.kind = "enforce" /\ ToSet(<<>>) = {} /\ <<>> \in Seq({})
    BY DEF EnforceQuota, NoOp, ToSet
  <2>2. KeysPixels'
    BY <2>1 DEF KeysPixels
  <2>3. PutOffPixels'
    BY <1>1, <1>2, <1>6, <2>1, <2>2, OpRelies, PutOffKept DEF PixelStep
  <2> QED
    BY <1>2, <2>3, FreshOpPixels
<1> QED
  BY <1>6, <1>7, <1>8, PixelsKept

\* No eviction is under way.
LEMMA NothingEvicted ==
  ASSUME PixelInv, EvictionFree
  PROVE  op.sel = {} /\ op.gone = {}
BY DEF PixelInv, OpPixels, HandPixels, EvictionFree

\* The worker offers what it rendered: the file has the claim's pixels.
LEMMA CompletePixels ==
  ASSUME DerivInv, DerivInv', PixelInv, NEW w \in Workers, Complete(w)
  PROVE  PixelInv'
<1>1. /\ worker[w] \in WorkerRec /\ InOrder(worker[w]) /\ Produced(worker[w]) /\ Shape(worker[w])
      /\ \A s : worker' = [worker EXCEPT ![w] = s] => worker'[w] = s
  BY WorkerPixelFacts
<1>2. /\ worker[w].pc = "valid" /\ EvictionFree
      /\ UNCHANGED <<disk, cat, file, served, deferred, op, audit>>
  BY DEF Complete
<1>3. PICK c : c = InHand(w)
  OBVIOUS
<1>4. worker[w].cur # <<>> /\ c = worker[w].cur[1] /\ c \in ToSet(worker[w].cur) /\ c \in Has(worker[w])
  <2>1. Len(worker[w].cur) = 1 /\ Len(<<>>) = 0 /\ worker[w].cur \in Seq(Claim)
    BY <1>1, <1>2 DEF Shape, WorkerRec
  <2>2. worker[w].cur # <<>>
    BY <2>1
  <2>3. 1 \in 1..Len(worker[w].cur)
    BY <2>1
  <2>4. worker[w].cur[1] \in ToSet(worker[w].cur)
    BY <2>1, <2>3, Elements
  <2> QED
    BY <1>3, <2>2, <2>4 DEF InHand, Has
<1>5. PICK s, ok : s = [worker[w] EXCEPT !.pc = "handled", !.cur = <<>>, !.ok = ok] /\ worker' = [worker EXCEPT ![w] = s]
  BY DEF Complete, Set
<1>6. /\ s.pc = "handled" /\ s.pid = worker[w].pid /\ s.kid = worker[w].kid /\ s.img = worker[w].img
      /\ s.open = worker[w].open /\ s.cur = <<>>
  BY <1>1, <1>5 DEF WorkerRec
<1>7. Has(s) \subseteq Has(worker[w]) /\ s = worker'[w]
  <2>1. ToSet(<<>>) = {}
    BY DEF ToSet
  <2> QED
    BY <1>1, <1>5, <1>6, <2>1 DEF Has
<1>8. Later
  BY <1>2, CalmWorld
<1>9. InOrder(worker[w])'
  <2>1. worker[w].pc \in Stated /\ worker[w].pc \in Keyed /\ s.pc \notin {"claimed", "checked", "stated", "pathed"}
    BY <1>2, <1>6 DEF Stated, Keyed
  <2> QED
    BY <1>1, <1>6, <1>7, <1>8, <2>1, OrderKept
<1>10. Produced(worker[w])'
  BY <1>6, <1>7, NoProduct
<1>11. ASSUME NEW k \in Key
       PROVE  \/ row'[k] = row[k] /\ job'[k] = job[k]
              \/ ActiveJob(job[k]) /\ PixelRowStep(k) /\ RunStep(k)
  <2>1. CASE ~Owns(c)
    BY <1>3, <2>1 DEF Complete, db
  <2>2. CASE Owns(c)
    <3>1. /\ job' = [job EXCEPT ![c.key] = Ended(job[c.key], "done", "none")]
          /\ row' = [row EXCEPT ![c.key] = [st |-> "ready", path |-> worker[w].pid]]
      BY <1>3, <2>2 DEF Complete
    <3>2. row \in [Key -> Row] /\ job \in [Key -> Job]
      BY DEF DerivInv, Rows
    <3>3. CASE k # c.key
      BY <3>1, <3>2, <3>3
    <3>4. CASE k = c.key
      <4>1. PICK i : i = Ended(job[k], "done", "none")
        OBVIOUS
      <4>2. job'[k] = i /\ row'[k].st = "ready" /\ row'[k].path = worker[w].pid
        BY <3>1, <3>2, <3>4, <4>1
      <4>3. i.st = "done"
        BY <3>2, <4>1 DEF Ended, Job
      <4>4. worker[w].pid = k[3] /\ file[k] = k[3] /\ k[3] <= cat[k[1]].ident
        BY <1>1, <1>2, <1>4, <2>2, <3>4 DEF Produced, InOrder
      <4>5. k \notin op'.sel
        BY <1>2, NothingEvicted
      <4>6. PixelRowStep(k)
        BY <4>2, <4>4, <4>5 DEF PixelRowStep, OfferedNew
      <4>7. ActiveJob(job[k]) /\ RunStep(k)
        BY <2>2, <3>4, <4>2, <4>3 DEF Owns, ActiveJob, RunStep
      <4> QED
        BY <4>6, <4>7
    <3> QED
      BY <3>3, <3>4
  <2> QED
    BY <2>1, <2>2
<1>12. PixelStep /\ OpPixels'
  BY <1>2, <1>11, ActivePixels
<1> QED
  BY <1>5, <1>9, <1>10, <1>12, OneMoves, PixelsKept

\* A failure of the claim in hand, or of the first.
LEMMA FailPixels ==
  ASSUME DerivInv, DerivInv', PixelInv, NEW w \in Workers, Fail(w)
  PROVE  PixelInv'
<1>1. /\ worker[w] \in WorkerRec /\ InOrder(worker[w]) /\ Shape(worker[w])
      /\ \A s : worker' = [worker EXCEPT ![w] = s] => worker'[w] = s
      /\ Rows /\ Drawn(worker[w])
  BY WorkerPixelFacts DEF DerivInv, Crew
<1>2. /\ Failing(w) /\ worker' = [worker EXCEPT ![w] = AfterFailure(w)]
      /\ UNCHANGED <<disk, cat, file, served, deferred, op, audit>>
  BY DEF Fail, Set
<1>3. PICK s, c : s = AfterFailure(w) /\ c = InHand(w)
  OBVIOUS
<1>4. /\ Has(s) \subseteq Has(worker[w]) /\ worker' = [worker EXCEPT ![w] = s] /\ worker'[w] = s
      /\ c \in Has(worker[w]) /\ c \in Claim
  BY <1>1, <1>2, <1>3, FailingFacts
<1>5. Later
  BY <1>2, CalmWorld
<1>6. InOrder(worker[w])' /\ Produced(worker[w])'
  <2>1. CASE worker[w].cur # <<>>
    <3>1. s = [worker[w] EXCEPT !.pc = "handled", !.cur = <<>>, !.exc = "none"]
      BY <1>3, <2>1 DEF AfterFailure
    <3>2. s.pc = "handled" /\ s.pid = worker[w].pid /\ s.kid = worker[w].kid /\ s.img = worker[w].img
      BY <1>1, <3>1 DEF WorkerRec
    <3>3. worker[w].pc = "rendered"
      BY <1>1, <1>2, <2>1 DEF Failing, Shape
    <3>4. worker[w].pc \in Stated /\ worker[w].pc \in Keyed /\ s.pc \notin {"claimed", "checked", "stated", "pathed"}
      BY <3>2, <3>3 DEF Stated, Keyed
    <3>5. InOrder(worker[w])'
      BY <1>1, <1>4, <1>5, <3>2, <3>4, OrderKept
    <3> QED
      BY <1>4, <3>2, <3>5, NoProduct
  <2>2. CASE worker[w].cur = <<>>
    <3>1. PICK p \in {"closing", "failing"} : s = [worker[w] EXCEPT !.open = Tail(worker[w].open), !.pc = p]
      BY <1>3, <2>2 DEF AfterFailure
    <3>2. s.pc \in {"closing", "failing"}
      BY <1>1, <3>1 DEF WorkerRec
    <3> QED
      BY <1>2, <1>4, <3>2, GivesUp
  <2> QED
    BY <2>1, <2>2
<1>7. PixelStep /\ OpPixels'
  <2>1. CASE ~Owns(c)
    <3>1. row' = row /\ job' = job
      BY <1>3, <2>1 DEF Fail, db
    <3> QED
      BY <1>2, <3>1, ActivePixels
  <2>2. CASE Owns(c)
    <3>1. PICK end : end = FailureOf(c, worker[w].exc)
      OBVIOUS
    <3>2. PICK ends : ends = [k \in {c.key} |-> end]
      OBVIOUS
    <3>3. PICK t : t = SetEnds(Tx(NoLedger), ends)
      OBVIOUS
    <3>4. row' = t.row /\ job' = t.job
      BY <1>3, <2>2, <3>1, <3>2, <3>3 DEF Fail, Commit
    <3>5. /\ end \in {"queued", "failed", "skipped"} \X ResultCodes
          /\ end[1] = "queued" => c.attempts < MaxAttempts
      <4>1. worker[w].exc \in Codes \cup {"none"}
        BY <1>1 DEF WorkerRec
      <4> QED
        BY <1>4, <3>1, <4>1, FailureFacts
    <3>6. job[c.key].st = "running" /\ c.attempts = job[c.key].attempts
      BY <1>1, <1>4, <2>2 DEF Drawn, Owns
    <3>7. EndsOK(ends)
      BY <3>2, <3>5, <3>6 DEF EndsOK, ActiveJob
    <3> QED
      BY <1>2, <3>3, <3>4, <3>7, EndsPixels
  <2> QED
    BY <2>1, <2>2
<1> QED
  BY <1>4, <1>6, <1>7, OneMoves, PixelsKept

\* The claims of a batch that yields are handed back.
LEMMA ReleaseClaimsPixels ==
  ASSUME DerivInv, DerivInv', PixelInv, NEW w \in Workers, ReleaseClaims(w)
  PROVE  PixelInv'
<1>1. worker[w] \in WorkerRec
  BY WorkerPixelFacts
<1>2. PICK s : s = [worker[w] EXCEPT !.pc = "closing", !.open = <<>>]
  OBVIOUS
<1>3. PICK mine : mine = StillOwned(w)
  OBVIOUS
<1>4. /\ worker' = [worker EXCEPT ![w] = s]
      /\ UNCHANGED <<disk, cat, file, served, deferred, op, audit>>
      /\ job' = [k \in Key |-> IF k \in mine THEN ReleasedJob(job[k]) ELSE job[k]]
      /\ row' = [k \in Key |-> IF k \in mine /\ row[k].st = "running"
                               THEN [row[k] EXCEPT !.st = "queued"] ELSE row[k]]
  BY <1>2, <1>3 DEF ReleaseClaims, Set
<1>5. s.pc = "closing" /\ Has(s) \subseteq Has(worker[w])
  <2>1. s.pc = "closing" /\ s.open = <<>> /\ s.cur = worker[w].cur /\ ToSet(<<>>) = {}
    BY <1>1, <1>2 DEF WorkerRec, ToSet
  <2> QED
    BY <2>1 DEF Has
<1>6. InOrder(worker[w])' /\ Produced(worker[w])'
  BY <1>4, <1>5, GivesUp
<1>7. ASSUME NEW k \in Key
      PROVE  \/ row'[k] = row[k] /\ job'[k] = job[k]
             \/ ActiveJob(job[k]) /\ PixelRowStep(k) /\ RunStep(k)
  <2>1. CASE k \notin mine
    BY <1>4, <2>1
  <2>2. CASE k \in mine
    <3>1. job[k].st = "running"
      BY <1>3, <2>2 DEF StillOwned, Owns
    <3>2. row[k] \in Row /\ row[k].path = 0 /\ job[k] \in Job /\ job[k].attempts <= MaxAttempts
      BY <3>1 DEF DerivInv, Rows, KeyOK, ActiveJob
    <3>3. RunStep(k)
      <4>1. job'[k] = ReleasedJob(job[k])
        BY <1>4, <2>2
      <4> QED
        BY <3>2, <4>1, ReleasedFacts DEF RunStep
    <3>4. PixelRowStep(k)
      <4>1. CASE row[k].st # "running"
        BY <1>4, <4>1 DEF PixelRowStep
      <4>2. CASE row[k].st = "running"
        <5>1. PICK r : r = [row[k] EXCEPT !.st = "queued"]
          OBVIOUS
        <5>2. row'[k] = r
          BY <1>4, <2>2, <4>2, <5>1
        <5>3. r.st = "queued" /\ r.path = 0
          BY <3>2, <5>1 DEF Row
        <5> QED
          BY <5>2, <5>3 DEF PixelRowStep
      <4> QED
        BY <4>1, <4>2
    <3> QED
      BY <3>1, <3>3, <3>4 DEF ActiveJob
  <2> QED
    BY <2>1, <2>2
<1>8. PixelStep /\ OpPixels'
  BY <1>4, <1>7, ActivePixels
<1> QED
  BY <1>4, <1>6, <1>8, OneMoves, PixelsKept

\* A worker claims derivatives of one asset at the identity the catalog has.
LEMMA ClaimJobsPixels ==
  ASSUME DerivInv, DerivInv', PixelInv, NEW w \in Workers, ClaimJobs(w)
  PROVE  PixelInv'
<1>1. PICK k \in Leaders : \E taken, mine :
        /\ taken = {k} \cup Siblings(k) /\ mine = ClaimsOf(k, Siblings(k))
        /\ Commit(ClaimEach(Tx(NoLedger), [s \in taken |-> claims[s] + 1]))
        /\ worker' = [worker EXCEPT ![w] = [Idle EXCEPT
             !.pc = "claimed", !.open = mine, !.batch = Len(mine) > 1, !.bg = job[k].prio >= 2]]
  BY DEF ClaimJobs
<1>2. PICK taken, mine :
        /\ taken = {k} \cup Siblings(k) /\ mine = ClaimsOf(k, Siblings(k))
        /\ Commit(ClaimEach(Tx(NoLedger), [s \in taken |-> claims[s] + 1]))
        /\ worker' = [worker EXCEPT ![w] = [Idle EXCEPT
             !.pc = "claimed", !.open = mine, !.batch = Len(mine) > 1, !.bg = job[k].prio >= 2]]
  BY <1>1
<1>3. /\ UNCHANGED <<disk, cat, file, served, deferred, op, audit>>
      /\ Rows /\ \A s : worker' = [worker EXCEPT ![w] = s] => worker'[w] = s
  BY WorkerPixelFacts DEF ClaimJobs, DerivInv
<1>4. /\ taken \subseteq Key /\ k \in Key /\ Current(k)
      /\ \A x \in taken : job[x].st = "queued" /\ x[1] = k[1] /\ x[3] = k[3]
  BY <1>1, <1>2 DEF Leaders, Siblings, Runnable
<1>5. \A c \in ToSet(mine) : c.key \in taken
  BY <1>2, <1>3, <1>4, ClaimsOfFacts
<1>6. /\ row' = [x \in Key |-> IF x \in taken THEN [row[x] EXCEPT !.st = "running"] ELSE row[x]]
      /\ job' = [x \in Key |-> IF x \in taken THEN ClaimedJob(job[x], claims[x] + 1) ELSE job[x]]
  <2>1. PICK fresh : fresh = [s \in taken |-> claims[s] + 1]
    OBVIOUS
  <2>2. DOMAIN fresh = taken /\ \A x \in taken : fresh[x] = claims[x] + 1
    BY <2>1
  <2>3. PICK t : t = Tx(NoLedger)
    OBVIOUS
  <2>4. t = [row |-> t.row, job |-> t.job, lg |-> t.lg, out |-> t.out] /\ t.row = row /\ t.job = job
    BY <1>3, <2>3, TxFacts DEF Tables
  <2>5. row' = ClaimEach(t, fresh).row /\ job' = ClaimEach(t, fresh).job
    BY <1>2, <2>1, <2>3 DEF Commit
  <2>6. /\ ClaimEach(t, fresh).row =
             [x \in Key |-> IF x \in DOMAIN fresh THEN [t.row[x] EXCEPT !.st = "running"] ELSE t.row[x]]
        /\ ClaimEach(t, fresh).job =
             [x \in Key |-> IF x \in DOMAIN fresh THEN ClaimedJob(t.job[x], fresh[x]) ELSE t.job[x]]
    BY <2>4 DEF ClaimEach
  <2> QED
    BY <2>2, <2>4, <2>5, <2>6
<1>7. ASSUME NEW x \in Key
      PROVE  \/ row'[x] = row[x] /\ job'[x] = job[x]
             \/ ActiveJob(job[x]) /\ PixelRowStep(x) /\ RunStep(x)
  <2>1. CASE x \notin taken
    BY <1>6, <2>1
  <2>2. CASE x \in taken
    <3>1. job[x].st = "queued" /\ row[x] \in Row /\ job[x] \in Job /\ KeyOK(x) /\ claims[x] \in Nat
      BY <1>3, <1>4, <2>2, BudgetAssumption DEF Rows
    <3>2. PICK r, i : r = [row[x] EXCEPT !.st = "running"] /\ i = ClaimedJob(job[x], claims[x] + 1)
      OBVIOUS
    <3>3. row'[x] = r /\ job'[x] = i
      BY <1>6, <2>2, <3>2
    <3>4. r.st = "running" /\ r.path = 0
      BY <3>1, <3>2 DEF Row, KeyOK, ActiveJob
    <3>5. i.token = claims[x] + 1
      BY <3>1, <3>2 DEF ClaimedJob, Job
    <3>6. PixelRowStep(x)
      BY <3>3, <3>4 DEF PixelRowStep
    <3>7. RunStep(x)
      BY <3>1, <3>3, <3>5 DEF RunStep
    <3> QED
      BY <3>1, <3>6, <3>7 DEF ActiveJob
  <2> QED
    BY <2>1, <2>2
<1>8. PixelStep /\ OpPixels'
  BY <1>3, <1>7, ActivePixels
<1>9. PICK s : s = [Idle EXCEPT !.pc = "claimed", !.open = mine, !.batch = Len(mine) > 1, !.bg = job[k].prio >= 2]
  OBVIOUS
<1>10. worker' = [worker EXCEPT ![w] = s] /\ worker'[w] = s
  BY <1>2, <1>3, <1>9
<1>11. s.pc = "claimed" /\ s.open = mine /\ s.cur = <<>> /\ s.img = 0
  BY <1>9 DEF Idle
<1>12. \A c \in Has(s) : c.key \in taken
  <2>1. ToSet(<<>>) = {}
    BY DEF ToSet
  <2> QED
    BY <1>5, <1>11, <2>1 DEF Has
<1>13. InOrder(worker[w])'
  <2>1. \A c, d \in Has(s) : c.key[1] = d.key[1] /\ c.key[3] = d.key[3]
    BY <1>4, <1>12
  <2>2. ASSUME NEW c \in Has(s) PROVE c.key[3] <= cat'[c.key[1]].ident
    <3>1. c.key[1] = k[1] /\ c.key[3] = k[3] /\ k[3] = cat[k[1]].ident
      BY <1>4, <1>12 DEF Current
    <3>2. k[3] \in Nat
      BY <1>4, KeyFacts
    <3> QED
      BY <1>3, <3>1, <3>2
  <2>3. s.pc \notin Stated /\ s.pc \notin Keyed
    BY <1>11 DEF Stated, Keyed
  <2> QED
    BY <1>10, <1>11, <2>1, <2>2, <2>3 DEF InOrder
<1>14. Produced(worker[w])'
  BY <1>10, <1>11, NoProduct
<1> QED
  BY <1>8, <1>10, <1>13, <1>14, OneMoves, PixelsKept

-----------------------------------------------------------------------------
(* The callers.                                                            *)

\* A transaction of a caller that has no eviction under way.
LEMMA TxFilesPixels ==
  ASSUME DerivInv, DerivInv', PixelInv, NEW t, \A k \in Key : TxStep(k, t), row' = t.row, job' = t.job,
         UNCHANGED <<disk, cat, audit, worker>>, op.gone = {}, op'.sel = {}, OpPixels',
         \A k \in Key : FileStep(k)
  PROVE  PixelInv'
<1>1. Later /\ EvictCalm
  BY CalmWorld DEF EvictCalm
<1>2. ASSUME NEW k \in Key PROVE KeyPixels(k)
  <2>1. PixelRowStep(k) /\ RunStep(k)
    BY TxRowPixels DEF PixelInv
  <2> QED
    BY <2>1 DEF KeyPixels, EvictStep
<1>3. PixelStep
  BY <1>1, <1>2 DEF PixelStep, PixelInv, WorldPixels, MoreHistory
<1> QED
  BY <1>3, AllRest, PixelsKept

\* One that leaves the files alone.
LEMMA TxPixels ==
  ASSUME DerivInv, DerivInv', PixelInv, NEW t, \A k \in Key : TxStep(k, t), row' = t.row, job' = t.job,
         UNCHANGED <<disk, cat, file, audit, worker>>, op.gone = {}, op'.sel = {}, OpPixels'
  PROVE  PixelInv'
<1>1. \A k \in Key : FileStep(k)
  BY DEF FileStep
<1> QED
  BY <1>1, TxFilesPixels

\* A step that at most reads: the rows and the files stay.
LEMMA QuietPixels ==
  ASSUME DerivInv, DerivInv', PixelInv, UNCHANGED <<disk, cat, row, job, file, worker>>,
         MoreHistory, EvictCalm, OpPixels'
  PROVE  PixelInv'
<1>1. Later
  BY CalmWorld
<1>2. \A k \in Key : KeyPixels(k)
  BY CalmKey
<1>3. PixelStep
  BY <1>1, <1>2 DEF PixelStep, PixelInv, WorldPixels
<1> QED
  BY <1>3, AllRest, PixelsKept

\* A derivative of the file as it is now is none that was put off.
LEMMA PutOffIsOld ==
  ASSUME DerivInv, PixelInv, NEW p \in Key, p \in deferred \cup op.drop
  PROVE  disk[p[1]] # p[3]
<1>1. p[3] < cat[p[1]].ident
  BY OpRelies
<1>2. Reached(p[1], cat[p[1]].ident)
  BY KeyFacts DEF PixelInv, WorldPixels
<1>3. p[3] \in Nat /\ p[3] # 0 /\ cat[p[1]].ident \in Nat /\ disk[p[1]] \in Nat
  BY KeyFacts, DerivativeAssumption DEF DerivInv, World, Ident
<1> QED
  BY <1>1, <1>2, <1>3 DEF Reached

\* A caller asks for a derivative of the file as it is now.
LEMMA ScheduledPixels ==
  ASSUME DerivInv, DerivInv', PixelInv, NEW who, NEW a, NEW v, NEW prio, ScheduleBy(who, a, v, prio),
         UNCHANGED <<disk, cat, row, job, deferred>>
  PROVE  EvictCalm /\ OpPixels'
<1>1. op' = [NoOp EXCEPT !.kind = "schedule", !.stage = "want", !.prio = prio, !.by = who,
                         !.keys = <<<<a, v, disk[a]>>>>] /\ op = NoOp
  BY DEF ScheduleBy
<1>2. /\ op'.sel = {} /\ op'.gone = {} /\ op'.drop = {} /\ op'.kind = "schedule" /\ op'.stage = "want"
      /\ op'.keys = <<<<a, v, disk[a]>>>> /\ op.sel = {} /\ op.gone = {}
  BY <1>1 DEF NoOp
<1>3. PICK k : k = <<a, v, disk[a]>>
  OBVIOUS
<1>4. <<k>> \in Seq({k}) /\ <<k>> # <<>> /\ ToSet(<<k>>) = {k}
  BY DEF ToSet
<1>5. KeysPixels'
  BY <1>2, <1>3, <1>4 DEF KeysPixels
<1>6. \A p \in Key : p \in deferred => p # k
  <2>1. ASSUME NEW p \in Key, p \in deferred, p = k PROVE FALSE
    <3>1. p[1] = a /\ p[3] = disk[a]
      BY <1>3, <2>1
    <3> QED
      BY <2>1, <3>1, PutOffIsOld
  <2> QED
    BY <2>1
<1>7. PutOffPixels'
  BY <1>2, <1>3, <1>4, <1>5, <1>6, CalmWorld, OpRelies, PutOffKept
<1> QED
  BY <1>2, <1>7, FreshOpPixels DEF EvictCalm

\* A caller begins.
LEMMA CallPixels ==
  ASSUME DerivInv, DerivInv', PixelInv, Schedule \/ Reconcile
  PROVE  PixelInv'
<1>1. UNCHANGED <<disk, cat, row, job, file, served, deferred, worker, audit>> /\ op = NoOp
  BY DEF Schedule, ScheduleBy, Reconcile, db
<1>2. CASE Schedule
  <2>1. PICK a \in Assets, v \in Variant, prio \in {0, 3} : ScheduleBy("caller", a, v, prio)
    BY <1>2 DEF Schedule
  <2>2. EvictCalm /\ OpPixels'
    BY <1>1, <2>1, ScheduledPixels
  <2> QED
    BY <1>1, <2>2, QuietPixels DEF MoreHistory
<1>3. CASE Reconcile
  <2>1. PICK p, c : op' = [NoOp EXCEPT !.kind = "reconcile", !.stage = "want", !.o = p, !.cands = c]
    BY <1>3 DEF Reconcile
  <2>2. /\ op'.sel = {} /\ op'.gone = {} /\ op'.drop = {} /\ op'.kind = "reconcile" /\ op'.stage = "want"
        /\ op'.keys = <<>> /\ op.sel = {} /\ op.gone = {}
    BY <1>1, <2>1 DEF NoOp
  <2>3. <<>> \in Seq({}) /\ ToSet(<<>>) = {}
    BY DEF ToSet
  <2>4. KeysPixels'
    BY <2>2, <2>3 DEF KeysPixels
  <2>5. PutOffPixels'
    BY <1>1, <2>2, <2>3, <2>4, CalmWorld, OpRelies, PutOffKept
  <2>6. EvictCalm /\ MoreHistory
    BY <1>1, <2>2 DEF EvictCalm, MoreHistory
  <2> QED
    BY <1>1, <2>2, <2>5, <2>6, FreshOpPixels, QuietPixels
<1> QED
  BY <1>2, <1>3

\* What a caller at another stage has in hand.
LEMMA StageFacts ==
  ASSUME DerivInv, PixelInv
  PROVE  /\ op = [kind |-> op.kind, stage |-> op.stage, keys |-> op.keys, cands |-> op.cands, drop |-> op.drop,
                  sel |-> op.sel, gone |-> op.gone, prio |-> op.prio, o |-> op.o, by |-> op.by]
         /\ op.stage \notin {"evicted", "unlinked"} => op.sel = {} /\ op.gone = {}
         /\ op.stage # "discard" => op.drop = {}
         /\ op.stage # "want" => op.kind # "clear"
         /\ op.prio \in 0..3 /\ Len(op.cands) \in Nat
BY DEF DerivInv, OpOK, PixelInv, OpPixels, HandPixels

\* The caller's derivatives.
LEMMA KeysFacts ==
  ASSUME PixelInv
  PROVE  /\ \E S : op.keys \in Seq(S)
         /\ op.keys # <<>> => /\ Head(op.keys) \in ToSet(op.keys)
                              /\ ToSet(Tail(op.keys)) \subseteq ToSet(op.keys)
                              /\ \E S : Tail(op.keys) \in Seq(S)
                              /\ Len(op.keys) = 1 \/ Tail(op.keys) # <<>>
         /\ \/ op.kind = "schedule"
            \/ op.kind # "enforce" /\ op.stage \in {"reserve", "evicted", "unlinked", "retry"}
            => op.keys # <<>>
         /\ \A p \in Key : p \in deferred \cup op.drop => p \notin ToSet(op.keys)
<1>1. KeysPixels /\ \A p \in Key : p \in deferred \cup op.drop => p \notin ToSet(op.keys)
  BY DEF PixelInv, OpPixels, PutOffPixels
<1>2. PICK S : op.keys \in Seq(S)
  BY <1>1 DEF KeysPixels
<1>3. PICK s \in Seq(S) : s = op.keys
  BY <1>2
<1>4. ASSUME s # <<>>
      PROVE  /\ Head(s) \in ToSet(s) /\ ToSet(Tail(s)) \subseteq ToSet(s)
             /\ Tail(s) \in Seq(S) /\ (Len(s) = 1 \/ Tail(s) # <<>>)
  <2>1. PICK t : t = Tail(s)
    OBVIOUS
  <2>2. /\ Len(s) \in Nat /\ Len(s) >= 1 /\ Head(s) = s[1]
        /\ t \in Seq(S) /\ Len(t) = Len(s) - 1
        /\ \A i \in 1..(Len(s) - 1) : t[i] = s[i + 1]
    BY <1>4, <2>1
  <2>3. Head(s) \in ToSet(s)
    BY <2>2, Elements
  <2>4. \A x : x \in ToSet(t) <=> \E i \in 1..Len(t) : x = t[i]
    BY <2>2, Elements
  <2>5. \A i \in 1..Len(t) : i + 1 \in 1..Len(s) /\ t[i] = s[i + 1]
    BY <2>2
  <2>6. \A i \in 1..Len(s) : s[i] \in ToSet(s)
    BY Elements
  <2>7. ToSet(t) \subseteq ToSet(s)
    BY <2>4, <2>5, <2>6
  <2>8. Len(s) = 1 \/ t # <<>>
    BY <2>2
  <2> QED
    BY <2>1, <2>2, <2>3, <2>7, <2>8
<1> QED
  BY <1>1, <1>3, <1>4 DEF KeysPixels

\* Its one transaction, after which it holds nothing.
LEMMA CoalescePixels ==
  ASSUME DerivInv, DerivInv', PixelInv, ScheduleCoalesce \/ ReconcilePending
  PROVE  PixelInv'
<1>1. /\ UNCHANGED <<disk, cat, file, worker, served, deferred, audit>>
      /\ op.stage \in {"want", "retry"} /\ op.kind # "clear" /\ Rows
      /\ op.kind = "schedule" \/ (op.kind = "reconcile" /\ op.stage = "retry")
  BY DEF ScheduleCoalesce, ReconcilePending, DerivInv
<1>2. op.sel = {} /\ op.gone = {} /\ op.drop = {}
  BY <1>1, StageFacts
<1>3. op.keys # <<>>
  BY <1>1, KeysFacts
<1>4. PICK keys : \/ op' = NoOp
                  \/ keys = op.keys /\ op' = [op EXCEPT !.stage = "reserve"]
                  \/ keys = Tail(op.keys) /\ Len(op.keys) # 1 /\ op' = [op EXCEPT !.stage = "reserve", !.keys = keys]
  BY DEF ScheduleCoalesce, ReconcilePending
<1>5. \/ row' = row /\ job' = job
      \/ \E o : \E prio \in 0..3 : /\ row' = Coalesce(Tx(NoLedger), Head(op.keys), prio, o).row
                                   /\ job' = Coalesce(Tx(NoLedger), Head(op.keys), prio, o).job
  <2>1. CASE ScheduleCoalesce
    BY <2>1, StageFacts DEF ScheduleCoalesce, Commit, db
  <2>2. CASE ReconcilePending
    <3>1. 3 \in 0..3
      OBVIOUS
    <3> QED
      BY <2>2, <3>1 DEF ReconcilePending, Commit
  <2> QED
    BY <2>1, <2>2
<1>6. PICK t : /\ row' = t.row /\ job' = t.job /\ \A x \in Key : TxStep(x, t)
               /\ \A x \in Key : x # Head(op.keys) => t.row[x] = row[x] /\ t.job[x] = job[x]
  <2>1. PICK tx : tx = Tx(NoLedger)
    OBVIOUS
  <2>2. Tables(tx) /\ tx.row = row /\ tx.job = job
    BY <1>1, <2>1, TxFacts
  <2>3. CASE row' = row /\ job' = job
    <3>1. \A x \in Key : CoStep(x, row[x], job[x], tx.row[x], tx.job[x])
      BY <2>2, CoStepNothing
    <3>2. \A x \in Key : TxStep(x, tx)
      BY <1>1, <3>1, CoStepIsTxStep
    <3> QED
      BY <2>2, <2>3, <3>2
  <2>4. ASSUME NEW o, NEW prio \in 0..3, row' = Coalesce(tx, Head(op.keys), prio, o).row,
               job' = Coalesce(tx, Head(op.keys), prio, o).job
        PROVE  \E t : /\ row' = t.row /\ job' = t.job /\ \A x \in Key : TxStep(x, t)
                      /\ \A x \in Key : x # Head(op.keys) => t.row[x] = row[x] /\ t.job[x] = job[x]
    <3>1. PICK t : t = Coalesce(tx, Head(op.keys), prio, o)
      OBVIOUS
    <3>2. \A x \in Key : TxStep(x, t)
      BY <1>1, <2>1, <3>1, OneCoalesce
    <3>3. PICK k : k = Head(op.keys)
      OBVIOUS
    <3>4. \A x \in Key : x # k => t.row[x] = tx.row[x] /\ t.job[x] = tx.job[x]
      BY <2>2, <3>1, <3>3, CoalesceFacts
    <3>5. \A x \in Key : x # Head(op.keys) => t.row[x] = row[x] /\ t.job[x] = job[x]
      BY <2>2, <3>3, <3>4
    <3> QED
      BY <2>4, <3>1, <3>2, <3>5
  <2> QED
    BY <1>5, <2>1, <2>3, <2>4
<1>7. \A p \in Key : p \in deferred => row'[p].path = 0 /\ ~ActiveJob(job'[p])
  <2>1. \A p \in Key : p \in deferred => p # Head(op.keys)
    BY <1>3, KeysFacts
  <2> QED
    BY <1>6, <2>1, OpRelies
<1>8. Later
  BY <1>1, CalmWorld
<1>9. op'.sel = {} /\ OpPixels'
  <2>1. CASE op' = NoOp
    BY <1>1, <1>7, <1>8, <2>1, DonePixels DEF NoOp
  <2>2. CASE op' # NoOp
    <3>1. /\ op'.sel = {} /\ op'.gone = {} /\ op'.drop = {} /\ op'.kind # "clear"
          /\ op'.keys = keys
          /\ keys = op.keys \/ (keys = Tail(op.keys) /\ Len(op.keys) # 1)
      <4>1. CASE keys = op.keys /\ op' = [op EXCEPT !.stage = "reserve"]
        BY <1>1, <1>2, <4>1, StageFacts
      <4>2. CASE keys = Tail(op.keys) /\ Len(op.keys) # 1 /\ op' = [op EXCEPT !.stage = "reserve", !.keys = keys]
        BY <1>1, <1>2, <4>2, StageFacts
      <4> QED
        BY <1>4, <2>2, <4>1, <4>2
    <3>2. (\E S : keys \in Seq(S)) /\ keys # <<>> /\ ToSet(keys) \subseteq ToSet(op.keys)
      BY <1>3, <3>1, KeysFacts
    <3>3. KeysPixels'
      BY <3>1, <3>2 DEF KeysPixels
    <3>4. \A p \in Key : p \in deferred \cup op'.drop => p \notin ToSet(op'.keys)
      BY <3>1, <3>2, KeysFacts
    <3>5. PutOffPixels'
      BY <1>1, <1>7, <1>8, <3>3, <3>4, PutOffKept
    <3> QED
      BY <3>1, <3>5, FreshOpPixels
  <2> QED
    BY <2>1, <2>2
<1> QED
  BY <1>1, <1>2, <1>6, <1>9, TxPixels

\* A retired file is of an identity older than the catalog's, and its row and job end.
LEMMA RetiredPixels ==
  ASSUME DerivInv, PixelInv, NEW lg, NEW as, NEW p \in RetiredPaths(Tx(NoLedger), as),
         NEW t, t = Retire(Tx(lg), as)
  PROVE  /\ p \in Key /\ p[3] < cat[p[1]].ident /\ ~Current(p)
         /\ t.row[p].path = 0 /\ ~ActiveJob(t.job[p])
<1>1. Rows /\ \A k \in Key : RowPixels(k)
  BY DEF DerivInv, PixelInv
<1>2. PICK k \in Superseded(Tx(NoLedger), as) : p = PathOf(k, row[k].path) /\ row[k].path # 0
  BY DEF RetiredPaths, Tx
<1>3. k \in Key /\ cat[k[1]].ident # k[3] /\ k \in Superseded(Tx(lg), as)
  BY <1>2 DEF Superseded, Tx
<1>4. p = k /\ k[3] <= cat[k[1]].ident
  BY <1>1, <1>2, <1>3, KeyFacts DEF RowPixels
<1>5. cat[k[1]].ident \in Nat /\ k[3] \in Nat
  BY <1>3, KeyFacts DEF DerivInv, World, Ident
<1>6. p[3] < cat[p[1]].ident
  BY <1>3, <1>4, <1>5
<1>7. t = [row |-> [x \in Key |-> IF x \in Superseded(Tx(lg), as) THEN [st |-> "skipped", path |-> 0] ELSE row[x]],
           job |-> [x \in Key |-> IF x \in Superseded(Tx(lg), as) THEN SupersededJob(job[x]) ELSE job[x]],
           lg |-> LedgerLeft(lg, Cardinality(Superseded(Tx(lg), as))), out |-> "none"]
  BY DEF Retire, Tx
<1>8. t.row[p].path = 0 /\ t.job[p] = SupersededJob(job[p])
  BY <1>3, <1>4, <1>7
<1>9. SupersededJob(job[p]).st = "skipped"
  <2>1. job[p] \in Job
    BY <1>1, <1>3, <1>4 DEF Rows
  <2>2. [NoJob EXCEPT !.prio = 3] \in Job
    BY DEF NoJob, Job, JobStates, ResultCodes
  <2>3. \A j \in Job : [j EXCEPT !.st = "skipped", !.rc = "source_superseded", !.token = 0].st = "skipped"
    BY DEF Job
  <2> QED
    BY <2>1, <2>2, <2>3 DEF SupersededJob
<1> QED
  BY <1>3, <1>4, <1>6, <1>8, <1>9 DEF Current, ActiveJob

\* Retiring leaves a derivative alone, or ends its row and its job.
LEMMA RetireEnds ==
  ASSUME Rows, NEW lg, NEW as, NEW t, t = Retire(Tx(lg), as), NEW x \in Key
  PROVE  \/ t.row[x] = row[x] /\ t.job[x] = job[x]
         \/ t.row[x].path = 0 /\ t.row[x].st = "skipped" /\ ~ActiveJob(t.job[x])
<1>1. PICK gone : gone = Superseded(Tx(lg), as)
  OBVIOUS
<1>2. PICK l : l = LedgerLeft(lg, Cardinality(gone))
  OBVIOUS
<1>3. t = [row |-> [k \in Key |-> IF k \in gone THEN [st |-> "skipped", path |-> 0] ELSE row[k]],
           job |-> [k \in Key |-> IF k \in gone THEN SupersededJob(job[k]) ELSE job[k]],
           lg |-> l, out |-> "none"]
  BY <1>1, <1>2 DEF Retire, Tx
<1>4. /\ t.row[x] = IF x \in gone THEN [st |-> "skipped", path |-> 0] ELSE row[x]
      /\ t.job[x] = IF x \in gone THEN SupersededJob(job[x]) ELSE job[x]
  BY <1>3
<1>5. SupersededJob(job[x]).st = "skipped"
  <2>1. job[x] \in Job
    BY DEF Rows
  <2>2. [NoJob EXCEPT !.prio = 3] \in Job
    BY DEF NoJob, Job, JobStates, ResultCodes
  <2>3. \A j \in Job : [j EXCEPT !.st = "skipped", !.rc = "source_superseded", !.token = 0].st = "skipped"
    BY DEF Job
  <2> QED
    BY <2>1, <2>2, <2>3 DEF SupersededJob
<1> QED
  BY <1>4, <1>5 DEF ActiveJob

\* What is superseded is not what the catalog has.
LEMMA OutdatedIsNotCurrent ==
  ASSUME DerivInv, NEW p \in Key, p[3] < cat[p[1]].ident
  PROVE  ~Current(p)
<1>1. p[3] \in Nat /\ cat[p[1]].ident \in Nat
  BY KeyFacts DEF DerivInv, World, Ident
<1> QED
  BY <1>1 DEF Current

\* What a batch has left to schedule is current.
LEMMA PendingFacts ==
  ASSUME NEW tx, NEW cands, NEW o, Len(cands) \in Nat
  PROVE  \E S : Reconciled(tx, cands, o).pending \in Seq(S) /\ \A x \in S : Current(x)
<1> DEFINE n == Len(Wanted(cands))
           keys == Wanted(cands)
           S == {x \in {keys[m] : m \in 1..n} : Current(x)}
<1>1. n \in Nat
  BY WantedLength
<1>2. PICK t : t = Retire(tx, CandidateAssets(cands))
  OBVIOUS
<1>3. PICK f : After(f, [tx |-> t, pending |-> <<>>], keys, o, n) /\ Reconciled(tx, cands, o) = f[n]
  BY <1>1, <1>2, ReconciledIs
<1> HIDE DEF n, keys
<1>4. f[0] = [tx |-> t, pending |-> <<>>]
  BY <1>1, <1>3 DEF After
<1>5. \A m \in 1..n : f[m] = IF Current(keys[m]) THEN Counted(f[m - 1], keys[m], o) ELSE f[m - 1]
  BY <1>1, <1>3 DEF After
<1>6. \A m \in 1..n : Current(keys[m]) => keys[m] \in S
  OBVIOUS
<1>7. \A x \in S : Current(x)
  OBVIOUS
<1> HIDE DEF S
<1>8. f[0].pending \in Seq(S)
  BY <1>4
<1>9. ASSUME NEW m \in 1..n, f[m - 1].pending \in Seq(S) PROVE f[m].pending \in Seq(S)
  <2>1. CASE ~Current(keys[m])
    BY <1>5, <1>9, <2>1
  <2>2. CASE Current(keys[m])
    <3>1. PICK a, k : a = f[m - 1].pending /\ k = keys[m]
      OBVIOUS
    <3>2. k \in S /\ a \in Seq(S)
      BY <1>6, <1>9, <2>2, <3>1
    <3>3. Append(a, k) \in Seq(S)
      BY <3>2
    <3>4. f[m].pending \in {a, Append(a, k)}
      <4>1. f[m] = Counted(f[m - 1], k, o)
        BY <1>5, <2>2, <3>1
      <4> QED
        BY <3>1, <4>1 DEF Counted
    <3> QED
      BY <3>2, <3>3, <3>4
  <2> QED
    BY <2>1, <2>2
<1> DEFINE Bad == {m \in 1..n : f[m].pending \notin Seq(S)}
<1>10. ASSUME Bad # {} PROVE FALSE
  <2>1. PICK m \in Bad : \A y \in Bad : m <= y
    BY <1>1, <1>10, LeastOf
  <2>2. m \in 1..n /\ (m - 1 = 0 \/ m - 1 \in 1..n) /\ m - 1 \notin Bad
    BY <1>1, <2>1
  <2>3. f[m - 1].pending \in Seq(S)
    BY <1>8, <2>2
  <2> QED
    BY <1>9, <2>1, <2>2, <2>3
<1>11. n = 0 \/ n \in 1..n
  BY <1>1
<1>12. f[n].pending \in Seq(S)
  BY <1>8, <1>10, <1>11
<1> QED
  BY <1>3, <1>7, <1>12

\* The reconcile batch retires, and coalesces what is current.
LEMMA ReconcileBatchPixels ==
  ASSUME DerivInv, DerivInv', PixelInv, ReconcileBatch
  PROVE  PixelInv'
<1>1. /\ UNCHANGED <<disk, cat, file, worker, served, deferred, audit>>
      /\ op.kind = "reconcile" /\ op.stage = "want" /\ Rows
  BY DEF ReconcileBatch, DerivInv
<1>2. op.sel = {} /\ op.gone = {} /\ op.drop = {} /\ Len(op.cands) \in Nat
  BY <1>1, StageFacts
<1>3. PICK done : done = Reconciled(Tx(NewLedger), op.cands, op.o)
  OBVIOUS
<1>4. PICK t, as : t = done.tx /\ as = CandidateAssets(op.cands)
  OBVIOUS
<1>5. PICK ps : ps = RetiredPaths(Tx(NoLedger), as)
  OBVIOUS
<1>6. row' = t.row /\ job' = t.job /\ op' = Committed(t, ps, done.pending)
  BY <1>3, <1>4, <1>5 DEF ReconcileBatch, Commit
<1>7. /\ \A x \in Key : TxStep(x, t)
      /\ \A x \in Key : ~Current(x) =>
           t.row[x] = Retire(Tx(NewLedger), as).row[x] /\ t.job[x] = Retire(Tx(NewLedger), as).job[x]
  <2>1. PICK tx : tx = Tx(NewLedger)
    OBVIOUS
  <2>2. Tables(tx) /\ tx.row = row /\ tx.job = job
    BY <1>1, <2>1, TxFacts
  <2> QED
    BY <1>1, <1>2, <1>3, <1>4, <2>1, <2>2, ReconciledFacts
<1>8. PICK drop, keys : /\ drop = {p \in ps : ~Referenced(t, p)} /\ keys = done.pending
                        /\ \/ op' = NoOp
                           \/ op' = [op EXCEPT !.stage = "discard", !.drop = drop, !.keys = keys]
                           \/ keys # <<>> /\ op' = [op EXCEPT !.stage = "reserve", !.keys = keys]
  BY <1>6 DEF Committed
<1>9. ASSUME NEW p \in drop
      PROVE  p[3] < cat'[p[1]].ident /\ row'[p].path = 0 /\ ~ActiveJob(job'[p])
  <2>1. PICK r : r = Retire(Tx(NewLedger), as)
    OBVIOUS
  <2>2. p \in RetiredPaths(Tx(NoLedger), as)
    BY <1>5, <1>8, <1>9
  <2>3. /\ p \in Key /\ p[3] < cat[p[1]].ident /\ ~Current(p)
        /\ r.row[p].path = 0 /\ ~ActiveJob(r.job[p])
    BY <2>1, <2>2, RetiredPixels
  <2>4. t.row[p] = r.row[p] /\ t.job[p] = r.job[p]
    BY <1>7, <2>1, <2>3
  <2> QED
    BY <1>1, <1>6, <2>3, <2>4
<1>10. \A p \in Key : p \in deferred => row'[p].path = 0 /\ ~ActiveJob(job'[p])
  <2>1. ASSUME NEW p \in Key, p \in deferred PROVE row'[p].path = 0 /\ ~ActiveJob(job'[p])
    <3>1. PICK r : r = Retire(Tx(NewLedger), as)
      OBVIOUS
    <3>2. p[3] < cat[p[1]].ident /\ row[p].path = 0 /\ ~ActiveJob(job[p])
      BY <2>1, OpRelies
    <3>3. ~Current(p)
      BY <3>2, OutdatedIsNotCurrent
    <3>4. r.row[p].path = 0 /\ ~ActiveJob(r.job[p])
      BY <1>1, <3>1, <3>2, RetireEnds
    <3> QED
      BY <1>6, <1>7, <3>1, <3>3, <3>4
  <2> QED
    BY <2>1
<1>11. /\ \E S : keys \in Seq(S)
       /\ \A p \in Key : p \in deferred \cup drop => p \notin ToSet(keys)
  <2>1. PICK S : keys \in Seq(S) /\ \A x \in S : Current(x)
    BY <1>2, <1>3, <1>8, PendingFacts
  <2>2. ToSet(keys) \subseteq S
    BY <2>1, Elements
  <2>3. ASSUME NEW p \in Key, p \in deferred \cup drop PROVE ~Current(p)
    <3>1. p[3] < cat[p[1]].ident
      BY <1>1, <1>9, <2>3, OpRelies
    <3> QED
      BY <3>1, OutdatedIsNotCurrent
  <2> QED
    BY <2>1, <2>2, <2>3
<1>12. Later
  BY <1>1, CalmWorld
<1>13. op'.sel = {} /\ OpPixels'
  <2>1. CASE op' = NoOp
    BY <1>1, <1>10, <1>12, <2>1, DonePixels DEF NoOp
  <2>2. CASE op' = [op EXCEPT !.stage = "discard", !.drop = drop, !.keys = keys]
    <3>1. op'.sel = {} /\ op'.gone = {} /\ op'.stage = "discard" /\ op'.drop = drop /\ op'.kind = "reconcile"
          /\ op'.keys = keys
      BY <1>1, <1>2, <2>2, StageFacts
    <3>2. KeysPixels'
      BY <1>11, <3>1 DEF KeysPixels
    <3>3. PutOffPixels'
      BY <1>1, <1>10, <1>11, <1>12, <3>1, <3>2, PutOffKept
    <3>4. HandPixels'
      BY <1>9, <3>1 DEF HandPixels
    <3> QED
      BY <3>1, <3>3, <3>4 DEF OpPixels
  <2>3. CASE keys # <<>> /\ op' = [op EXCEPT !.stage = "reserve", !.keys = keys]
    <3>1. op'.sel = {} /\ op'.gone = {} /\ op'.drop = {} /\ op'.kind = "reconcile" /\ op'.keys = keys
      BY <1>1, <1>2, <2>3, StageFacts
    <3>2. KeysPixels'
      BY <1>11, <2>3, <3>1 DEF KeysPixels
    <3>3. PutOffPixels'
      BY <1>1, <1>10, <1>11, <1>12, <3>1, <3>2, PutOffKept
    <3> QED
      BY <3>1, <3>3, FreshOpPixels
  <2> QED
    BY <1>8, <2>1, <2>2, <2>3
<1> QED
  BY <1>1, <1>2, <1>6, <1>7, <1>13, TxPixels

\* A file whose unlink was put off goes: nothing offers it.
LEMMA PutOffGoes ==
  ASSUME DerivInv, PixelInv, NEW k \in Key, k \in deferred, file'[k] \in {0, file[k]},
         \/ row'[k] = row[k]
         \/ row'[k].path = 0 /\ row'[k].st = "skipped",
         ~ActiveJob(job'[k]), MoreHistory
  PROVE  FileStep(k)
<1>1. row[k].path = 0
  BY OpRelies
<1>2. row[k].st = "ready" => k \in audit.misled
  BY <1>1 DEF PixelInv, RowPixels
<1> QED
  BY <1>1, <1>2 DEF FileStep, ActiveJob, MoreHistory

\* retire_superseded_derivatives: unlinks that were put off are of superseded files.
LEMMA RetireSupersededPixels ==
  ASSUME DerivInv, DerivInv', PixelInv, RetireSuperseded
  PROVE  PixelInv'
<1>1. /\ UNCHANGED <<disk, cat, worker, served, audit>> /\ op = NoOp /\ Rows /\ World
      /\ deferred' = deferred \cap served
      /\ file' = [p \in Key |-> IF p \in Finished(deferred \ served) THEN 0 ELSE file[p]]
  BY DEF RetireSuperseded, DerivInv
<1>2. PICK t : t = Retire(Tx(NoLedger), Assets)
  OBVIOUS
<1>3. PICK drop : drop = {p \in RetiredPaths(Tx(NoLedger), Assets) : ~Referenced(t, p)}
  OBVIOUS
<1>4. row' = t.row /\ job' = t.job
      /\ op' \in {NoOp, [NoOp EXCEPT !.kind = "retire", !.stage = "discard", !.drop = drop]}
  BY <1>2, <1>3 DEF RetireSuperseded, Commit
<1>5. \A x \in Key : TxStep(x, t)
  <2>1. PICK tx : tx = Tx(NoLedger)
    OBVIOUS
  <2>2. Tables(tx) /\ tx.row = row /\ tx.job = job
    BY <1>1, <2>1, TxFacts
  <2> QED
    BY <1>1, <1>2, <2>1, <2>2, RetireFacts
<1>6. ASSUME NEW p \in drop
      PROVE  p[3] < cat'[p[1]].ident /\ row'[p].path = 0 /\ ~ActiveJob(job'[p])
  <2>1. p \in RetiredPaths(Tx(NoLedger), Assets)
    BY <1>3, <1>6
  <2> QED
    BY <1>1, <1>2, <1>4, <2>1, RetiredPixels
<1>7. ASSUME NEW p \in Key, p \in deferred
      PROVE  /\ row'[p].path = 0 /\ ~ActiveJob(job'[p])
             /\ row'[p] = row[p] \/ (row'[p].path = 0 /\ row'[p].st = "skipped")
  <2>1. row[p].path = 0 /\ ~ActiveJob(job[p])
    BY <1>7, OpRelies
  <2> QED
    BY <1>1, <1>2, <1>4, <2>1, RetireEnds
<1>8. Later /\ MoreHistory
  BY <1>1, CalmWorld DEF MoreHistory
<1>9. op'.sel = {} /\ OpPixels'
  <2>1. deferred' \subseteq deferred
    BY <1>1
  <2>2. CASE op' = NoOp
    BY <1>7, <1>8, <2>1, <2>2, DonePixels DEF NoOp
  <2>3. CASE op' = [NoOp EXCEPT !.kind = "retire", !.stage = "discard", !.drop = drop]
    <3>1. op'.sel = {} /\ op'.gone = {} /\ op'.stage = "discard" /\ op'.drop = drop /\ op'.kind = "retire"
          /\ op'.keys = <<>>
      BY <2>3 DEF NoOp
    <3>2. <<>> \in Seq({}) /\ ToSet(<<>>) = {}
      BY DEF ToSet
    <3>3. KeysPixels'
      BY <3>1, <3>2 DEF KeysPixels
    <3>4. PutOffPixels'
      BY <1>7, <1>8, <2>1, <3>1, <3>2, <3>3, PutOffKept
    <3>5. HandPixels'
      BY <1>6, <3>1 DEF HandPixels
    <3> QED
      BY <3>1, <3>4, <3>5 DEF OpPixels
  <2> QED
    BY <1>4, <2>2, <2>3
<1>10. op.gone = {}
  BY <1>1 DEF NoOp
<1>11. ASSUME NEW k \in Key PROVE FileStep(k)
  <2>1. CASE k \notin Finished(deferred \ served)
    BY <1>1, <2>1 DEF FileStep
  <2>2. CASE k \in Finished(deferred \ served)
    <3>1. k \in deferred
      BY <2>2 DEF Finished
    <3>2. file'[k] = 0
      BY <1>1, <2>2
    <3> QED
      BY <1>7, <1>8, <3>1, <3>2, PutOffGoes
  <2> QED
    BY <2>1, <2>2
<1> QED
  BY <1>1, <1>4, <1>5, <1>9, <1>10, <1>11, TxFilesPixels

\* The catalog is repaired: a queued row whose job is over gets one, or is skipped.
LEMMA RepairPixels ==
  ASSUME DerivInv, DerivInv', PixelInv, Repair
  PROVE  PixelInv'
<1>1. UNCHANGED <<disk, cat, file, worker, served, deferred, op, audit>> /\ Rows /\ OpPixels
  BY DEF Repair, DerivInv, PixelInv
<1>2. PICK k \in Key : /\ row[k].st = "queued" /\ ~ActiveJob(job[k])
                       /\ row' = Repaired(Tx(NoLedger), k).row /\ job' = Repaired(Tx(NoLedger), k).job
  BY DEF Repair, Commit
<1>3. /\ row[k] \in Row /\ row \in [Key -> Row] /\ job \in [Key -> Job] /\ row[k].path = 0
      /\ Tx(NoLedger) = [row |-> row, job |-> job, lg |-> NoLedger, out |-> "none"]
  BY <1>1, <1>2 DEF Rows, KeyOK, Tx
<1>4. \/ /\ Inapplicable(k) # "none" /\ job' = job
         /\ row' = [row EXCEPT ![k] = [row[k] EXCEPT !.st = "skipped"]]
      \/ /\ Inapplicable(k) = "none" /\ row' = row
         /\ job' = [job EXCEPT ![k] = QueuedJob(3)]
  <2>1. CASE Inapplicable(k) # "none"
    BY <1>2, <1>3, <2>1 DEF Repaired
  <2>2. CASE Inapplicable(k) = "none"
    BY <1>2, <1>3, <2>2 DEF Repaired
  <2> QED
    BY <2>1, <2>2
<1>5. \A x \in Key : x # k => row'[x] = row[x] /\ job'[x] = job[x]
  BY <1>3, <1>4
<1>6. row'[k].path = 0 /\ row'[k].st # "ready" /\ job'[k].st # "running"
      /\ (ActiveJob(job'[k]) => cat[k[1]].ident = k[3])
  <2>1. QueuedJob(3).st = "queued"
    BY DEF QueuedJob, NoJob
  <2>2. Inapplicable(k) = "none" => cat[k[1]].ident = k[3]
    BY DEF Inapplicable
  <2>3. [row[k] EXCEPT !.st = "skipped"].st = "skipped" /\ [row[k] EXCEPT !.st = "skipped"].path = 0
    BY <1>3 DEF Row
  <2>4. CASE Inapplicable(k) # "none"
    BY <1>2, <1>3, <1>4, <2>3, <2>4 DEF ActiveJob
  <2>5. CASE Inapplicable(k) = "none"
    BY <1>2, <1>3, <1>4, <2>1, <2>2, <2>5
  <2> QED
    BY <2>4, <2>5
<1>7. Later /\ EvictCalm
  BY <1>1, CalmWorld DEF EvictCalm
<1>8. ASSUME NEW x \in Key PROVE KeyPixels(x)
  <2>1. CASE x # k
    BY <1>1, <1>5, <1>7, <2>1, CalmKey
  <2>2. CASE x = k
    BY <1>1, <1>6, <2>2 DEF KeyPixels, FileStep, PixelRowStep, EvictStep, RunStep
  <2> QED
    BY <2>1, <2>2
<1>9. PixelStep
  BY <1>1, <1>7, <1>8 DEF PixelStep, PixelInv, WorldPixels, MoreHistory
<1>10. OpPixels'
  <2>1. ASSUME NEW p \in Key, p \in op.drop \cup deferred PROVE row'[p].path = 0 /\ ~ActiveJob(job'[p])
    <3>1. p[3] < cat[p[1]].ident /\ row[p].path = 0 /\ ~ActiveJob(job[p])
      BY <2>1, OpRelies
    <3>2. p[3] \in Nat /\ cat[p[1]].ident \in Nat
      BY KeyFacts DEF DerivInv, World, Ident
    <3> QED
      BY <1>5, <1>6, <3>1, <3>2
  <2>2. op.kind # "clear"
    BY <1>1, <1>2, NoJobFacts DEF OpPixels, HandPixels
  <2> QED
    BY <1>1, <1>7, <2>1, <2>2, OpPixelsStay
<1> QED
  BY <1>1, <1>9, <1>10, AllRest, PixelsKept

-----------------------------------------------------------------------------
(* Eviction and the removal of files.                                      *)

\* After a reservation its caller has nothing in hand.
LEMMA ReservedPixels ==
  ASSUME DerivInv, DerivInv', PixelInv, Later, op.stage \in {"reserve", "unlinked"}, UNCHANGED deferred,
         \A p \in Key : p \in deferred => row'[p].path = 0 /\ ~ActiveJob(job'[p]),
         NEW fits, op' = Reserved(fits)
  PROVE  OpPixels' /\ op'.sel = {} /\ op'.gone = {}
<1>1. PICK keys : keys = Tail(op.keys)
  OBVIOUS
<1>2. \/ op' = NoOp
      \/ op.kind # "enforce" /\ op' = [op EXCEPT !.stage = "retry", !.sel = {}, !.gone = {}]
      \/ /\ op.kind # "enforce" /\ Len(op.keys) # 1
         /\ op' = [op EXCEPT !.stage = "reserve", !.keys = keys, !.sel = {}, !.gone = {}]
  BY <1>1 DEF Reserved
<1>3. op.drop = {} /\ op.kind # "clear"
  BY StageFacts
<1>4. CASE op' = NoOp
  BY <1>4, DonePixels DEF NoOp
<1>5. CASE op' # NoOp
  <2>1. op.keys # <<>>
    BY <1>2, <1>5, KeysFacts
  <2>2. /\ op'.sel = {} /\ op'.gone = {} /\ op'.drop = {} /\ op'.kind # "clear"
        /\ op'.keys = op.keys \/ (op'.keys = keys /\ Len(op.keys) # 1)
    <3>1. CASE op' = [op EXCEPT !.stage = "retry", !.sel = {}, !.gone = {}]
      BY <1>3, <3>1, StageFacts
    <3>2. CASE Len(op.keys) # 1 /\ op' = [op EXCEPT !.stage = "reserve", !.keys = keys, !.sel = {}, !.gone = {}]
      BY <1>3, <3>2, StageFacts
    <3> QED
      BY <1>2, <1>5, <3>1, <3>2
  <2>3. PICK ks : ks = op'.keys
    OBVIOUS
  <2>4. (\E S : ks \in Seq(S)) /\ ks # <<>> /\ ToSet(ks) \subseteq ToSet(op.keys)
    BY <1>1, <2>1, <2>2, <2>3, KeysFacts
  <2>5. KeysPixels'
    BY <2>3, <2>4 DEF KeysPixels
  <2>6. \A p \in Key : p \in deferred \cup op'.drop => p \notin ToSet(op'.keys)
    BY <2>2, <2>3, <2>4, KeysFacts
  <2>7. PutOffPixels'
    BY <2>5, <2>6, PutOffKept
  <2> QED
    BY <2>2, <2>7, FreshOpPixels
<1> QED
  BY <1>4, <1>5

\* Ready rows are committed as evicted before their files go.
LEMMA SelectAndEvictPixels ==
  ASSUME DerivInv, DerivInv', PixelInv, SelectAndEvict
  PROVE  PixelInv'
<1>1. UNCHANGED <<disk, cat, file, worker, served, deferred, audit>> /\ op.stage = "reserve" /\ Rows
  BY DEF SelectAndEvict, DerivInv
<1>2. op.sel = {} /\ op.gone = {} /\ op.drop = {} /\ op.kind # "clear"
  BY <1>1, StageFacts
<1>3. ASSUME UNCHANGED <<row, job>>, NEW fits, op' = Reserved(fits) PROVE PixelInv'
  <2>1. OpPixels' /\ op'.sel = {}
    BY <1>1, <1>3, CalmWorld, OpRelies, ReservedPixels
  <2> QED
    BY <1>1, <1>2, <1>3, <2>1, QuietPixels DEF EvictCalm, MoreHistory
<1>4. ASSUME NEW sel \in SUBSET Evictable, Commit(Evict(Tx(NoLedger), sel)),
             op' = [op EXCEPT !.stage = "evicted", !.sel = sel]
      PROVE  PixelInv'
  <2>1. /\ job' = job
        /\ row' = [k \in Key |-> IF k \in sel THEN [row[k] EXCEPT !.st = "evicted"] ELSE row[k]]
    BY <1>4 DEF Commit, Evict, Tx
  <2>2. op'.stage = "evicted" /\ op'.sel = sel /\ op'.gone = {} /\ op'.drop = {} /\ op'.kind # "clear"
    BY <1>2, <1>4, StageFacts
  <2>3. Later
    BY <1>1, CalmWorld
  <2>4. ASSUME NEW k \in Key PROVE KeyPixels(k)
    <3>1. CASE k \notin sel
      <4>1. row'[k] = row[k] /\ job'[k] = job[k]
        BY <2>1, <3>1
      <4> QED
        BY <1>1, <1>2, <2>2, <3>1, <4>1 DEF KeyPixels, FileStep, PixelRowStep, EvictStep, RunStep
    <3>2. CASE k \in sel
      <4>1. row[k].st = "ready" /\ row[k] \in Row
        BY <1>1, <1>4, <3>2 DEF Evictable, Rows
      <4>2. PICK r : r = [row[k] EXCEPT !.st = "evicted"]
        OBVIOUS
      <4>3. row'[k] = r /\ job'[k] = job[k]
        BY <2>1, <3>2, <4>2
      <4>4. r.st = "evicted" /\ r.path = row[k].path
        BY <4>1, <4>2 DEF Row
      <4> QED
        BY <1>1, <1>2, <2>2, <4>1, <4>3, <4>4 DEF KeyPixels, FileStep, PixelRowStep, EvictStep, RunStep
    <3> QED
      BY <3>1, <3>2
  <2>5. PixelStep
    BY <1>1, <2>3, <2>4 DEF PixelStep, PixelInv, WorldPixels, MoreHistory
  <2>6. OpPixels'
    <3>1. op'.keys = op.keys /\ op'.kind = op.kind
      BY <1>4, StageFacts
    <3>2. KeysPixels'
      BY <1>1, <2>2, <3>1, KeysFacts DEF KeysPixels
    <3>3. \A p \in Key : p \in deferred \cup op'.drop => p \notin ToSet(op'.keys)
      BY <2>2, <3>1, KeysFacts
    <3>4. ASSUME NEW p \in Key, p \in deferred PROVE row'[p].path = 0 /\ ~ActiveJob(job'[p])
      <4>1. row[p].path = 0 /\ ~ActiveJob(job[p])
        BY <3>4, OpRelies
      <4>2. p \notin sel
        BY <1>4, <4>1 DEF Evictable
      <4> QED
        BY <2>1, <4>1, <4>2
    <3>5. PutOffPixels'
      BY <1>1, <2>3, <3>2, <3>3, <3>4, PutOffKept
    <3>6. HandPixels'
      BY <1>4, <2>2 DEF HandPixels, Evictable
    <3> QED
      BY <3>5, <3>6 DEF OpPixels
  <2> QED
    BY <1>1, <2>5, <2>6, AllRest, PixelsKept
<1> QED
  BY <1>3, <1>4 DEF SelectAndEvict, db

\* Files of evicted rows are unlinked.
LEMMA UnlinkEvictedPixels ==
  ASSUME DerivInv, DerivInv', PixelInv, UnlinkEvicted
  PROVE  PixelInv'
<1>1. UNCHANGED <<disk, cat, row, job, worker, served, deferred, audit>> /\ op.stage = "evicted" /\ Rows /\ World
  BY DEF UnlinkEvicted, DerivInv, db
<1>2. PICK gone \in SUBSET op.sel :
        /\ file' = [p \in Key |-> IF \E k \in gone : PathOf(k, row[k].path) = p THEN 0 ELSE file[p]]
        /\ op' = [op EXCEPT !.stage = "unlinked", !.gone = gone]
  <2>1. \A kept \in SUBSET op.sel : op.sel \ kept \in SUBSET op.sel
    OBVIOUS
  <2> QED
    BY <2>1 DEF UnlinkEvicted
<1>3. op.gone = {} /\ op.drop = {} /\ op.kind # "clear"
  BY <1>1, StageFacts DEF PixelInv, OpPixels, HandPixels
<1>4. op'.stage = "unlinked" /\ op'.sel = op.sel /\ op'.gone = gone /\ op'.drop = {} /\ op'.kind # "clear"
  BY <1>2, <1>3, StageFacts
<1>5. OpPixels'
  <2>1. op'.keys = op.keys /\ op'.kind = op.kind
    BY <1>2, StageFacts
  <2>2. KeysPixels'
    BY <1>1, <1>4, <2>1, KeysFacts DEF KeysPixels
  <2>3. \A p \in Key : p \in deferred \cup op'.drop => p \notin ToSet(op'.keys)
    BY <1>4, <2>1, KeysFacts
  <2>4. PutOffPixels'
    BY <1>1, <2>2, <2>3, CalmWorld, OpRelies, PutOffKept
  <2>5. HandPixels'
    BY <1>2, <1>4 DEF OpPixels, HandPixels, PixelInv
  <2> QED
    BY <2>4, <2>5 DEF OpPixels
<1>6. ASSUME NEW p \in Key PROVE KeyPixels(p)
  <2>1. FileStep(p)
    <3>1. CASE ~\E k \in gone : PathOf(k, row[k].path) = p
      BY <1>2, <3>1 DEF FileStep
    <3>2. CASE \E k \in gone : PathOf(k, row[k].path) = p
      <4>1. PICK k \in gone : <<k[1], k[2], row[k].path>> = p
        BY <3>2 DEF PathOf
      <4>2. file'[p] = 0
        BY <1>2, <3>2
      <4>3. p = k /\ row[p].path # 0
        <5>1. k \in Key /\ p[3] = row[k].path
          BY <1>2, <4>1 DEF PixelInv, OpPixels, HandPixels
        <5>2. p[3] # 0 /\ k = <<k[1], k[2], k[3]>>
          BY <5>1, KeyFacts
        <5>3. row[k].path = k[3]
          BY <5>1, <5>2 DEF PixelInv, RowPixels
        <5> QED
          BY <4>1, <5>2, <5>3
      <4>4. job[p].st # "running"
        BY <1>1, <4>3 DEF Rows, KeyOK, ActiveJob
      <4>5. row[p].st = "ready" => p \in audit.misled
        BY <1>2, <4>1, <4>3 DEF PixelInv, RowPixels
      <4> QED
        BY <1>1, <1>4, <4>1, <4>2, <4>3, <4>4, <4>5 DEF FileStep
    <3> QED
      BY <3>1, <3>2
  <2> QED
    BY <1>1, <1>3, <1>4, <2>1 DEF KeyPixels, PixelRowStep, EvictStep, RunStep
<1>7. PixelStep
  BY <1>1, <1>6, CalmWorld DEF PixelStep, PixelInv, WorldPixels, MoreHistory
<1> QED
  BY <1>1, <1>5, <1>7, AllRest, PixelsKept

\* The rows follow: without a file, or offered again when the unlink failed.
LEMMA FinalizePixels ==
  ASSUME DerivInv, DerivInv', PixelInv, FinalizeAndVerify
  PROVE  PixelInv'
<1>1. UNCHANGED <<disk, cat, file, worker, served, deferred, audit>> /\ op.stage = "unlinked" /\ Rows /\ OpOK
  BY DEF FinalizeAndVerify, DerivInv
<1>2. /\ job' = job
      /\ row' = [k \in Key |-> IF k \in op.sel /\ row[k].st = "evicted"
                               THEN IF k \in op.gone THEN [row[k] EXCEPT !.path = 0]
                                                     ELSE [row[k] EXCEPT !.st = "ready"]
                               ELSE row[k]]
  BY DEF FinalizeAndVerify, Commit, FinalizeEviction, Tx
<1>3. OpPixels' /\ op'.sel = {} /\ op'.gone = {}
  <2>1. ASSUME NEW p \in Key, p \in deferred PROVE row'[p].path = 0 /\ ~ActiveJob(job'[p])
    <3>1. row[p].path = 0 /\ ~ActiveJob(job[p]) /\ row[p] \in Row
      BY <1>1, <2>1, OpRelies DEF Rows
    <3>2. ~(p \in op.sel /\ row[p].st = "evicted")
      BY <1>1, <3>1 DEF OpOK
    <3> QED
      BY <1>2, <3>1, <3>2
  <2> QED
    BY <1>1, <2>1, CalmWorld, ReservedPixels DEF FinalizeAndVerify
<1>4. ASSUME NEW k \in Key PROVE KeyPixels(k)
  <2>1. row[k] \in Row /\ KeyOK(k) /\ RowPixels(k) /\ (k \in op.gone => k \in op.sel)
    BY <1>1 DEF Rows, PixelInv, OpPixels, HandPixels
  <2>2. CASE ~(k \in op.sel /\ row[k].st = "evicted")
    <3>1. row'[k] = row[k]
      BY <1>2, <2>2
    <3>2. k \in op.gone => k \in audit.misled \/ row[k].path = 0
      BY <2>1, <2>2 DEF KeyOK, RowPixels
    <3> QED
      BY <1>1, <1>2, <1>3, <3>1, <3>2 DEF KeyPixels, FileStep, PixelRowStep, EvictStep, RunStep
  <2>3. CASE k \in op.sel /\ row[k].st = "evicted" /\ k \in op.gone
    <3>1. PICK r : r = [row[k] EXCEPT !.path = 0]
      OBVIOUS
    <3>2. row'[k] = r
      BY <1>2, <2>3, <3>1
    <3>3. r.st = "evicted" /\ r.path = 0
      BY <2>1, <2>3, <3>1 DEF Row
    <3> QED
      BY <1>1, <1>2, <1>3, <3>2, <3>3 DEF KeyPixels, FileStep, PixelRowStep, EvictStep, RunStep
  <2>4. CASE k \in op.sel /\ row[k].st = "evicted" /\ k \notin op.gone
    <3>1. PICK r : r = [row[k] EXCEPT !.st = "ready"]
      OBVIOUS
    <3>2. row'[k] = r
      BY <1>2, <2>4, <3>1
    <3>3. r.st = "ready" /\ r.path = row[k].path
      BY <2>1, <3>1 DEF Row
    <3>4. k \in audit.misled \/ (row[k].path # 0 /\ file[k] # 0)
      BY <1>1, <2>1, <2>4 DEF OpOK, RowPixels
    <3>5. OfferedAgain(k)
      BY <1>1, <1>3, <3>2, <3>3, <3>4 DEF OfferedAgain
    <3> QED
      BY <1>1, <1>2, <1>3, <2>4, <3>5 DEF KeyPixels, FileStep, PixelRowStep, EvictStep, RunStep
  <2> QED
    BY <2>2, <2>3, <2>4
<1>5. PixelStep
  BY <1>1, <1>4, CalmWorld DEF PixelStep, PixelInv, WorldPixels, MoreHistory
<1> QED
  BY <1>1, <1>3, <1>5, AllRest, PixelsKept

\* A retired file is discarded, or put off: nothing brings its row or its job back.
LEMMA DiscardOnePixels ==
  ASSUME DerivInv, DerivInv', PixelInv, DiscardOne
  PROVE  PixelInv'
<1>1. UNCHANGED <<disk, cat, row, job, worker, served, audit>> /\ op.stage = "discard" /\ World
      /\ HandPixels /\ PutOffPixels
  BY DEF DiscardOne, DerivInv, db, PixelInv, OpPixels
<1>2. PICK p \in op.drop :
       /\ deferred' = IF PutOff(p) THEN deferred \cup {p} ELSE deferred
       /\ file' = IF p \in served \cup generating THEN file ELSE [file EXCEPT ![p] = 0]
       /\ op' = IF op.drop # {p} THEN [op EXCEPT !.drop = op.drop \ {p}]
                ELSE IF op.keys = <<>> THEN NoOp
                ELSE [op EXCEPT !.drop = {}, !.stage = "reserve"]
  BY DEF DiscardOne
<1>3. deferred' \subseteq deferred \cup {p} /\ p \in Key
  BY <1>2 DEF DerivInv, OpOK
<1>4. op.sel = {} /\ op.gone = {} /\ op.kind # "clear" /\ op.drop \subseteq Key
  BY <1>1, StageFacts DEF DerivInv, OpOK
<1>5. /\ op'.sel = {} /\ op'.gone = {} /\ op'.kind # "clear"
      /\ op'.drop = op.drop \ {p} /\ (op'.drop = {} \/ op'.stage = "discard")
      /\ op'.keys = op.keys
      /\ op'.kind \in {op.kind, "none"} /\ op'.stage \in {"discard", "none", "reserve"}
      /\ op'.stage = "reserve" => op.keys # <<>>
  <2>1. PICK drop : drop = op.drop \ {p}
    OBVIOUS
  <2>2. CASE op' = [op EXCEPT !.drop = drop] /\ op.drop # {p}
    BY <1>1, <1>4, <2>1, <2>2, StageFacts
  <2>3. CASE op' = NoOp /\ op.keys = <<>> /\ op.drop = {p}
    BY <2>3 DEF NoOp
  <2>4. CASE op' = [op EXCEPT !.drop = {}, !.stage = "reserve"] /\ op.keys # <<>> /\ op.drop = {p}
    BY <1>4, <2>4, StageFacts
  <2> QED
    BY <1>2, <2>1, <2>2, <2>3, <2>4
<1>6. OpPixels'
  <2>1. HandPixels'
    BY <1>1, <1>4, <1>5 DEF HandPixels
  <2>2. KeysPixels'
    BY <1>1, <1>5 DEF PutOffPixels, KeysPixels
  <2>3. \A x \in Key : x \in deferred' => Outdated(x)'
    BY <1>1, <1>2, <1>3 DEF HandPixels, PutOffPixels, Outdated
  <2>4. \A x \in Key : x \in deferred' \cup op'.drop => x \notin ToSet(op'.keys)
    BY <1>1, <1>2, <1>3, <1>5 DEF PutOffPixels
  <2> QED
    BY <2>1, <2>2, <2>3, <2>4 DEF OpPixels, PutOffPixels
<1>7. ASSUME NEW k \in Key PROVE KeyPixels(k)
  <2>1. FileStep(k)
    <3>1. CASE file'[k] = file[k]
      BY <3>1 DEF FileStep
    <3>2. CASE file'[k] # file[k]
      <4>1. k = p /\ file'[k] = 0
        BY <1>1, <1>2, <3>2 DEF World
      <4>2. row[k].path = 0 /\ ~ActiveJob(job[k])
        BY <1>1, <1>2, <4>1 DEF HandPixels
      <4>3. row[k].st = "ready" => k \in audit.misled
        BY <4>2 DEF PixelInv, RowPixels
      <4> QED
        BY <1>1, <4>1, <4>2, <4>3 DEF FileStep, ActiveJob
    <3> QED
      BY <3>1, <3>2
  <2> QED
    BY <1>1, <1>4, <1>5, <2>1 DEF KeyPixels, PixelRowStep, EvictStep, RunStep
<1>8. PixelStep
  BY <1>1, <1>7, CalmWorld DEF PixelStep, MoreHistory
<1> QED
  BY <1>1, <1>6, <1>8, AllRest, PixelsKept

\* The files of a clear go, when there are no rows.
LEMMA ClearFilesPixels ==
  ASSUME DerivInv, DerivInv', PixelInv, ClearFiles
  PROVE  PixelInv'
<1>1. /\ UNCHANGED <<disk, cat, row, job, worker, served, deferred, audit>> /\ op.kind = "clear" /\ op' = NoOp
      /\ file' = [p \in Key |-> IF p \in served \cup generating THEN file[p] ELSE 0] /\ OpPixels
  BY DEF ClearFiles, db, PixelInv
<1>2. op'.sel = {} /\ op'.gone = {} /\ op'.drop = {} /\ op'.kind # "clear"
  BY <1>1 DEF NoOp
<1>3. OpPixels' /\ op.gone = {}
  BY <1>1, CalmWorld, OpRelies, DonePixels DEF OpPixels, HandPixels
<1>4. ASSUME NEW k \in Key PROVE KeyPixels(k)
  <2>1. row[k] = NoRow /\ job[k] = NoJob
    BY <1>1 DEF OpPixels, HandPixels
  <2>2. row'[k].path = 0 /\ row'[k].st # "ready" /\ job'[k].st # "running"
    BY <1>1, <2>1, NoJobFacts
  <2>3. FileStep(k)
    BY <1>1, <2>2 DEF FileStep
  <2> QED
    BY <1>1, <1>2, <1>3, <2>3 DEF KeyPixels, PixelRowStep, EvictStep, RunStep
<1>5. PixelStep
  BY <1>1, <1>4, CalmWorld DEF PixelStep, PixelInv, WorldPixels, MoreHistory
<1> QED
  BY <1>1, <1>3, <1>5, AllRest, PixelsKept

\* The rows of a clear go.
LEMMA ClearRowsPixels ==
  ASSUME DerivInv, DerivInv', PixelInv, ClearRows
  PROVE  PixelInv'
<1>1. /\ UNCHANGED <<disk, file, worker, served, deferred, audit>> /\ op = NoOp /\ World
      /\ row' = [k \in Key |-> NoRow] /\ job' = [k \in Key |-> NoJob]
      /\ op' = [NoOp EXCEPT !.kind = "clear", !.stage = "want"]
      /\ cat' = [a \in Assets |-> [cat[a] EXCEPT !.active = FALSE]]
  BY DEF ClearRows, Quiet, DerivInv
<1>2. op'.kind = "clear" /\ op'.stage = "want" /\ op'.sel = {} /\ op'.gone = {} /\ op'.drop = {}
      /\ op.gone = {} /\ op'.keys = <<>>
  BY <1>1 DEF NoOp
<1>3. HandPixels'
  BY <1>1, <1>2 DEF HandPixels
<1>4. Later
  <2>1. ASSUME NEW a \in Assets
        PROVE  /\ disk[a] \in Nat /\ cat[a].ident \in Nat /\ cat'[a].ident = cat[a].ident
               /\ Reached(a, cat[a].ident)
    <3>1. cat[a] \in [ident : Ident, active : BOOLEAN] /\ disk[a] \in Nat
      BY <1>1, DerivativeAssumption DEF World
    <3>2. PICK c : c = [cat[a] EXCEPT !.active = FALSE]
      OBVIOUS
    <3>3. c.ident = cat[a].ident
      BY <3>1, <3>2
    <3> QED
      BY <1>1, <3>1, <3>2, <3>3 DEF PixelInv, WorldPixels, Ident
  <2> QED
    BY <1>1, <2>1 DEF Later, Reached
<1>5. ASSUME NEW k \in Key PROVE KeyPixels(k)
  <2>1. row'[k].path = 0 /\ row'[k].st # "ready" /\ job'[k].st # "running"
    BY <1>1, NoJobFacts
  <2> QED
    BY <1>1, <1>2, <2>1 DEF KeyPixels, FileStep, PixelRowStep, EvictStep, RunStep
<1>6. PixelStep
  BY <1>1, <1>4, <1>5 DEF PixelStep, PixelInv, WorldPixels, MoreHistory
<1>7. PutOffPixels'
  <2>1. <<>> \in Seq({}) /\ ToSet(<<>>) = {}
    BY DEF ToSet
  <2>2. KeysPixels'
    BY <1>2, <2>1 DEF KeysPixels
  <2>3. \A p \in Key : row'[p].path = 0 /\ ~ActiveJob(job'[p])
    BY <1>1, NoJobFacts DEF NoRow, NoJob, ActiveJob
  <2> QED
    BY <1>1, <1>2, <1>4, <2>1, <2>2, <2>3, PutOffKept
<1>8. OpPixels'
  BY <1>3, <1>7 DEF OpPixels
<1> QED
  BY <1>1, <1>6, <1>8, AllRest, PixelsKept

-----------------------------------------------------------------------------
(* The world, the sweeps and the integrity pass.                           *)

\* A source file is rewritten or removed.
LEMMA SourceChangePixels ==
  ASSUME DerivInv, DerivInv', PixelInv, ~Restores, SourceChange
  PROVE  PixelInv'
<1>1. UNCHANGED <<cat, row, job, file, worker, served, deferred, op, audit>> /\ World
  BY DEF SourceChange, db, DerivInv
<1>2. PICK a \in Assets, i \in 0..MaxIdent :
        disk' = [disk EXCEPT ![a] = i] /\ (i = 0 \/ (i > disk[a] /\ disk[a] # 0))
  BY DEF SourceChange
<1>3. Later
  <2>1. ASSUME NEW b \in Assets
        PROVE  /\ disk[b] \in Nat /\ disk'[b] \in Nat /\ cat[b].ident \in Nat
               /\ disk'[b] = 0 \/ (disk[b] # 0 /\ disk[b] <= disk'[b])
               /\ Reached(b, cat[b].ident)
    <3>1. disk[b] \in Nat /\ disk[a] \in Nat /\ i \in Nat /\ cat[b].ident \in Nat
      BY <1>1, DerivativeAssumption DEF World, Ident
    <3>2. disk'[b] = IF b = a THEN i ELSE disk[b]
      BY <1>1, <1>2 DEF World
    <3> QED
      BY <1>2, <3>1, <3>2 DEF PixelInv, WorldPixels
  <2> QED
    BY <1>1, <2>1 DEF Later, Reached
<1>4. \A k \in Key : KeyPixels(k)
  BY <1>1, CalmKey DEF EvictCalm
<1>5. PixelStep
  BY <1>1, <1>3, <1>4 DEF PixelStep, PixelInv, WorldPixels, MoreHistory
<1>6. OpPixels'
  BY <1>1, <1>3, OpPixelsRest
<1> QED
  BY <1>1, <1>5, <1>6, AllRest, PixelsKept

\* A scan sees what the disk has, which is no older.
LEMMA CatalogScanPixels ==
  ASSUME DerivInv, DerivInv', PixelInv, CatalogScan
  PROVE  PixelInv'
<1>1. UNCHANGED <<disk, row, job, file, worker, served, deferred, op, audit>> /\ World
  BY DEF CatalogScan, db, DerivInv
<1>2. PICK a \in Assets : cat' = [cat EXCEPT ![a] = IF disk[a] = 0 THEN [cat[a] EXCEPT !.active = FALSE]
                                                    ELSE [ident |-> disk[a], active |-> TRUE]]
  BY DEF CatalogScan
<1>3. Later
  <2>1. ASSUME NEW b \in Assets
        PROVE  /\ disk[b] \in Nat /\ cat[b].ident \in Nat /\ cat'[b].ident \in Nat
               /\ cat'[b].ident = cat[b].ident \/ (b = a /\ disk[b] # 0 /\ cat'[b].ident = disk[b])
               /\ Reached(b, cat[b].ident)
    <3>1. cat[b] \in [ident : Ident, active : BOOLEAN] /\ disk[b] \in Nat /\ cat'[b].ident \in Nat
      BY <1>1, DerivativeAssumption DEF DerivInv, World, Ident
    <3>2. PICK c : c = [cat[b] EXCEPT !.active = FALSE]
      OBVIOUS
    <3>3. c.ident = cat[b].ident
      BY <3>1, <3>2
    <3>4. cat'[b] = IF b # a THEN cat[b] ELSE IF disk[b] = 0 THEN c ELSE [ident |-> disk[b], active |-> TRUE]
      BY <1>1, <1>2, <3>2 DEF World
    <3>5. Reached(b, cat[b].ident)
      BY DEF PixelInv, WorldPixels
    <3>6. cat[b].ident \in Nat
      BY <3>1 DEF Ident
    <3> QED
      BY <3>1, <3>3, <3>4, <3>5, <3>6
  <2> QED
    BY <1>1, <2>1 DEF Later, Reached
<1>4. \A k \in Key : KeyPixels(k)
  BY <1>1, CalmKey DEF EvictCalm
<1>5. PixelStep
  BY <1>1, <1>3, <1>4 DEF PixelStep, PixelInv, WorldPixels, MoreHistory
<1>6. OpPixels'
  BY <1>1, <1>3, OpPixelsRest
<1> QED
  BY <1>1, <1>5, <1>6, AllRest, PixelsKept

\* The sweeps and the integrity pass read.
LEMMA ReadsPixels ==
  ASSUME DerivInv, DerivInv', PixelInv, SweepRead \/ RecoverRead \/ AuditRead
  PROVE  PixelInv'
<1>1. UNCHANGED <<disk, cat, row, job, file, worker, served, deferred, op>>
  BY DEF SweepRead, RecoverRead, AuditRead, db
<1>2. MoreHistory
  <2>1. CASE SweepRead \/ RecoverRead
    BY <2>1 DEF SweepRead, RecoverRead, MoreHistory
  <2>2. CASE AuditRead
    <3>1. PICK ready, done : audit' = [audit EXCEPT !.stage = "ready", !.ready = ready, !.done = done]
      BY <2>2 DEF AuditRead
    <3>2. audit = [stage |-> audit.stage, ready |-> audit.ready, done |-> audit.done,
                   misled |-> audit.misled, torn |-> audit.torn]
      BY DEF DerivInv, AuditOK
    <3>3. audit' = [stage |-> "ready", ready |-> ready, done |-> done,
                    misled |-> audit.misled, torn |-> audit.torn]
      BY <3>1, <3>2
    <3> QED
      BY <3>3 DEF MoreHistory
  <2> QED
    BY <2>1, <2>2
<1>3. EvictCalm /\ Later
  BY <1>1, CalmWorld DEF EvictCalm
<1>4. OpPixels'
  BY <1>1, <1>3, OpPixelsRest
<1> QED
  BY <1>1, <1>2, <1>3, <1>4, QuietPixels

\* A step that keeps the files, the catalog and the caller, and changes rows as
\* the caller allows.
LEMMA RowsPixels ==
  ASSUME DerivInv, DerivInv', PixelInv, UNCHANGED <<disk, cat, file, worker, served, deferred, op>>,
         MoreHistory,
         \A k \in Key : PixelRowStep(k) /\ RunStep(k),
         \A k \in Key : k \in op.drop \cup deferred => row'[k].path = 0 /\ ~ActiveJob(job'[k]),
         \A k \in Key : row[k] = NoRow /\ job[k] = NoJob => row'[k] = row[k] /\ job'[k] = job[k],
         \A k \in Key : k \in op.sel => row'[k].st # "evicted" \/ row[k].st = "evicted"
  PROVE  PixelInv'
<1>1. Later
  BY CalmWorld
<1>2. \A k \in Key : KeyPixels(k)
  BY DEF KeyPixels, FileStep, EvictStep
<1>3. PixelStep
  BY <1>1, <1>2 DEF PixelStep, PixelInv, WorldPixels
<1>4. OpPixels'
  BY <1>1, OpPixelsStay DEF PixelInv, OpPixels, HandPixels
<1> QED
  BY <1>3, <1>4, AllRest, PixelsKept

\* The integrity pass writes the rows whose file was gone.
LEMMA AuditReadyPixels ==
  ASSUME DerivInv, DerivInv', PixelInv, AuditReady
  PROVE  PixelInv'
<1>1. UNCHANGED <<disk, cat, file, worker, served, deferred, op>> /\ World /\ AuditOK /\ OpPixels /\ Rows
  BY DEF AuditReady, DerivInv, PixelInv
<1>2. PICK due :
        /\ \A k \in due : row[k].st # "absent"
        /\ row' = [k \in Key |-> IF k \notin due THEN row[k]
                                ELSE [st |-> IF Applicable(k) THEN "queued" ELSE "skipped", path |-> 0]]
        /\ job' = [k \in Key |-> IF k \in due THEN AuditedJob(job[k], k) ELSE job[k]]
  BY DEF AuditReady
<1>3. audit' = [stage |-> "done", ready |-> <<>>, done |-> audit.done,
                misled |-> audit.misled, torn |-> audit.torn]
  BY <1>1 DEF AuditReady, AuditOK
<1>4. ASSUME NEW k \in Key, k \in due
      PROVE  /\ row'[k].path = 0 /\ row'[k].st # "ready" /\ row'[k].st # "evicted"
             /\ job'[k] = job[k] \/ job'[k].st # "running"
             /\ ~ActiveJob(job[k]) /\ ActiveJob(job'[k]) => disk[k[1]] = k[3]
  <2>1. job'[k] = AuditedJob(job[k], k) /\ job[k] \in Job
        /\ row'[k] = [st |-> IF Applicable(k) THEN "queued" ELSE "skipped", path |-> 0]
    BY <1>1, <1>2, <1>4 DEF Rows
  <2>2. Ended(job[k], "skipped", AuditCode(k)).st = "skipped" /\ QueuedJob(3).st = "queued"
    BY <2>1 DEF Ended, Job, QueuedJob, NoJob
  <2>3. \/ AuditedJob(job[k], k) = job[k]
        \/ AuditedJob(job[k], k).st = "skipped"
        \/ AuditedJob(job[k], k).st = "queued" /\ Applicable(k)
    BY <2>2 DEF AuditedJob
  <2> QED
    BY <2>1, <2>3 DEF Applicable, ActiveJob
<1>5. \A k \in Key : k \notin due => row'[k] = row[k] /\ job'[k] = job[k]
  BY <1>2
<1>6. ASSUME NEW k \in Key, k \in op.drop \cup deferred PROVE row'[k].path = 0 /\ ~ActiveJob(job'[k])
  <2>1. row[k].path = 0 /\ ~ActiveJob(job[k]) /\ disk[k[1]] # k[3]
    BY <1>6, OpRelies, PutOffIsOld
  <2> QED
    BY <1>4, <1>5, <2>1
<1>7. \A k \in Key : row[k] = NoRow => k \notin due
  BY <1>2, NoJobFacts
<1>8. \A k \in Key : PixelRowStep(k) /\ RunStep(k)
  BY <1>4, <1>5 DEF PixelRowStep, RunStep
<1>9. \A k \in Key : row'[k].st # "evicted" \/ row[k].st = "evicted"
  BY <1>4, <1>5
<1>10. MoreHistory
  BY <1>3 DEF MoreHistory
<1> QED
  BY <1>1, <1>5, <1>6, <1>7, <1>8, <1>9, <1>10, RowsPixels

\* The integrity pass writes the done jobs whose row was not ready.
LEMMA AuditDonePixels ==
  ASSUME DerivInv, DerivInv', PixelInv, AuditDone
  PROVE  PixelInv'
<1>1. UNCHANGED <<disk, cat, file, worker, served, deferred, op>> /\ AuditOK /\ OpPixels /\ Rows
  BY DEF AuditDone, DerivInv, PixelInv
<1>2. PICK there : there = {k \in DOMAIN audit.done : audit.done[k]}
  OBVIOUS
<1>3. PICK gone : gone = {k \in DOMAIN audit.done \ there : job[k].st = "done"}
  OBVIOUS
<1>4. /\ \A k \in gone : job[k].st = "done"
      /\ row' = [k \in Key |-> IF k \in there /\ row[k].st # "absent"
                               THEN [row[k] EXCEPT !.st = "ready"] ELSE row[k]]
      /\ job' = [k \in Key |-> IF k \in gone THEN [job[k] EXCEPT !.st = "failed", !.rc = "internal_error"]
                               ELSE job[k]]
      /\ audit' = [AuditOver EXCEPT !.misled =
           audit.misled \cup {k \in there : k \in op.sel \/ ~HasFile(k, row[k])}]
  BY <1>2, <1>3 DEF AuditDone
<1>5. audit' = [stage |-> "none", ready |-> <<>>, done |-> <<>>,
                misled |-> audit.misled \cup {k \in there : k \in op.sel \/ ~HasFile(k, row[k])},
                torn |-> audit.torn]
  BY <1>4 DEF AuditOver, NoAudit
<1>6. ASSUME NEW k \in Key
      PROVE  /\ job'[k] = job[k] \/ (job[k].st = "done" /\ job'[k].st = "failed")
             /\ row'[k] = row[k] \/ (row[k].st # "absent" /\ OfferedAgain(k))
  <2>1. row[k] \in Row /\ job[k] \in Job /\ RowPixels(k)
    BY <1>1 DEF Rows, PixelInv
  <2>2. job'[k] = job[k] \/ (job[k].st = "done" /\ job'[k].st = "failed")
    <3>1. [job[k] EXCEPT !.st = "failed", !.rc = "internal_error"].st = "failed"
      BY <2>1 DEF Job
    <3> QED
      BY <1>4, <3>1
  <2>3. CASE ~(k \in there /\ row[k].st # "absent")
    BY <1>4, <2>2, <2>3
  <2>4. CASE k \in there /\ row[k].st # "absent"
    <3>1. PICK r : r = [row[k] EXCEPT !.st = "ready"]
      OBVIOUS
    <3>2. row'[k] = r /\ r.st = "ready" /\ r.path = row[k].path
      BY <1>4, <2>1, <2>4, <3>1 DEF Row
    <3>3. k \in audit'.misled \/ (k \notin op.sel /\ HasFile(k, row[k]))
      BY <1>5, <2>4
    <3>4. HasFile(k, row[k]) => row[k].path # 0 /\ file[k] # 0
      BY <2>1, KeyFacts DEF HasFile, RowPixels
    <3>5. OfferedAgain(k)
      BY <1>1, <3>2, <3>3, <3>4 DEF OfferedAgain
    <3> QED
      BY <2>2, <2>4, <3>5
  <2> QED
    BY <2>3, <2>4
<1>7. ASSUME NEW k \in Key, k \in op.drop \cup deferred PROVE row'[k].path = 0 /\ ~ActiveJob(job'[k])
  <2>1. row[k].path = 0 /\ ~ActiveJob(job[k])
    BY <1>7, OpRelies
  <2> QED
    BY <1>6, <2>1 DEF OfferedAgain, ActiveJob
<1>8. \A k \in Key : PixelRowStep(k) /\ RunStep(k)
  BY <1>6 DEF PixelRowStep, RunStep
<1>9. \A k \in Key : row'[k].st # "evicted" \/ row[k].st = "evicted"
  BY <1>6 DEF OfferedAgain
<1>10. \A k \in Key : row[k] = NoRow /\ job[k] = NoJob => row'[k] = row[k] /\ job'[k] = job[k]
  BY <1>6, NoJobFacts
<1>11. MoreHistory
  BY <1>5 DEF MoreHistory
<1> QED
  BY <1>1, <1>7, <1>8, <1>9, <1>10, <1>11, RowsPixels

\* Idle workers have seen and produced nothing.
LEMMA IdlePixels ==
  ASSUME NEW r, r = Idle
  PROVE  /\ Has(r) = {} /\ r.cur = <<>> /\ ToSet(r.cur) = {}
         /\ r.pc \notin {"claimed", "checked", "stated", "pathed"}
BY DEF Idle, Has, ToSet

\* The process ends and starts again.
LEMMA RestartPixels ==
  ASSUME DerivInv, DerivInv', PixelInv, Restart
  PROVE  PixelInv'
<1>1. Rows
  BY DEF DerivInv
<1>2. PICK ends : ends = [k \in Stale \cup {r \in Key : job[r].st = "running"} |->
                            IF k \in Stale THEN <<"skipped", SweepCode(k)>> ELSE RecoveryOf(k)]
  OBVIOUS
<1>3. PICK t : t = SetEnds(Tx(NoLedger), ends)
  OBVIOUS
<1>4. /\ row' = t.row /\ job' = t.job /\ worker' = [w \in Workers |-> Idle]
      /\ served' = {} /\ deferred' = {} /\ op' = NoOp
      /\ audit' = [AuditOver EXCEPT !.torn = @ \cup op.gone]
      /\ UNCHANGED <<disk, cat, file>>
  BY <1>2, <1>3 DEF Restart, Commit, RestartedRows
<1>5. audit' = [stage |-> "none", ready |-> <<>>, done |-> <<>>,
                misled |-> audit.misled, torn |-> audit.torn \cup op.gone]
  BY <1>4 DEF AuditOver, NoAudit
<1>6. EndsOK(ends)
  <2>1. ASSUME NEW k \in Key, k \in DOMAIN ends
        PROVE  /\ ends[k] \in {"queued", "failed", "skipped"} \X ResultCodes /\ ActiveJob(job[k])
               /\ ends[k][1] = "queued" => job[k].st = "running" /\ job[k].attempts < MaxAttempts
    <3>1. CASE k \in Stale
      <4>1. ends[k] = <<"skipped", SweepCode(k)>> /\ job[k].st = "queued"
        BY <1>2, <2>1, <3>1 DEF Stale
      <4>2. SweepCode(k) \in ResultCodes
        BY DEF SweepCode, ResultCodes
      <4> QED
        BY <4>1, <4>2 DEF ActiveJob
    <3>2. CASE k \notin Stale
      <4>1. ends[k] = RecoveryOf(k) /\ job[k].st = "running"
        BY <1>2, <2>1, <3>2
      <4> QED
        BY <1>1, <4>1, RecoveryFacts DEF ActiveJob
    <3> QED
      BY <3>1, <3>2
  <2> QED
    BY <2>1 DEF EndsOK
<1>7. \A k \in Key : TxStep(k, t)
  BY <1>1, <1>3, <1>6, SetEndsFacts
<1>8. op'.sel = {} /\ op'.gone = {} /\ op'.drop = {} /\ op'.kind # "clear"
  BY <1>4 DEF NoOp
<1>9. ASSUME NEW k \in Key PROVE KeyPixels(k)
  <2>1. PixelRowStep(k) /\ RunStep(k)
    BY <1>4, <1>7, <1>8, TxRowPixels DEF PixelInv
  <2>2. EvictStep(k)
    BY <1>5, <1>8 DEF EvictStep
  <2> QED
    BY <1>4, <2>1, <2>2 DEF KeyPixels, FileStep
<1>10. PixelStep
  <2>1. MoreHistory
    BY <1>5 DEF MoreHistory
  <2> QED
    BY <1>4, <1>9, <2>1, CalmWorld DEF PixelStep
<1>11. ASSUME NEW w \in Workers PROVE InOrder(worker[w])' /\ Produced(worker[w])'
  <2>1. worker'[w] = Idle
    BY <1>4
  <2>2. PICK r : r = worker'[w]
    OBVIOUS
  <2>3. /\ Has(r) = {} /\ ToSet(r.cur) = {}
        /\ r.pc \notin {"claimed", "checked", "stated", "pathed"}
    BY <2>1, <2>2, IdlePixels
  <2> QED
    BY <2>2, <2>3 DEF InOrder, Produced
<1>12. OpPixels'
  <2>1. DerivInv' /\ Later
    BY <1>4, CalmWorld
  <2>2. <<>> \in Seq({}) /\ ToSet(<<>>) = {} /\ op'.keys = <<>> /\ op'.kind = "none" /\ op'.stage = "none"
    BY <1>4 DEF ToSet, NoOp
  <2>3. KeysPixels'
    BY <2>2 DEF KeysPixels
  <2>4. PutOffPixels'
    BY <1>4, <1>8, <2>2, <2>3 DEF PutOffPixels
  <2> QED
    BY <1>8, <2>4, FreshOpPixels
<1> QED
  BY <1>10, <1>11, <1>12, PixelsKept

\* Nothing happens at all.
LEMMA StutterPixels ==
  ASSUME DerivInv, DerivInv', PixelInv, UNCHANGED dvars
  PROVE  PixelInv'
<1>1. UNCHANGED <<disk, cat, row, job, file, worker, served, deferred, op, audit>>
  BY DEF dvars
<1>2. EvictCalm /\ Later /\ MoreHistory
  BY <1>1, CalmWorld DEF EvictCalm, MoreHistory
<1>3. OpPixels'
  BY <1>1, <1>2, OpPixelsRest
<1> QED
  BY <1>1, <1>2, <1>3, QuietPixels

\* The invariant holds at the start.
LEMMA PixelsInitially ==
  ASSUME DInit
  PROVE  PixelInv
<1>1. ASSUME NEW k \in Key PROVE row[k].path = 0 /\ row[k].st \in {"absent", "queued"} /\ file[k] = 0
  BY <1>1 DEF DInit, NoRow
<1>2. op.sel = {} /\ op.gone = {} /\ op.drop = {} /\ op.kind # "clear"
  BY DEF DInit, NoOp
<1>3. WorldPixels
  <2>1. \A a \in Assets : disk[a] = 1 /\ cat[a].ident = 1
    BY DEF DInit
  <2> QED
    BY <1>1, <2>1 DEF WorldPixels, Reached, DInit
<1>4. OpPixels
  <2>1. <<>> \in Seq({}) /\ ToSet(<<>>) = {} /\ op.keys = <<>> /\ op.kind = "none" /\ op.stage = "none"
        /\ deferred = {}
    BY DEF ToSet, NoOp, DInit
  <2>2. PutOffPixels
    BY <1>2, <2>1 DEF PutOffPixels, KeysPixels
  <2> QED
    BY <1>2, <2>2 DEF OpPixels, HandPixels
<1>5. \A k \in Key : RowPixels(k)
  BY <1>1, <1>2 DEF RowPixels
<1>6. ASSUME NEW w \in Workers PROVE InOrder(worker[w]) /\ Produced(worker[w])
  <2>1. PICK r : r = worker[w]
    OBVIOUS
  <2>2. r = Idle
    BY <2>1 DEF DInit
  <2>3. /\ Has(r) = {} /\ ToSet(r.cur) = {}
        /\ r.pc \notin {"claimed", "checked", "stated", "pathed"}
    BY <2>2, IdlePixels
  <2> QED
    BY <2>1, <2>3 DEF InOrder, Produced
<1> QED
  BY <1>3, <1>4, <1>5, <1>6 DEF PixelInv

\* Every step keeps it.
LEMMA EveryStepPixels ==
  ASSUME DerivInv, DerivInv', PixelInv, ~Restores, DNext \/ Restart
  PROVE  PixelInv'
<1>1. ASSUME NEW w \in Workers, Work(w) \/ RenderFails(w) \/ FailRefused(w) PROVE PixelInv'
  BY <1>1, ClaimJobsPixels, ValidatePixels, CachePathsPixels, RenderKeysPixels, DecodePixels, RenderPixels,
     RevalidatePixels, CompletePixels, FailPixels, ContinuePixels, ReleaseClaimsPixels, ClosePixels,
     EnforceQuotaPixels, RenderFailsPixels, FailRefusedPixels DEF Work
<1>2. CASE Hold
  BY <1>2, SelectAndEvictPixels, UnlinkEvictedPixels, FinalizePixels, CoalescePixels, ReconcileBatchPixels,
     DiscardOnePixels, ClearFilesPixels DEF Hold
<1>3. CASE Supervise
  BY <1>3, ReadsPixels, SweepsPixels, AuditReadyPixels, AuditDonePixels DEF Supervise
<1>4. CASE Call
  BY <1>4, CallPixels, RetireSupersededPixels, RepairPixels, ClearRowsPixels, ReadsPixels DEF Call
<1>5. CASE SourceChange \/ CatalogScan \/ Restart
  BY <1>5, SourceChangePixels, CatalogScanPixels, RestartPixels
<1> QED
  BY <1>1, <1>2, <1>3, <1>4, <1>5 DEF DNext

\* What is ready has its pixels: its file is there, of its identity or a later one
\* that the source has had, and it is the row's own unless an eviction removed it.
LEMMA PixelsAreReady ==
  ASSUME DerivInv, PixelInv
  PROVE  ReadyHasPixels
<1>1. ASSUME NEW k \in Key, row[k].st = "ready", k \notin audit.misled
      PROVE  \/ row[k].path # 0 /\ file[PathOf(k, row[k].path)] = k[3]
             \/ /\ k \in audit.torn
                /\ row[k].path # 0 /\ file[PathOf(k, row[k].path)] # 0
                /\ disk[k[1]] # k[3]
  <2>1. RowPixels(k) /\ k[3] # 0 /\ k[3] \in Nat /\ k[1] \in Assets /\ PathOf(k, k[3]) = k
    BY KeyFacts DEF PixelInv
  <2>2. row[k].path # 0 /\ file[k] # 0 /\ k \notin op.gone /\ PathOf(k, row[k].path) = k
    BY <1>1, <2>1 DEF RowPixels, PixelInv, OpPixels, HandPixels
  <2>3. k[3] <= file[k] /\ Reached(k[1], file[k])
    BY <2>2 DEF PixelInv, WorldPixels
  <2>4. file[k] = k[3] \/ k \in audit.torn
    BY <1>1, <2>1, <2>2 DEF RowPixels
  <2>5. file[k] = k[3] \/ disk[k[1]] # k[3]
    <3>1. file[k] \in Nat /\ disk[k[1]] \in Nat
      BY <2>1, DerivativeAssumption DEF DerivInv, World
    <3> QED
      BY <2>1, <2>3, <3>1 DEF Reached
  <2> QED
    BY <2>2, <2>4, <2>5
<1> QED
  BY <1>1 DEF ReadyHasPixels

\* A derivative is offered as ready only while its file has the pixels of the identity
\* it is ready for (_run_job, _run_batch, _complete_claim, _reserve_capacity and
\* run_all_checks), if no source file returns to an identity it had before.
THEOREM ReadyPixels == ~Restores /\ DSpec => []ReadyHasPixels
<1>1. ~Restores /\ DerivInv /\ DerivInv' /\ PixelInv /\ [DNext \/ Restart]_dvars => PixelInv'
  BY EveryStepPixels, StutterPixels
<1>2. DerivInv /\ PixelInv => ReadyHasPixels
  BY PixelsAreReady
<1>3. ~Restores => [](~Restores)
  OBVIOUS
<1>4. DInit => PixelInv
  BY PixelsInitially
<1> QED
  BY <1>1, <1>2, <1>3, <1>4, DerivAlways, PTL DEF DSpec
=============================================================================
