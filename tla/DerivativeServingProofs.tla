------------------------ MODULE DerivativeServingProofs ------------------------
(***************************************************************************)
(* That a file which a response streams stays in the cache and has the     *)
(* pixels its request found, and that an unlink which was put off is not   *)
(* forgotten, proved on top of the scheduler's own invariants, which the   *)
(* requests keep.                                                          *)
(***************************************************************************)
EXTENDS DerivativePixelsProofs, DerivativeServing

-----------------------------------------------------------------------------
(* The inductive invariant.                                                *)

\* The file that p names is one of the asset that av asks for.
FileFor(av, p) == p \in Key /\ p[1] = av[1]

Resolved == {"hit", "lookup", "acquire", "schedule", "scheduling", "wait", "relookup", "reacquire", "stream"}

\* What a request has at each of its steps.
ReqOK(r) ==
  /\ r = [pc |-> r.pc, av |-> r.av, ident |-> r.ident, entry |-> r.entry, did |-> r.did, path |-> r.path,
          found |-> r.found, again |-> r.again, status |-> r.status, shared |-> r.shared]
  /\ r.pc \notin {"new", "released", "done"} => r.av \in Requested
  /\ r.pc \in Resolved => r.ident \in Ident
  /\ r.pc = "hit" => FileFor(r.av, r.entry.path)
  /\ r.pc \in {"acquire", "reacquire", "stream"} => FileFor(r.av, r.path)

\* What the fast path keeps for asset and variant av.
EntryOK(e, av) == e # NoEntry => FileFor(av, e.path) /\ e.ident \in Ident

Asked ==
  /\ req = [q \in Requests |-> req[q]] /\ \A q \in Requests : ReqOK(req[q])
  /\ fast = [av \in Requested |-> fast[av]] /\ \A av \in Requested : EntryOK(fast[av], av)

\* Served files are there, a response's file is served unless another response of it
\* ended, and an eviction that is about to unlink has none of them in hand.
Protected ==
  /\ \A p \in served : file[p] # 0
  /\ \A q \in Requests : Streaming(q) => req[q].path \in served \/ req[q].shared
  /\ op.stage = "evicted" => \A k \in op.sel : k \in Key /\ PathOf(k, row[k].path) \notin served

ServeInv == DerivInv /\ Asked /\ Protected /\ DeferredIsServed

\* The identity a request goes by is one the source has had, and the file it found is
\* of that identity or of a later one.
ReqSeen(r) ==
  /\ r.pc \in Resolved => Reached(r.av[1], r.ident)
  /\ r.pc = "hit" => r.ident <= r.entry.path[3]
  /\ r.pc \in {"acquire", "reacquire", "stream"} => r.ident <= r.path[3]
EntrySeen(e, av) == e # NoEntry => Reached(av[1], e.ident) /\ e.ident <= e.path[3]

Seen ==
  /\ PixelInv
  /\ \A q \in Requests : ReqSeen(req[q])
  /\ \A av \in Requested : EntrySeen(fast[av], av)

-----------------------------------------------------------------------------
(* The steps of one request.                                               *)

\* Request q becomes r; the fast path keeps entries that are as they should be.
ReqStep(q, r) ==
  /\ req' = [req EXCEPT ![q] = r] /\ ReqOK(r) /\ (Seen => ReqSeen(r))
  /\ fast' = [av \in Requested |-> fast'[av]]
  /\ \A av \in Requested : EntryOK(fast'[av], av) /\ (Seen => EntrySeen(fast'[av], av))

\* The scheduler sees nothing of it.
Looks(q, r) ==
  /\ ReqStep(q, r) /\ CoreSame
  /\ req[q].pc \notin {"stream", "released"} /\ r.pc # "stream"

\* The file it found is protected and streamed.
Streams(q, r) ==
  /\ ReqStep(q, r) /\ r.pc = "stream" /\ req[q].pc # "released"
  /\ FileLockFree /\ file[r.path] # 0
  /\ served' = served \cup {r.path}
  /\ UNCHANGED <<disk, cat, row, job, file, claims, worker, generating, deferred, op, sweep, audit, left>>

\* The other requests stay as they are.
LEMMA StepAsked ==
  ASSUME Asked, NEW q \in Requests, NEW r, ReqStep(q, r)
  PROVE  /\ Asked' /\ req'[q] = r
         /\ \A o \in Requests : o # q => req'[o] = req[o]
BY DEF Asked, ReqStep

\* What the requests have seen stays seen while the sources stay.
LEMMA StepSeen ==
  ASSUME Asked, Seen, NEW q \in Requests, NEW r, ReqStep(q, r), disk' = disk, PixelInv'
  PROVE  Seen'
<1>1. req'[q] = r /\ \A o \in Requests : o # q => req'[o] = req[o]
  BY StepAsked
<1>2. \A o \in Requests : ReqSeen(req[o])'
  BY <1>1 DEF Seen, ReqStep, ReqSeen, Reached
<1>3. \A av \in Requested : EntrySeen(fast[av], av)'
  BY DEF Seen, ReqStep, EntrySeen, Reached
<1> QED
  BY <1>2, <1>3 DEF Seen

\* The fast path stays, or forgets an entry.
LEMMA FastStays ==
  ASSUME Asked, fast' = fast
  PROVE  /\ fast' = [av \in Requested |-> fast'[av]]
         /\ \A av \in Requested : EntryOK(fast'[av], av) /\ (Seen => EntrySeen(fast'[av], av))
BY DEF Asked, Seen
LEMMA FastDrops ==
  ASSUME Asked, NEW x \in Requested, NEW e, fast' = [fast EXCEPT ![x] = IF @ = e THEN NoEntry ELSE @]
  PROVE  /\ fast' = [av \in Requested |-> fast'[av]]
         /\ \A av \in Requested : EntryOK(fast'[av], av) /\ (Seen => EntrySeen(fast'[av], av))
<1>1. fast' = [av \in Requested |-> fast'[av]] /\ \A av \in Requested : fast'[av] \in {fast[av], NoEntry}
  BY DEF Asked
<1> QED
  BY <1>1 DEF Asked, Seen, EntryOK, EntrySeen

\* A request that is answered asks for nothing any more.
Answered(code) == [NewReq EXCEPT !.pc = "done", !.status = code]
LEMMA Answers ==
  ASSUME NEW code
  PROVE  ReqOK(Answered(code)) /\ ReqSeen(Answered(code)) /\ Answered(code).pc = "done"
<1>0. PICK r : r = Answered(code)
  OBVIOUS
<1>1. r = [pc |-> "done", av |-> <<>>, ident |-> 0, entry |-> NoEntry, did |-> <<>>, path |-> <<>>,
           found |-> 0, again |-> FALSE, status |-> code, shared |-> FALSE]
  BY <1>0 DEF NewReq, Answered
<1> QED
  BY <1>0, <1>1 DEF ReqOK, ReqSeen, Resolved

\* A request goes on to a step that relies on nothing new.
MovedTo(s, pc, did, again) == [s EXCEPT !.pc = pc, !.did = did, !.again = again]
LEMMA GoesTo ==
  ASSUME NEW s, ReqOK(s), NEW pc, NEW did, NEW again,
         s.pc \in Resolved \ {"hit"}, pc \in {"schedule", "scheduling", "wait", "relookup"}
  PROVE  /\ ReqOK(MovedTo(s, pc, did, again)) /\ MovedTo(s, pc, did, again).pc = pc
         /\ ReqSeen(s) => ReqSeen(MovedTo(s, pc, did, again))
<1>0. PICK r : r = MovedTo(s, pc, did, again)
  OBVIOUS
<1>1. r = [pc |-> pc, av |-> s.av, ident |-> s.ident, entry |-> s.entry, did |-> did, path |-> s.path,
           found |-> s.found, again |-> again, status |-> s.status, shared |-> s.shared]
  BY <1>0 DEF ReqOK, MovedTo
<1>2. s.av \in Requested /\ s.ident \in Ident
  BY DEF ReqOK, Resolved
<1> QED
  BY <1>0, <1>1, <1>2 DEF ReqOK, ReqSeen, Resolved

\* A browser asks.
LEMMA ArriveLooks ==
  ASSUME Asked, NEW q \in Requests, Arrive(q)
  PROVE  \E r : Looks(q, r)
<1>1. PICK av \in Requested : SetReq(q, [NewReq EXCEPT !.pc = "fast", !.av = av])
  BY DEF Arrive
<1>2. PICK r : r = [NewReq EXCEPT !.pc = "fast", !.av = av]
  OBVIOUS
<1>3. r = [pc |-> "fast", av |-> av, ident |-> 0, entry |-> NoEntry, did |-> <<>>, path |-> <<>>,
           found |-> 0, again |-> FALSE, status |-> 0, shared |-> FALSE]
  BY <1>2 DEF NewReq
<1>4. ReqOK(r) /\ ReqSeen(r) /\ r.pc = "fast"
  BY <1>3 DEF ReqOK, ReqSeen, Resolved
<1>5. req' = [req EXCEPT ![q] = r] /\ fast' = fast /\ CoreSame /\ req[q].pc = "new"
  BY <1>1, <1>2 DEF Arrive, SetReq
<1>6. ReqStep(q, r)
  BY <1>4, <1>5, FastStays DEF ReqStep
<1> QED
  BY <1>4, <1>5, <1>6 DEF Looks

\* _check_fast_path: a hit goes by the identity the entry was made for.
LEMMA FastCheckLooks ==
  ASSUME Asked, NEW q \in Requests, FastCheck(q)
  PROVE  \E r : Looks(q, r)
<1>1. ReqOK(req[q]) /\ req[q].pc = "fast" /\ req[q].av \in Requested /\ CoreSame
  BY DEF FastCheck, Asked, ReqOK
<1>2. PICK av : av = req[q].av
  OBVIOUS
<1>3. PICK e : e = fast[av]
  OBVIOUS
<1>4. EntryOK(e, av) /\ (Seen => EntrySeen(e, av))
  BY <1>1, <1>2, <1>3 DEF Asked, Seen
<1>5. PICK s : s = req[q]
  OBVIOUS
<1>6. CASE e # NoEntry /\ SourceOf(q) = e.ident
  <2>1. PICK r : r = [s EXCEPT !.pc = "hit", !.entry = e, !.ident = e.ident]
    OBVIOUS
  <2>2. req' = [req EXCEPT ![q] = r] /\ fast' = fast
    BY <1>2, <1>3, <1>5, <1>6, <2>1 DEF FastCheck, SetReq
  <2>3. r = [pc |-> "hit", av |-> av, ident |-> e.ident, entry |-> e, did |-> s.did, path |-> s.path,
             found |-> s.found, again |-> s.again, status |-> s.status, shared |-> s.shared]
    BY <1>1, <1>2, <1>5, <2>1 DEF ReqOK
  <2>4. ReqOK(r) /\ (Seen => ReqSeen(r)) /\ r.pc = "hit"
    BY <1>1, <1>2, <1>4, <1>6, <2>3 DEF ReqOK, ReqSeen, EntryOK, EntrySeen
  <2>5. ReqStep(q, r)
    BY <2>2, <2>4, FastStays DEF ReqStep
  <2> QED
    BY <1>1, <2>4, <2>5 DEF Looks
<1>7. CASE ~(e # NoEntry /\ SourceOf(q) = e.ident)
  <2>1. PICK r : r = [s EXCEPT !.pc = "resolve"]
    OBVIOUS
  <2>2. req' = [req EXCEPT ![q] = r] /\ fast' = [fast EXCEPT ![av] = IF @ = e THEN NoEntry ELSE @]
    BY <1>2, <1>3, <1>5, <1>7, <2>1 DEF FastCheck, SetReq, Discarded
  <2>3. r = [pc |-> "resolve", av |-> av, ident |-> s.ident, entry |-> s.entry, did |-> s.did, path |-> s.path,
             found |-> s.found, again |-> s.again, status |-> s.status, shared |-> s.shared]
    BY <1>1, <1>2, <1>5, <2>1 DEF ReqOK
  <2>4. ReqOK(r) /\ ReqSeen(r) /\ r.pc = "resolve"
    BY <1>1, <1>2, <2>3 DEF ReqOK, ReqSeen, Resolved
  <2>5. ReqStep(q, r)
    BY <1>1, <1>2, <2>2, <2>4, FastDrops DEF ReqStep
  <2> QED
    BY <1>1, <2>4, <2>5 DEF Looks
<1> QED
  BY <1>6, <1>7

\* _resolve_derivative_source: what the handler stat'ed is what the source is.
LEMMA ResolveLooks ==
  ASSUME Asked, DerivInv, NEW q \in Requests, Resolve(q)
  PROVE  \E r : Looks(q, r)
<1>1. ReqOK(req[q]) /\ req[q].pc = "resolve" /\ req[q].av \in Requested /\ CoreSame /\ fast' = fast
  BY DEF Resolve, Asked, ReqOK
<1>2. PICK s : s = req[q]
  OBVIOUS
<1>3. CASE cat[req[q].av[1]].active /\ SourceOf(q) # 0
  <2>1. PICK i : i = SourceOf(q)
    OBVIOUS
  <2>2. i \in Ident /\ disk[s.av[1]] = i
    <3>1. s.av[1] \in Assets
      BY <1>1, <1>2 DEF Requested
    <3>2. disk[s.av[1]] \in 0..MaxIdent /\ disk[s.av[1]] = i /\ i # 0
      BY <1>2, <1>3, <2>1, <3>1 DEF SourceOf, DerivInv, World
    <3> QED
      BY <3>2, DerivativeAssumption DEF Ident
  <2>3. PICK r : r = [s EXCEPT !.pc = "lookup", !.ident = i]
    OBVIOUS
  <2>4. req' = [req EXCEPT ![q] = r]
    BY <1>2, <1>3, <2>1, <2>3 DEF Resolve, SetReq
  <2>5. r = [pc |-> "lookup", av |-> s.av, ident |-> i, entry |-> s.entry, did |-> s.did, path |-> s.path,
             found |-> s.found, again |-> s.again, status |-> s.status, shared |-> s.shared]
    BY <1>1, <1>2, <2>3 DEF ReqOK
  <2>6. ReqOK(r) /\ r.pc = "lookup"
    BY <1>1, <1>2, <2>2, <2>5 DEF ReqOK
  <2>7. ReqSeen(r)
    <3>1. i <= i
      BY <2>2, DerivativeAssumption DEF Ident
    <3> QED
      BY <2>2, <2>5, <3>1 DEF ReqSeen, Reached
  <2>8. ReqStep(q, r)
    BY <1>1, <2>4, <2>6, <2>7, FastStays DEF ReqStep
  <2> QED
    BY <1>1, <2>6, <2>8 DEF Looks
<1>4. CASE ~(cat[req[q].av[1]].active /\ SourceOf(q) # 0)
  <2>1. PICK r : r = Answered(404)
    OBVIOUS
  <2>2. req' = [req EXCEPT ![q] = r]
    BY <1>4, <2>1 DEF Resolve, Answer, SetReq, Answered
  <2>3. ReqOK(r) /\ ReqSeen(r) /\ r.pc = "done"
    BY <2>1, Answers
  <2>4. ReqStep(q, r)
    BY <1>1, <2>2, <2>3, FastStays DEF ReqStep
  <2> QED
    BY <1>1, <2>3, <2>4 DEF Looks
<1> QED
  BY <1>3, <1>4

\* A ready derivative's file is one of its asset, of its own identity.
LEMMA ReadyFiles ==
  ASSUME DerivInv, NEW k \in Key, ReadyAt(k), NEW p, p = PathOf(k, row[k].path)
  PROVE  p \in Key /\ p[1] = k[1] /\ (PixelInv => p[3] = k[3])
<1>1. row[k].path # 0 /\ row[k].path \in 0..MaxIdent
  BY DEF ReadyAt, HasFile, DerivInv, Rows, Row
<1>2. row[k].path \in Ident /\ k[1] \in Assets /\ k[2] \in Variant
  BY <1>1, KeyFacts, DerivativeAssumption DEF Ident
<1>3. p \in Key /\ p[1] = k[1] /\ p[3] = row[k].path
  BY <1>2 DEF PathOf, Key
<1>4. PixelInv => row[k].path = k[3]
  BY <1>1 DEF PixelInv, RowPixels
<1> QED
  BY <1>3, <1>4

\* What a request looks up.
LEMMA LookedUp ==
  ASSUME NEW q \in Requests, req[q].av \in Requested, NEW i \in Ident, NEW k, k = IdentKey(q, i)
  PROVE  k \in Key /\ k[1] = req[q].av[1] /\ k[3] = i
BY DEF IdentKey, Requested, Key

\* A request that found a file goes on to protect it.
FoundAt(s, pc, p, found) == [s EXCEPT !.pc = pc, !.path = p, !.found = found]
LEMMA FindsFile ==
  ASSUME NEW s, ReqOK(s), s.pc \in {"lookup", "relookup"}, NEW p, NEW found, NEW pc \in {"acquire", "reacquire"},
         FileFor(s.av, p)
  PROVE  /\ ReqOK(FoundAt(s, pc, p, found)) /\ FoundAt(s, pc, p, found).pc = pc
         /\ ReqSeen(s) /\ s.ident <= p[3] => ReqSeen(FoundAt(s, pc, p, found))
<1>0. PICK r : r = FoundAt(s, pc, p, found)
  OBVIOUS
<1>1. r = [pc |-> pc, av |-> s.av, ident |-> s.ident, entry |-> s.entry, did |-> s.did, path |-> p,
           found |-> found, again |-> s.again, status |-> s.status, shared |-> s.shared]
  BY <1>0 DEF ReqOK, FoundAt
<1>2. s.av \in Requested /\ s.ident \in Ident
  BY DEF ReqOK, Resolved
<1> QED
  BY <1>0, <1>1, <1>2 DEF ReqOK, ReqSeen, Resolved

\* acquire_ready_derivative: the lookup, by the identity the handler stat'ed.
LEMMA LookupLooks ==
  ASSUME Asked, DerivInv, NEW q \in Requests, Lookup(q)
  PROVE  \E r : Looks(q, r)
<1>1. /\ ReqOK(req[q]) /\ req[q].pc = "lookup" /\ req[q].av \in Requested /\ req[q].ident \in Ident
      /\ CoreSame /\ fast' = fast
  BY DEF Lookup, Asked, ReqOK, Resolved
<1>2. PICK s : s = req[q]
  OBVIOUS
<1>3. PICK k : k = IdentKey(q, s.ident)
  OBVIOUS
<1>4. k \in Key /\ k[1] = s.av[1] /\ k[3] = s.ident
  BY <1>1, <1>2, <1>3, LookedUp
<1>5. CASE ReadyAt(k)
  <2>1. PICK p : p = PathOf(k, row[k].path)
    OBVIOUS
  <2>2. PICK r : r = FoundAt(s, "acquire", p, k[3])
    OBVIOUS
  <2>3. req' = [req EXCEPT ![q] = r]
    BY <1>2, <1>3, <1>5, <2>1, <2>2 DEF Lookup, SetReq, FoundAt
  <2>4. FileFor(s.av, p) /\ (PixelInv => p[3] = s.ident)
    BY <1>4, <1>5, <2>1, ReadyFiles DEF FileFor
  <2>5. s.ident <= s.ident
    BY <1>1, <1>2, DerivativeAssumption DEF Ident
  <2>6. ReqOK(r) /\ r.pc = "acquire" /\ (Seen => ReqSeen(r))
    BY <1>1, <1>2, <2>2, <2>4, <2>5, FindsFile DEF Seen
  <2>7. ReqStep(q, r)
    BY <1>1, <2>3, <2>6, FastStays DEF ReqStep
  <2> QED
    BY <1>1, <2>6, <2>7 DEF Looks
<1>6. CASE ~ReadyAt(k)
  <2>1. PICK r : r = [s EXCEPT !.pc = "schedule"]
    OBVIOUS
  <2>2. req' = [req EXCEPT ![q] = r]
    BY <1>2, <1>3, <1>6, <2>1 DEF Lookup, SetReq
  <2>3. r = MovedTo(s, "schedule", s.did, s.again)
    BY <1>1, <1>2, <2>1 DEF ReqOK, MovedTo
  <2>4. ReqOK(r) /\ (Seen => ReqSeen(r)) /\ r.pc = "schedule"
    BY <1>1, <1>2, <2>3, GoesTo DEF Seen, Resolved
  <2>5. ReqStep(q, r)
    BY <1>1, <2>2, <2>4, FastStays DEF ReqStep
  <2> QED
    BY <1>1, <2>4, <2>5 DEF Looks
<1> QED
  BY <1>5, <1>6

\* The second lookup goes by the file as it is by now.
LEMMA RelookupLooks ==
  ASSUME Asked, DerivInv, NEW q \in Requests, Relookup(q)
  PROVE  \E r : Looks(q, r)
<1>1. /\ ReqOK(req[q]) /\ req[q].pc = "relookup" /\ req[q].av \in Requested /\ req[q].ident \in Ident
      /\ CoreSame /\ fast' = fast
  BY DEF Relookup, Asked, ReqOK, Resolved
<1>2. PICK s : s = req[q]
  OBVIOUS
<1>3. PICK i : i = SourceOf(q)
  OBVIOUS
<1>4. PICK k : k = IdentKey(q, i)
  OBVIOUS
<1>5. CASE i # 0 /\ ReadyAt(k)
  <2>1. i \in Ident /\ disk[s.av[1]] = i /\ i # 0
    <3>1. s.av[1] \in Assets
      BY <1>1, <1>2 DEF Requested
    <3>2. disk[s.av[1]] \in 0..MaxIdent /\ disk[s.av[1]] = i
      BY <1>2, <1>3, <3>1 DEF SourceOf, DerivInv, World
    <3> QED
      BY <1>5, <3>2, DerivativeAssumption DEF Ident
  <2>2. k \in Key /\ k[1] = s.av[1] /\ k[3] = i
    BY <1>1, <1>2, <1>4, <2>1, LookedUp
  <2>3. PICK p : p = PathOf(k, row[k].path)
    OBVIOUS
  <2>4. PICK r : r = FoundAt(s, "reacquire", p, k[3])
    OBVIOUS
  <2>5. req' = [req EXCEPT ![q] = r]
    BY <1>2, <1>3, <1>4, <1>5, <2>3, <2>4 DEF Relookup, SetReq, FoundAt
  <2>6. FileFor(s.av, p) /\ (PixelInv => p[3] = i)
    BY <1>5, <2>2, <2>3, ReadyFiles DEF FileFor
  <2>7. Seen => s.ident <= i
    BY <1>1, <1>2, <2>1 DEF Seen, ReqSeen, Reached, Resolved
  <2>8. ReqOK(r) /\ r.pc = "reacquire" /\ (Seen => ReqSeen(r))
    BY <1>1, <1>2, <2>4, <2>6, <2>7, FindsFile DEF Seen
  <2>9. ReqStep(q, r)
    BY <1>1, <2>5, <2>8, FastStays DEF ReqStep
  <2> QED
    BY <1>1, <2>8, <2>9 DEF Looks
<1>6. CASE ~(i # 0 /\ ReadyAt(k))
  <2>1. PICK r : r = Answered(503)
    OBVIOUS
  <2>2. req' = [req EXCEPT ![q] = r]
    BY <1>3, <1>4, <1>6, <2>1 DEF Relookup, Answer, SetReq, Answered
  <2>3. ReqOK(r) /\ ReqSeen(r) /\ r.pc = "done"
    BY <2>1, Answers
  <2>4. ReqStep(q, r)
    BY <1>1, <2>2, <2>3, FastStays DEF ReqStep
  <2> QED
    BY <1>1, <2>3, <2>4 DEF Looks
<1> QED
  BY <1>5, <1>6

\* The wait: it begins, one poll ends it, or ten seconds pass.
LEMMA WaitLooks ==
  ASSUME Asked, NEW q \in Requests, Scheduled(q) \/ Poll(q) \/ TimesOut(q)
  PROVE  \E r : Looks(q, r)
<1>1. PICK s : s = req[q]
  OBVIOUS
<1>2. ReqOK(s) /\ s.pc \in {"scheduling", "wait"} /\ CoreSame /\ fast' = fast /\ (Seen => ReqSeen(s))
  BY <1>1 DEF Scheduled, Poll, TimesOut, Asked, Seen
<1>3. \/ SetReq(q, [req[q] EXCEPT !.pc = "wait"])
      \/ SetReq(q, [req[q] EXCEPT !.pc = "relookup"])
      \/ SetReq(q, [req[q] EXCEPT !.pc = "schedule", !.again = TRUE])
      \/ \E code \in {404, 409, 500, 503, 507} : Answer(q, code)
  BY DEF Scheduled, Poll, TimesOut
<1>4. ASSUME NEW pc \in {"wait", "relookup", "schedule"}, NEW again,
             req' = [req EXCEPT ![q] = MovedTo(s, pc, s.did, again)]
      PROVE  \E r : Looks(q, r)
  <2>1. PICK r : r = MovedTo(s, pc, s.did, again)
    OBVIOUS
  <2>2. ReqOK(r) /\ r.pc = pc /\ (Seen => ReqSeen(r))
    BY <1>2, <2>1, GoesTo DEF Resolved
  <2>3. ReqStep(q, r)
    BY <1>2, <1>4, <2>1, <2>2, FastStays DEF ReqStep
  <2> QED
    BY <1>1, <1>2, <2>2, <2>3 DEF Looks
<1>5. [s EXCEPT !.pc = "wait"] = MovedTo(s, "wait", s.did, s.again)
      /\ [s EXCEPT !.pc = "relookup"] = MovedTo(s, "relookup", s.did, s.again)
      /\ [s EXCEPT !.pc = "schedule", !.again = TRUE] = MovedTo(s, "schedule", s.did, TRUE)
  BY <1>2 DEF ReqOK, MovedTo
<1>6. ASSUME NEW code, Answer(q, code)
      PROVE  \E r : Looks(q, r)
  <2>1. PICK r : r = Answered(code)
    OBVIOUS
  <2>2. req' = [req EXCEPT ![q] = r]
    BY <1>6, <2>1 DEF Answer, SetReq, Answered
  <2>3. ReqOK(r) /\ ReqSeen(r) /\ r.pc = "done"
    BY <2>1, Answers
  <2>4. ReqStep(q, r)
    BY <1>2, <2>2, <2>3, FastStays DEF ReqStep
  <2> QED
    BY <1>1, <1>2, <2>3, <2>4 DEF Looks
<1>7. CASE \E code \in {404, 409, 500, 503, 507} : Answer(q, code)
  BY <1>6, <1>7
<1>8. CASE ~\E code \in {404, 409, 500, 503, 507} : Answer(q, code)
  <2>1. \/ req' = [req EXCEPT ![q] = MovedTo(s, "wait", s.did, s.again)]
        \/ req' = [req EXCEPT ![q] = MovedTo(s, "relookup", s.did, s.again)]
        \/ req' = [req EXCEPT ![q] = MovedTo(s, "schedule", s.did, TRUE)]
    BY <1>1, <1>3, <1>5, <1>8 DEF SetReq
  <2> QED
    BY <1>4, <2>1
<1> QED
  BY <1>7, <1>8

\* A request that streams the file it found.
Opened(s, p) == [s EXCEPT !.pc = "stream", !.path = p]
LEMMA Opens ==
  ASSUME NEW s, ReqOK(s), s.pc \in {"hit", "acquire", "reacquire"}, NEW p, FileFor(s.av, p)
  PROVE  /\ ReqOK(Opened(s, p)) /\ Opened(s, p).pc = "stream" /\ Opened(s, p).path = p
         /\ ReqSeen(s) /\ s.ident <= p[3] => ReqSeen(Opened(s, p))
<1>0. PICK r : r = Opened(s, p)
  OBVIOUS
<1>1. r = [pc |-> "stream", av |-> s.av, ident |-> s.ident, entry |-> s.entry, did |-> s.did, path |-> p,
           found |-> s.found, again |-> s.again, status |-> s.status, shared |-> s.shared]
  BY <1>0 DEF ReqOK, Opened
<1>2. s.av \in Requested /\ s.ident \in Ident
  BY DEF ReqOK, Resolved
<1> QED
  BY <1>0, <1>1, <1>2 DEF ReqOK, ReqSeen, Resolved

\* try_acquire_serving for an entry of the fast path.
LEMMA FastAcquireServes ==
  ASSUME Asked, NEW q \in Requests, FastAcquire(q)
  PROVE  \E r : Looks(q, r) \/ Streams(q, r)
<1>1. PICK s : s = req[q]
  OBVIOUS
<1>2. PICK e : e = s.entry
  OBVIOUS
<1>3. /\ ReqOK(s) /\ s.pc = "hit" /\ (Seen => ReqSeen(s)) /\ FileLockFree
      /\ s.av \in Requested /\ FileFor(s.av, e.path)
      /\ UNCHANGED <<disk, cat, row, job, file, claims, worker, generating, deferred, op, sweep, audit, left>>
  BY <1>1, <1>2 DEF FastAcquire, Asked, Seen, ReqOK, db
<1>4. CASE file[e.path] # 0
  <2>1. PICK r : r = Opened(s, e.path)
    OBVIOUS
  <2>2. req' = [req EXCEPT ![q] = r] /\ fast' = fast /\ served' = served \cup {e.path}
    BY <1>1, <1>2, <1>4, <2>1 DEF FastAcquire, SetReq, Opened
  <2>3. Seen => s.ident <= e.path[3]
    BY <1>2, <1>3 DEF ReqSeen
  <2>4. ReqOK(r) /\ r.pc = "stream" /\ r.path = e.path /\ (Seen => ReqSeen(r))
    BY <1>3, <2>1, <2>3, Opens
  <2>5. ReqStep(q, r)
    BY <2>2, <2>4, FastStays DEF ReqStep
  <2> QED
    BY <1>1, <1>3, <1>4, <2>2, <2>4, <2>5 DEF Streams
<1>5. CASE file[e.path] = 0
  <2>1. PICK r : r = [s EXCEPT !.pc = "resolve"]
    OBVIOUS
  <2>2. /\ req' = [req EXCEPT ![q] = r] /\ served' = served
        /\ fast' = [fast EXCEPT ![s.av] = IF @ = e THEN NoEntry ELSE @]
    BY <1>1, <1>2, <1>5, <2>1 DEF FastAcquire, SetReq, Discarded
  <2>3. r = [pc |-> "resolve", av |-> s.av, ident |-> s.ident, entry |-> s.entry, did |-> s.did, path |-> s.path,
             found |-> s.found, again |-> s.again, status |-> s.status, shared |-> s.shared]
    BY <1>3, <2>1 DEF ReqOK
  <2>4. ReqOK(r) /\ ReqSeen(r) /\ r.pc = "resolve"
    BY <1>3, <2>3 DEF ReqOK, ReqSeen, Resolved
  <2>5. ReqStep(q, r)
    BY <1>3, <2>2, <2>4, FastDrops DEF ReqStep
  <2>6. CoreSame
    BY <1>3, <2>2 DEF CoreSame, dvars
  <2> QED
    BY <1>1, <1>3, <2>4, <2>5, <2>6 DEF Looks
<1> QED
  BY <1>4, <1>5

\* The file lock taken for a file that a lookup found; what is remembered of it is of
\* the identity the handler stat'ed.
LEMMA AcquireServes ==
  ASSUME Asked, NEW q \in Requests, AcquireFound(q) \/ Reacquire(q)
  PROVE  \E r : Looks(q, r) \/ Streams(q, r)
<1>1. PICK s : s = req[q]
  OBVIOUS
<1>2. PICK p : p = s.path
  OBVIOUS
<1>3. /\ ReqOK(s) /\ s.pc \in {"acquire", "reacquire"} /\ (Seen => ReqSeen(s)) /\ FileLockFree
      /\ UNCHANGED <<disk, cat, row, job, file, claims, worker, generating, deferred, op, sweep, audit, left>>
  BY <1>1 DEF AcquireFound, Reacquire, Acquire, Asked, Seen, db
<1>4. s.av \in Requested /\ FileFor(s.av, p) /\ s.ident \in Ident
  BY <1>2, <1>3 DEF ReqOK, Resolved
<1>5. CASE file[p] # 0
  <2>1. PICK r : r = Opened(s, p)
    OBVIOUS
  <2>2. /\ req' = [req EXCEPT ![q] = r] /\ served' = served \cup {p}
        /\ fast' \in {fast, [fast EXCEPT ![s.av] = Remembered(q)]}
    <3>1. r = [s EXCEPT !.pc = "stream"]
      BY <1>2, <1>3, <2>1 DEF Opened, ReqOK
    <3> QED
      BY <1>1, <1>2, <1>5, <3>1 DEF AcquireFound, Reacquire, Acquire, SetReq
  <2>3. Seen => s.ident <= p[3]
    BY <1>2, <1>3 DEF ReqSeen
  <2>4. ReqOK(r) /\ r.pc = "stream" /\ r.path = p /\ (Seen => ReqSeen(r))
    BY <1>3, <1>4, <2>1, <2>3, Opens
  <2>5. PICK e : e = Remembered(q)
    OBVIOUS
  <2>6. e.ident = s.ident /\ e.path = p
    BY <1>1, <1>2, <2>5 DEF Remembered
  <2>7. EntryOK(e, s.av) /\ (Seen => EntrySeen(e, s.av))
    BY <1>3, <1>4, <2>3, <2>6 DEF EntryOK, EntrySeen, ReqSeen, Resolved
  <2>8. CASE fast' = fast
    <3>1. ReqStep(q, r)
      BY <2>2, <2>4, <2>8, FastStays DEF ReqStep
    <3> QED
      BY <1>1, <1>3, <1>5, <2>2, <2>4, <3>1 DEF Streams
  <2>9. CASE fast' = [fast EXCEPT ![s.av] = e]
    <3>1. fast' = [av \in Requested |-> fast'[av]] /\ \A av \in Requested : fast'[av] = fast[av] \/ (av = s.av /\ fast'[av] = e)
      BY <1>4, <2>9 DEF Asked
    <3>2. \A av \in Requested : EntryOK(fast'[av], av) /\ (Seen => EntrySeen(fast'[av], av))
      BY <2>7, <3>1 DEF Asked, Seen
    <3>3. ReqStep(q, r)
      BY <2>2, <2>4, <3>1, <3>2 DEF ReqStep
    <3> QED
      BY <1>1, <1>3, <1>5, <2>2, <2>4, <3>3 DEF Streams
  <2> QED
    BY <2>2, <2>5, <2>8, <2>9
<1>6. CASE file[p] = 0
  <2>1. served' = served /\ fast' = fast
    BY <1>1, <1>2, <1>6 DEF AcquireFound, Reacquire, Acquire
  <2>2. CoreSame
    BY <1>3, <2>1 DEF CoreSame, dvars
  <2>3. CASE req' = [req EXCEPT ![q] = [s EXCEPT !.pc = "schedule"]]
    <3>1. PICK r : r = MovedTo(s, "schedule", s.did, s.again)
      OBVIOUS
    <3>2. r = [s EXCEPT !.pc = "schedule"]
      BY <1>3, <3>1 DEF ReqOK, MovedTo
    <3>3. ReqOK(r) /\ r.pc = "schedule" /\ (Seen => ReqSeen(r))
      BY <1>3, <3>1, GoesTo DEF Resolved
    <3>4. ReqStep(q, r)
      BY <2>1, <2>3, <3>2, <3>3, FastStays DEF ReqStep
    <3> QED
      BY <1>1, <1>3, <2>2, <3>3, <3>4 DEF Looks
  <2>4. CASE req' = [req EXCEPT ![q] = Answered(503)]
    <3>1. PICK r : r = Answered(503)
      OBVIOUS
    <3>2. ReqOK(r) /\ ReqSeen(r) /\ r.pc = "done"
      BY <3>1, Answers
    <3>3. ReqStep(q, r)
      BY <2>1, <2>4, <3>1, <3>2, FastStays DEF ReqStep
    <3> QED
      BY <1>1, <1>3, <2>2, <3>2, <3>3 DEF Looks
  <2> QED
    BY <1>1, <1>2, <1>6, <2>3, <2>4 DEF AcquireFound, Reacquire, Acquire, SetReq, Answer, Answered
<1> QED
  BY <1>5, <1>6

\* A request asks the scheduler, or is refused.
LEMMA RequestScheduleAsks ==
  ASSUME Asked, DerivInv, NEW q \in Requests, RequestSchedule(q)
  PROVE  \E r : \/ Looks(q, r)
                \/ /\ ReqStep(q, r) /\ r.pc = "scheduling" /\ req[q].pc = "schedule" /\ fast' = fast
                   /\ \E a, v : ScheduleBy(q, a, v, 0)
                   /\ UNCHANGED <<disk, cat, row, job, file, claims, worker, generating, served, deferred,
                                  sweep, audit, left>>
<1>1. PICK s : s = req[q]
  OBVIOUS
<1>2. /\ ReqOK(s) /\ s.pc = "schedule" /\ (Seen => ReqSeen(s)) /\ fast' = fast
      /\ UNCHANGED <<disk, cat, row, job, file, claims, worker, generating, served, deferred, sweep, audit, left>>
  BY <1>1 DEF RequestSchedule, Asked, Seen, db
<1>3. CASE cat[req[q].av[1]].active /\ SourceOf(q) # 0
  <2>1. PICK k : k = IdentKey(q, SourceOf(q))
    OBVIOUS
  <2>2. PICK r : r = MovedTo(s, "scheduling", k, s.again)
    OBVIOUS
  <2>3. r = [s EXCEPT !.pc = "scheduling", !.did = k]
    BY <1>2, <2>2 DEF ReqOK, MovedTo
  <2>4. /\ req' = [req EXCEPT ![q] = r]
        /\ ScheduleBy(q, req[q].av[1], req[q].av[2], 0)
    BY <1>1, <1>3, <2>1, <2>3 DEF RequestSchedule, SetReq
  <2>5. ReqOK(r) /\ r.pc = "scheduling" /\ (Seen => ReqSeen(r))
    BY <1>2, <2>2, GoesTo DEF Resolved
  <2>6. ReqStep(q, r)
    BY <1>2, <2>4, <2>5, FastStays DEF ReqStep
  <2> QED
    BY <1>1, <1>2, <2>4, <2>5, <2>6
<1>4. CASE ~(cat[req[q].av[1]].active /\ SourceOf(q) # 0)
  <2>1. PICK r : r = Answered(404)
    OBVIOUS
  <2>2. req' = [req EXCEPT ![q] = r] /\ op' = op
    BY <1>4, <2>1 DEF RequestSchedule, Answer, SetReq, Answered
  <2>3. ReqOK(r) /\ ReqSeen(r) /\ r.pc = "done"
    BY <2>1, Answers
  <2>4. ReqStep(q, r)
    BY <1>2, <2>2, <2>3, FastStays DEF ReqStep
  <2>5. CoreSame
    BY <1>2, <2>2 DEF CoreSame, dvars
  <2> QED
    BY <1>1, <1>2, <2>3, <2>4, <2>5 DEF Looks
<1> QED
  BY <1>3, <1>4

-----------------------------------------------------------------------------
(* Such steps keep the invariants.                                         *)

\* The paths of the responses that have ended and whose unlink is to be finished.
Released == {req[q].path : q \in {r \in Requests : req[r].pc = "released"}}

\* A step that the scheduler does not see.
LEMMA LooksKeeps ==
  ASSUME ServeInv, NEW q \in Requests, NEW r, Looks(q, r)
  PROVE  ServeInv' /\ (Seen => Seen')
<1>1. UNCHANGED <<disk, cat, row, job, file, claims, worker, generating, served, deferred, op, sweep, audit, left>>
      /\ UNCHANGED dvars
  BY DEF Looks, CoreSame, dvars
<1>2. /\ Asked' /\ req'[q] = r /\ \A o \in Requests : o # q => req'[o] = req[o]
      /\ ReqStep(q, r) /\ req[q].pc \notin {"stream", "released"} /\ r.pc # "stream"
  BY StepAsked DEF Looks, ServeInv
<1>3. DerivInv'
  BY <1>1, Stutter DEF ServeInv
<1>4. Protected'
  BY <1>1, <1>2 DEF ServeInv, Protected, Streaming
<1>5. DeferredIsServed'
  <2>1. Released \subseteq Released'
    BY <1>2 DEF Released
  <2> QED
    BY <1>1, <2>1 DEF ServeInv, DeferredIsServed, Released
<1>6. Seen => Seen'
  BY <1>1, <1>2, <1>3, StutterPixels, StepSeen DEF ServeInv, Seen
<1> QED
  BY <1>2, <1>3, <1>4, <1>5, <1>6 DEF ServeInv

\* A response begins.
LEMMA StreamsKeeps ==
  ASSUME ServeInv, NEW q \in Requests, NEW r, Streams(q, r)
  PROVE  ServeInv' /\ (Seen => Seen')
<1>1. /\ UNCHANGED <<disk, cat, row, job, file, claims, worker, generating, deferred, op, sweep, audit, left>>
      /\ served' = served \cup {r.path} /\ FileLockFree /\ file[r.path] # 0 /\ r.pc = "stream"
      /\ ReqStep(q, r) /\ req[q].pc # "released" /\ r.path \in Key
  BY DEF Streams, ReqStep, ReqOK, FileFor
<1>2. Asked' /\ req'[q] = r /\ \A o \in Requests : o # q => req'[o] = req[o]
  BY <1>1, StepAsked DEF ServeInv
<1>3. DerivInv'
  <2>1. World'
    BY <1>1 DEF ServeInv, DerivInv, World
  <2>2. PICK o : o = op'
    OBVIOUS
  <2>3. NewOp(o)
    BY <1>1, <2>2, OpStays DEF ServeInv, DerivInv
  <2> QED
    BY <1>1, <2>1, <2>2, <2>3, IdleStepOK DEF ServeInv, StepOK
<1>4. Protected'
  BY <1>1, <1>2 DEF ServeInv, Protected, Streaming, FileLockFree
<1>5. DeferredIsServed'
  <2>1. Released \subseteq Released'
    BY <1>1, <1>2 DEF Released
  <2> QED
    BY <1>1, <2>1 DEF ServeInv, DeferredIsServed, Released
<1>6. ASSUME Seen PROVE Seen'
  <2>1. PixelInv /\ DerivInv
    BY <1>6 DEF Seen, ServeInv
  <2>2. Later /\ EvictCalm /\ MoreHistory
    BY <1>1, <2>1, CalmWorld DEF EvictCalm, MoreHistory
  <2>3. OpPixels'
    BY <1>1, <1>3, <2>1, <2>2, OpPixelsRest
  <2>4. PixelInv'
    BY <1>1, <1>3, <2>1, <2>2, <2>3, QuietPixels
  <2> QED
    BY <1>1, <1>6, <2>4, StepSeen DEF ServeInv
<1> QED
  BY <1>2, <1>3, <1>4, <1>5, <1>6 DEF ServeInv

\* A request's schedule_derivative begins.
LEMMA RequestScheduleKeeps ==
  ASSUME ServeInv, NEW q \in Requests, RequestSchedule(q)
  PROVE  ServeInv' /\ (Seen => Seen')
<1>1. PICK r : \/ Looks(q, r)
               \/ /\ ReqStep(q, r) /\ r.pc = "scheduling" /\ req[q].pc = "schedule" /\ fast' = fast
                  /\ \E a, v : ScheduleBy(q, a, v, 0)
                  /\ UNCHANGED <<disk, cat, row, job, file, claims, worker, generating, served, deferred,
                                 sweep, audit, left>>
  BY RequestScheduleAsks DEF ServeInv
<1>2. CASE Looks(q, r)
  BY <1>2, LooksKeeps
<1>3. CASE ~Looks(q, r)
  <2>1. PICK a, v : ScheduleBy(q, a, v, 0)
    BY <1>1, <1>3
  <2>2. /\ UNCHANGED <<disk, cat, row, job, file, claims, worker, generating, served, deferred, sweep, audit, left>>
        /\ ReqStep(q, r) /\ r.pc = "scheduling" /\ req[q].pc = "schedule"
    BY <1>1, <1>3
  <2>3. Asked' /\ req'[q] = r /\ \A o \in Requests : o # q => req'[o] = req[o]
    BY <2>2, StepAsked DEF ServeInv
  <2>4. PICK o : o = op'
    OBVIOUS
  <2>5. o = [kind |-> "schedule", stage |-> "want", keys |-> <<<<a, v, disk[a]>>>>, cands |-> <<>>, drop |-> {},
             sel |-> {}, gone |-> {}, prio |-> 0, o |-> Interactive, by |-> q]
    BY <2>1, <2>4 DEF ScheduleBy, NoOp
  <2>6. NewOp(o) /\ o.stage = "want"
    <3>1. Len(<<>>) = 0
      OBVIOUS
    <3> QED
      BY <2>5, <3>1 DEF NewOp
  <2>7. DerivInv'
    <3>1. World'
      BY <2>2 DEF ServeInv, DerivInv, World
    <3> QED
      BY <2>2, <2>4, <2>6, <3>1, IdleStepOK DEF ServeInv, StepOK
  <2>8. Protected'
    BY <2>2, <2>3, <2>4, <2>6 DEF ServeInv, Protected, Streaming
  <2>9. DeferredIsServed'
    <3>1. Released \subseteq Released'
      BY <2>2, <2>3 DEF Released
    <3> QED
      BY <2>2, <3>1 DEF ServeInv, DeferredIsServed, Released
  <2>10. ASSUME Seen PROVE Seen'
    <3>1. PixelInv /\ DerivInv
      BY <2>10 DEF Seen, ServeInv
    <3>2. EvictCalm /\ OpPixels' /\ MoreHistory
      BY <2>1, <2>2, <2>7, <3>1, ScheduledPixels DEF MoreHistory
    <3>3. PixelInv'
      BY <2>2, <2>7, <3>1, <3>2, QuietPixels
    <3> QED
      BY <2>2, <2>10, <3>3, StepSeen DEF ServeInv
  <2> QED
    BY <2>3, <2>7, <2>8, <2>9, <2>10 DEF ServeInv
<1> QED
  BY <1>2, <1>3

\* A response ends: release_serving takes its path out of the served set.
LEMMA EndResponseKeeps ==
  ASSUME ServeInv, NEW q \in Requests, EndResponse(q)
  PROVE  ServeInv' /\ (Seen => Seen')
<1>1. PICK p : p = req[q].path
  OBVIOUS
<1>2. /\ req[q].pc = "stream" /\ FileLockFree /\ served' = served \ {p} /\ fast' = fast
      /\ UNCHANGED <<disk, cat, row, job, file, claims, worker, generating, deferred, op, sweep, audit, left>>
      /\ DerivInv /\ Asked
  BY <1>1 DEF EndResponse, db, ServeInv
<1>3. req' = [o \in Requests |->
                IF o = q THEN [req[q] EXCEPT !.pc = "released"]
                ELSE IF req[o].pc = "stream" /\ req[o].path = p
                     THEN [req[o] EXCEPT !.shared = TRUE] ELSE req[o]]
  BY <1>1 DEF EndResponse
<1>4. /\ ReqOK(req'[q]) /\ (Seen => ReqSeen(req'[q])) /\ req'[q].pc = "released" /\ req'[q].path = p
  <2>1. PICK s : s = req[q]
    OBVIOUS
  <2>2. ReqOK(s)
    BY <1>2, <2>1 DEF Asked
  <2>3. req'[q] = [s EXCEPT !.pc = "released"]
    BY <1>3, <2>1
  <2>4. req'[q] = [pc |-> "released", av |-> s.av, ident |-> s.ident, entry |-> s.entry, did |-> s.did,
                   path |-> s.path, found |-> s.found, again |-> s.again, status |-> s.status, shared |-> s.shared]
    BY <2>2, <2>3 DEF ReqOK
  <2> QED
    BY <1>1, <2>1, <2>4 DEF ReqOK, ReqSeen, Resolved
<1>5. ASSUME NEW o \in Requests, o # q
      PROVE  /\ ReqOK(req'[o]) /\ (Seen => ReqSeen(req'[o]))
             /\ req'[o].pc = req[o].pc /\ req'[o].path = req[o].path
             /\ req'[o].shared \/ (req'[o] = req[o] /\ ~(req[o].pc = "stream" /\ req[o].path = p))
  <2>1. PICK s : s = req[o]
    OBVIOUS
  <2>2. ReqOK(s) /\ (Seen => ReqSeen(s))
    BY <1>2, <2>1 DEF Asked, Seen
  <2>3. CASE s.pc = "stream" /\ s.path = p
    <3>1. req'[o] = [s EXCEPT !.shared = TRUE]
      BY <1>3, <1>5, <2>1, <2>3
    <3>2. req'[o] = [pc |-> s.pc, av |-> s.av, ident |-> s.ident, entry |-> s.entry, did |-> s.did,
                     path |-> s.path, found |-> s.found, again |-> s.again, status |-> s.status, shared |-> TRUE]
      BY <2>2, <3>1 DEF ReqOK
    <3> QED
      BY <2>1, <2>2, <3>2 DEF ReqOK, ReqSeen
  <2>4. CASE ~(s.pc = "stream" /\ s.path = p)
    BY <1>3, <1>5, <2>1, <2>2, <2>4
  <2> QED
    BY <2>3, <2>4
<1>6. Asked'
  <2>1. req' = [o \in Requests |-> req'[o]]
    BY <1>3
  <2>2. \A o \in Requests : ReqOK(req'[o])
    BY <1>4, <1>5
  <2> QED
    BY <1>2, <2>1, <2>2 DEF Asked
<1>7. DerivInv'
  <2>1. World'
    BY <1>2 DEF DerivInv, World
  <2>2. PICK o : o = op'
    OBVIOUS
  <2>3. NewOp(o)
    BY <1>2, <2>2, OpStays DEF DerivInv
  <2> QED
    BY <1>2, <2>1, <2>2, <2>3, IdleStepOK DEF StepOK
<1>8. Protected'
  <2>1. ASSUME NEW o \in Requests, req'[o].pc = "stream" PROVE req'[o].path \in served' \/ req'[o].shared
    <3>1. o # q
      BY <1>4, <2>1
    <3>2. req[o].pc = "stream" /\ (req[o].path \in served \/ req[o].shared)
      BY <1>5, <2>1, <3>1 DEF ServeInv, Protected, Streaming
    <3> QED
      BY <1>2, <1>5, <3>1, <3>2
  <2> QED
    BY <1>2, <2>1 DEF ServeInv, Protected, Streaming, FileLockFree
<1>9. DeferredIsServed'
  <2>1. Released \cup {p} \subseteq Released'
    <3>1. p \in Released'
      BY <1>4 DEF Released
    <3>2. ASSUME NEW o \in Requests, req[o].pc = "released" PROVE req[o].path \in Released'
      BY <1>1, <1>4, <1>5, <3>1, <3>2 DEF Released
    <3> QED
      BY <3>1, <3>2 DEF Released
  <2> QED
    BY <1>2, <2>1 DEF ServeInv, DeferredIsServed, Released
<1>10. ASSUME Seen PROVE Seen'
  <2>1. PixelInv
    BY <1>10 DEF Seen
  <2>2. Later /\ EvictCalm /\ MoreHistory
    BY <1>2, <2>1, CalmWorld DEF EvictCalm, MoreHistory
  <2>3. OpPixels'
    BY <1>2, <1>7, <2>1, <2>2, OpPixelsRest
  <2>4. PixelInv'
    BY <1>2, <1>7, <2>1, <2>2, <2>3, QuietPixels
  <2>5. \A o \in Requests : ReqSeen(req[o])'
    BY <1>2, <1>4, <1>5, <1>10 DEF ReqSeen, Reached
  <2>6. \A av \in Requested : EntrySeen(fast[av], av)'
    BY <1>2, <1>10 DEF Seen, EntrySeen, Reached
  <2> QED
    BY <2>4, <2>5, <2>6 DEF Seen
<1> QED
  BY <1>6, <1>7, <1>8, <1>9, <1>10 DEF ServeInv

\* release_serving finishes an unlink that was put off.
LEMMA FinishUnlinkKeeps ==
  ASSUME ServeInv, NEW q \in Requests, FinishUnlink(q)
  PROVE  ServeInv' /\ (Seen => Seen')
<1>1. PICK p : p = req[q].path
  OBVIOUS
<1>2. PICK due : due = {p} \cap (deferred \ served)
  OBVIOUS
<1>3. PICK r : r = Answered(200)
  OBVIOUS
<1>4. /\ req[q].pc = "released" /\ FileLockFree /\ deferred' = deferred \ due /\ fast' = fast
      /\ file' = [k \in Key |-> IF k \in Finished(due) THEN 0 ELSE file[k]]
      /\ UNCHANGED <<disk, cat, row, job, claims, worker, generating, served, op, sweep, audit, left>>
      /\ DerivInv /\ Asked
  BY <1>1, <1>2 DEF FinishUnlink, db, ServeInv
<1>5. ReqStep(q, r) /\ r.pc = "done"
  <2>1. req' = [req EXCEPT ![q] = r]
    BY <1>3 DEF FinishUnlink, Answer, SetReq, Answered
  <2>2. ReqOK(r) /\ ReqSeen(r) /\ r.pc = "done"
    BY <1>3, Answers
  <2> QED
    BY <1>4, <2>1, <2>2, FastStays DEF ReqStep
<1>6. Asked' /\ req'[q] = r /\ \A o \in Requests : o # q => req'[o] = req[o]
  BY <1>4, <1>5, StepAsked
<1>7. Finished(due) \subseteq deferred \ served
  BY <1>2 DEF Finished
<1>8. DerivInv'
  <2>1. World
    BY <1>4 DEF DerivInv
  <2>2. file' \in [Key -> 0..MaxIdent]
    <3>1. \A k \in Key : file[k] \in 0..MaxIdent /\ 0 \in 0..MaxIdent
      BY <2>1, DerivativeAssumption DEF World
    <3> QED
      BY <1>4, <3>1
  <2>3. World'
    BY <1>4, <2>1, <2>2 DEF World
  <2>4. PICK o : o = op'
    OBVIOUS
  <2>5. NewOp(o)
    BY <1>4, <2>4, OpStays DEF DerivInv
  <2> QED
    BY <1>4, <2>3, <2>4, <2>5, IdleStepOK DEF StepOK
<1>9. Protected'
  <2>1. \A k \in served : file'[k] # 0
    <3>1. ASSUME NEW k \in served PROVE file'[k] # 0
      <4>1. k \in Key /\ file[k] # 0 /\ k \notin Finished(due)
        BY <1>4, <1>7, <3>1 DEF ServeInv, Protected, DerivInv, World
      <4> QED
        BY <1>4, <4>1
    <3> QED
      BY <3>1
  <2> QED
    BY <1>4, <1>5, <1>6, <2>1 DEF ServeInv, Protected, Streaming
<1>10. DeferredIsServed'
  <2>1. ASSUME NEW d \in Released, d # p PROVE d \in Released'
    <3>1. PICK o \in Requests : req[o].pc = "released" /\ req[o].path = d
      BY DEF Released
    <3>2. o # q
      BY <1>1, <2>1, <3>1
    <3> QED
      BY <1>6, <3>1, <3>2 DEF Released
  <2>2. ASSUME NEW d \in deferred' PROVE d \in served' \cup Released'
    <3>1. d \in deferred /\ d \in served \cup Released
      BY <1>4, <2>2 DEF ServeInv, DeferredIsServed, Released
    <3>2. CASE d \in served
      BY <1>4, <3>2
    <3>3. CASE d \notin served
      <4>1. d # p
        BY <1>2, <1>4, <2>2, <3>1, <3>3
      <4> QED
        BY <2>1, <3>1, <3>3, <4>1
    <3> QED
      BY <3>2, <3>3
  <2> QED
    BY <2>2 DEF DeferredIsServed, Released
<1>11. ASSUME Seen PROVE Seen'
  <2>1. PixelInv
    BY <1>11 DEF Seen
  <2>2. Later /\ EvictCalm /\ MoreHistory
    BY <1>4, <2>1, CalmWorld DEF EvictCalm, MoreHistory
  <2>3. OpPixels /\ KeysPixels /\ HandPixels
    BY <2>1 DEF PixelInv, OpPixels, PutOffPixels
  <2>4. \A k \in Key : k \in op.drop \cup deferred => row[k].path = 0 /\ ~ActiveJob(job[k])
    BY <2>1, OpRelies
  <2>5. HandPixels' /\ KeysPixels'
    BY <1>4, <2>3 DEF HandPixels, KeysPixels
  <2>6. deferred' \subseteq deferred
    BY <1>4
  <2>7. \A k \in Key : k \in deferred \cup op'.drop => k \notin ToSet(op'.keys)
    BY <1>4, <2>3 DEF OpPixels, PutOffPixels
  <2>8. \A k \in Key : k \in deferred => row'[k].path = 0 /\ ~ActiveJob(job'[k])
    BY <1>4, <2>4
  <2>9. OpPixels'
    BY <1>4, <1>8, <2>1, <2>2, <2>5, <2>6, <2>7, <2>8, PutOffKept DEF OpPixels
  <2>10. ASSUME NEW k \in Key PROVE KeyPixels(k)
    <3>1. CASE k \notin Finished(due)
      BY <1>4, <2>2, <3>1, CalmKey
    <3>2. CASE k \in Finished(due)
      <4>1. k \in deferred /\ file'[k] = 0
        BY <1>4, <1>7, <3>2
      <4>2. FileStep(k)
        BY <1>4, <2>1, <2>2, <2>8, <4>1, PutOffGoes
      <4> QED
        BY <1>4, <4>2 DEF KeyPixels, PixelRowStep, EvictStep, RunStep
    <3> QED
      BY <3>1, <3>2
  <2>11. PixelStep
    BY <2>2, <2>10 DEF PixelStep
  <2>12. PixelInv'
    BY <1>4, <1>8, <2>1, <2>9, <2>11, AllRest, PixelsKept
  <2> QED
    BY <1>4, <1>5, <1>11, <2>12, StepSeen
<1> QED
  BY <1>6, <1>8, <1>9, <1>10, <1>11 DEF ServeInv

\* A step of a request.
LEMMA ServeKeeps ==
  ASSUME ServeInv, NEW q \in Requests, Serve(q)
  PROVE  ServeInv' /\ (Seen => Seen')
<1>1. Asked /\ DerivInv
  BY DEF ServeInv
<1>2. CASE Arrive(q) \/ FastCheck(q) \/ Resolve(q) \/ Lookup(q) \/ Scheduled(q) \/ Poll(q) \/ TimesOut(q)
           \/ Relookup(q)
  <2>1. \E r : Looks(q, r)
    BY <1>1, <1>2, ArriveLooks, FastCheckLooks, ResolveLooks, LookupLooks, WaitLooks, RelookupLooks
  <2> QED
    BY <2>1, LooksKeeps
<1>3. CASE FastAcquire(q) \/ AcquireFound(q) \/ Reacquire(q)
  <2>1. \E r : Looks(q, r) \/ Streams(q, r)
    BY <1>1, <1>3, FastAcquireServes, AcquireServes
  <2> QED
    BY <2>1, LooksKeeps, StreamsKeeps
<1>4. CASE RequestSchedule(q) \/ EndResponse(q) \/ FinishUnlink(q)
  BY <1>4, RequestScheduleKeeps, EndResponseKeeps, FinishUnlinkKeeps
<1> QED
  BY <1>2, <1>3, <1>4 DEF Serve

\* The fast path forgets, and nothing else happens.
LEMMA FastForgetKeeps ==
  ASSUME ServeInv, FastForget
  PROVE  ServeInv' /\ (Seen => Seen')
<1>1. UNCHANGED <<disk, cat, row, job, file, claims, worker, generating, served, deferred, op, sweep, audit, left, req>>
      /\ UNCHANGED dvars
  BY DEF FastForget, CoreSame, dvars
<1>2. PICK x \in Requested : fast' = [fast EXCEPT ![x] = NoEntry]
  BY DEF FastForget
<1>3. fast' = [av \in Requested |-> fast'[av]] /\ \A av \in Requested : fast'[av] \in {fast[av], NoEntry}
  BY <1>2 DEF ServeInv, Asked
<1>4. Asked'
  BY <1>1, <1>3 DEF ServeInv, Asked, EntryOK
<1>5. DerivInv'
  BY <1>1, Stutter DEF ServeInv
<1>6. Protected' /\ DeferredIsServed'
  BY <1>1 DEF ServeInv, Protected, DeferredIsServed, Streaming
<1>7. ASSUME Seen PROVE Seen'
  <2>1. PixelInv'
    BY <1>1, <1>5, <1>7, StutterPixels DEF ServeInv, Seen
  <2>2. \A o \in Requests : ReqSeen(req[o])'
    BY <1>1, <1>7 DEF Seen, ReqSeen, Reached
  <2>3. \A av \in Requested : EntrySeen(fast[av], av)'
    BY <1>1, <1>3, <1>7 DEF Seen, EntrySeen, Reached
  <2> QED
    BY <2>1, <2>2, <2>3 DEF Seen
<1> QED
  BY <1>4, <1>5, <1>6, <1>7 DEF ServeInv

-----------------------------------------------------------------------------
(* The steps of the scheduler, and the restart.                            *)

\* The scheduler's steps leave the served files alone, put off only unlinks of those,
\* and an eviction takes none of them in hand.
Spares ==
  /\ served' = served
  /\ \A p \in served : file[p] # 0 => file'[p] # 0
  /\ deferred' \subseteq deferred \cup served
  /\ op'.stage = "evicted" => op' = op \/ (op.stage = "reserve" /\ op'.sel \subseteq Evictable)
  /\ SourceChange \/ disk' = disk

\* A step that touches neither the files nor the caller.
LEMMA RestSpares ==
  ASSUME UNCHANGED <<file, served, deferred, op>>, SourceChange \/ disk' = disk
  PROVE  Spares
BY DEF Spares

\* A worker.
LEMMA WorkSpares ==
  ASSUME NEW w \in Workers, Work(w) \/ RenderFails(w) \/ FailRefused(w)
  PROVE  Spares
<1>1. CASE ClaimJobs(w) \/ Complete(w) \/ Fail(w) \/ ReleaseClaims(w) \/ RenderFails(w) \/ FailRefused(w)
  <2>1. UNCHANGED <<disk, file, served, deferred, op>>
    BY <1>1 DEF ClaimJobs, Complete, Fail, ReleaseClaims, RenderFails, FailRefused
  <2> QED
    BY <2>1, RestSpares
<1>2. CASE Validate(w) \/ CachePaths(w) \/ RenderKeys(w) \/ Decode(w) \/ Revalidate(w) \/ Continue(w) \/ Close(w)
  <2>1. UNCHANGED <<disk, file, served, deferred, op>>
    BY <1>2 DEF Validate, CachePaths, RenderKeys, Decode, Revalidate, Continue, Close, WorkerOnly
  <2> QED
    BY <2>1, RestSpares
<1>3. CASE Render(w)
  <2>1. PICK p, i : file' = IF file[p] = 0 THEN [file EXCEPT ![p] = i] ELSE file
    BY <1>3 DEF Render
  <2>2. UNCHANGED <<disk, served, deferred, op>>
    BY <1>3 DEF Render
  <2>3. \A x : file[x] # 0 => file'[x] = file[x]
    <3>1. ASSUME NEW x, file[x] # 0 PROVE file'[x] = file[x]
      <4>1. CASE file[p] = 0
        <5>1. x # p /\ file' = [file EXCEPT ![p] = i]
          BY <2>1, <3>1, <4>1
        <5> QED
          BY <5>1
      <4>2. CASE file[p] # 0
        BY <2>1, <4>2
      <4> QED
        BY <4>1, <4>2
    <3> QED
      BY <3>1
  <2> QED
    BY <2>2, <2>3 DEF Spares
<1>4. CASE EnforceQuota(w)
  <2>1. UNCHANGED <<disk, file, served, deferred>>
        /\ op' = [NoOp EXCEPT !.kind = "enforce", !.stage = "reserve"]
    BY <1>4 DEF EnforceQuota
  <2>2. op'.stage = "reserve"
    BY <2>1 DEF NoOp
  <2> QED
    BY <2>1, <2>2 DEF Spares
<1> QED
  BY <1>1, <1>2, <1>3, <1>4 DEF Work

\* The supervisor, the integrity pass, and others that change the source or the catalog.
LEMMA SuperviseSpares ==
  ASSUME Supervise \/ AuditRead \/ Repair \/ SourceChange \/ CatalogScan
  PROVE  Spares
<1>1. CASE Supervise
  <2>1. UNCHANGED <<disk, file, served, deferred, op>>
    BY <1>1 DEF Supervise, SweepRead, SweepWrite, RecoverRead, RecoverWrite, AuditReady, AuditDone
  <2> QED
    BY <2>1, RestSpares
<1>2. CASE AuditRead \/ Repair \/ CatalogScan
  <2>1. UNCHANGED <<disk, file, served, deferred, op>>
    BY <1>2 DEF AuditRead, Repair, CatalogScan
  <2> QED
    BY <2>1, RestSpares
<1>3. CASE SourceChange
  <2>1. UNCHANGED <<file, served, deferred, op>>
    BY <1>3 DEF SourceChange
  <2> QED
    BY <1>3, <2>1, RestSpares
<1> QED
  BY <1>1, <1>2, <1>3

\* A caller that unlinks: none of its paths is served, and it is at no eviction then.
LEMMA UnlinksSpare ==
  ASSUME ServeInv, UnlinkEvicted \/ RetireSuperseded \/ DiscardOne \/ ClearFiles
  PROVE  Spares
<1>0. DerivInv /\ OpOK /\ World /\ served \subseteq Key
  BY DEF ServeInv, DerivInv, World
<1>1. CASE UnlinkEvicted
  <2>1. UNCHANGED <<disk, served, deferred>> /\ op.stage = "evicted"
    BY <1>1 DEF UnlinkEvicted
  <2>2. PICK kept \in SUBSET op.sel :
          /\ file' = [p \in Key |-> IF \E k \in op.sel \ kept : PathOf(k, row[k].path) = p THEN 0 ELSE file[p]]
          /\ op' = [op EXCEPT !.stage = "unlinked", !.gone = op.sel \ kept]
    BY <1>1 DEF UnlinkEvicted
  <2>3. op'.stage = "unlinked"
    BY <1>0, <2>2 DEF OpOK
  <2>4. ASSUME NEW p \in served PROVE file'[p] = file[p]
    <3>1. \A k \in op.sel : PathOf(k, row[k].path) # p
      BY <2>1, <2>4 DEF ServeInv, Protected
    <3> QED
      BY <1>0, <2>2, <2>4, <3>1
  <2> QED
    BY <2>1, <2>3, <2>4 DEF Spares
<1>2. CASE RetireSuperseded
  <2>1. /\ UNCHANGED <<disk, served>> /\ deferred' = deferred \cap served
        /\ file' = [p \in Key |-> IF p \in Finished(deferred \ served) THEN 0 ELSE file[p]]
    BY <1>2 DEF RetireSuperseded
  <2>2. PICK d : op' = NoOp \/ op' = [NoOp EXCEPT !.kind = "retire", !.stage = "discard", !.drop = d]
    BY <1>2 DEF RetireSuperseded
  <2>3. op'.stage \in {"none", "discard"}
    <3>1. CASE op' = NoOp
      BY <3>1 DEF NoOp
    <3>2. CASE op' = [NoOp EXCEPT !.kind = "retire", !.stage = "discard", !.drop = d]
      BY <3>2 DEF NoOp
    <3> QED
      BY <2>2, <3>1, <3>2
  <2>4. ASSUME NEW p \in served PROVE file'[p] = file[p]
    BY <1>0, <2>1, <2>4 DEF Finished
  <2> QED
    BY <2>1, <2>3, <2>4 DEF Spares
<1>3. CASE DiscardOne
  <2>1. PICK p \in op.drop :
          /\ deferred' = IF PutOff(p) THEN deferred \cup {p} ELSE deferred
          /\ file' = IF p \in served \cup generating THEN file ELSE [file EXCEPT ![p] = 0]
          /\ op' = IF op.drop # {p} THEN [op EXCEPT !.drop = @ \ {p}]
                   ELSE IF op.keys = <<>> THEN NoOp
                   ELSE [op EXCEPT !.drop = {}, !.stage = "reserve"]
    BY <1>3 DEF DiscardOne
  <2>2. UNCHANGED <<disk, served>> /\ op.stage = "discard"
    BY <1>3 DEF DiscardOne
  <2>3. op'.stage \in {"discard", "none", "reserve"}
    BY <1>0, <2>1, <2>2 DEF OpOK, NoOp
  <2>4. deferred' \subseteq deferred \cup served
    BY <2>1 DEF PutOff
  <2>5. ASSUME NEW x \in served PROVE file'[x] = file[x]
    <3>1. CASE p \in served \cup generating
      BY <2>1, <3>1
    <3>2. CASE p \notin served \cup generating
      <4>1. x # p /\ file' = [file EXCEPT ![p] = 0]
        BY <2>1, <2>5, <3>2
      <4> QED
        BY <4>1
    <3> QED
      BY <3>1, <3>2
  <2> QED
    BY <2>2, <2>3, <2>4, <2>5 DEF Spares
<1>4. CASE ClearFiles
  <2>1. /\ UNCHANGED <<disk, served, deferred>> /\ op' = NoOp
        /\ file' = [p \in Key |-> IF p \in served \cup generating THEN file[p] ELSE 0]
    BY <1>4 DEF ClearFiles
  <2>2. op'.stage = "none"
    BY <2>1 DEF NoOp
  <2>3. \A p \in served : file'[p] = file[p]
    BY <1>0, <2>1
  <2> QED
    BY <2>1, <2>2, <2>3 DEF Spares
<1> QED
  BY <1>1, <1>2, <1>3, <1>4

\* What a reservation that is over leaves its caller with.
LEMMA ReservedStage ==
  ASSUME OpOK, NEW fits \in BOOLEAN
  PROVE  Reserved(fits).stage \in {"none", "retry", "reserve"}
<1>1. PICK ks : ks = Tail(op.keys)
  OBVIOUS
<1>2. CASE Reserved(fits) = NoOp
  BY <1>2 DEF NoOp
<1>3. CASE Reserved(fits) = [op EXCEPT !.stage = "retry", !.sel = {}, !.gone = {}]
  BY <1>3 DEF OpOK
<1>4. CASE Reserved(fits) = [op EXCEPT !.stage = "reserve", !.keys = ks, !.sel = {}, !.gone = {}]
  BY <1>4 DEF OpOK
<1> QED
  BY <1>1, <1>2, <1>3, <1>4 DEF Reserved

\* The other callers.
LEMMA CallersSpare ==
  ASSUME ServeInv, \/ SelectAndEvict \/ FinalizeAndVerify \/ ScheduleCoalesce \/ ReconcileBatch
                   \/ ReconcilePending \/ Schedule \/ Reconcile \/ ClearRows
  PROVE  Spares
<1>0. DerivInv /\ OpOK
  BY DEF ServeInv, DerivInv
<1>1. UNCHANGED <<disk, file, served, deferred>>
  BY DEF SelectAndEvict, FinalizeAndVerify, ScheduleCoalesce, ReconcileBatch, ReconcilePending, Schedule,
         Reconcile, ClearRows
<1>2. CASE SelectAndEvict
  <2>1. \/ op' = Reserved(TRUE)
        \/ op' = Reserved(FALSE)
        \/ \E sel \in SUBSET Evictable : op' = [op EXCEPT !.stage = "evicted", !.sel = sel]
    BY <1>2 DEF SelectAndEvict
  <2>2. op.stage = "reserve"
    BY <1>2 DEF SelectAndEvict
  <2>3. ASSUME NEW sel \in SUBSET Evictable, op' = [op EXCEPT !.stage = "evicted", !.sel = sel]
        PROVE  op'.sel \subseteq Evictable
    BY <1>0, <2>3 DEF OpOK
  <2> QED
    BY <1>0, <1>1, <2>1, <2>2, <2>3, ReservedStage DEF Spares
<1>3. CASE FinalizeAndVerify
  <2>1. PICK fits : fits = Fits(FinalizeEviction(Tx(NoLedger), op.sel, op.gone), Estimate)
    OBVIOUS
  <2>2. fits \in BOOLEAN
    BY <2>1 DEF Fits
  <2>3. op' = Reserved(fits)
    BY <1>3, <2>1 DEF FinalizeAndVerify
  <2> QED
    BY <1>0, <1>1, <2>2, <2>3, ReservedStage DEF Spares
<1>4. CASE ScheduleCoalesce
  <2>1. op' = NoOp \/ op' = [op EXCEPT !.stage = "reserve"]
    BY <1>4 DEF ScheduleCoalesce
  <2>2. op'.stage \in {"none", "reserve"}
    BY <1>0, <2>1 DEF OpOK, NoOp
  <2> QED
    BY <1>1, <2>2 DEF Spares
<1>5. CASE ReconcileBatch
  <2>1. PICK tx, ps, pending : op' = Committed(tx, ps, pending)
    BY <1>5 DEF ReconcileBatch
  <2>2. PICK d : \/ op' = NoOp
                      \/ op' = [op EXCEPT !.stage = "discard", !.drop = d, !.keys = pending]
                      \/ op' = [op EXCEPT !.stage = "reserve", !.keys = pending]
    BY <2>1 DEF Committed
  <2>3. op'.stage \in {"none", "discard", "reserve"}
    <3>1. CASE op' = NoOp
      BY <3>1 DEF NoOp
    <3>2. CASE op' = [op EXCEPT !.stage = "discard", !.drop = d, !.keys = pending]
      BY <1>0, <3>2 DEF OpOK
    <3>3. CASE op' = [op EXCEPT !.stage = "reserve", !.keys = pending]
      BY <1>0, <3>3 DEF OpOK
    <3> QED
      BY <2>2, <3>1, <3>2, <3>3
  <2> QED
    BY <1>1, <2>3 DEF Spares
<1>6. CASE ReconcilePending
  <2>1. PICK ks : op' = NoOp \/ op' = [op EXCEPT !.stage = "reserve", !.keys = ks]
    BY <1>6 DEF ReconcilePending
  <2>2. op'.stage \in {"none", "reserve"}
    <3>1. CASE op' = NoOp
      BY <3>1 DEF NoOp
    <3>2. CASE op' = [op EXCEPT !.stage = "reserve", !.keys = ks]
      BY <1>0, <3>2 DEF OpOK
    <3> QED
      BY <2>1, <3>1, <3>2
  <2> QED
    BY <1>1, <2>2 DEF Spares
<1>7. CASE Schedule \/ Reconcile \/ ClearRows
  <2>1. op'.stage = "want"
    BY <1>7 DEF Schedule, ScheduleBy, Reconcile, ClearRows, NoOp
  <2> QED
    BY <1>1, <2>1 DEF Spares
<1> QED
  BY <1>2, <1>3, <1>4, <1>5, <1>6, <1>7

\* Every step of the scheduler.
LEMMA SchedulerSpares ==
  ASSUME ServeInv, DNext
  PROVE  Spares
<1>1. CASE Hold \/ Call
  BY <1>1, UnlinksSpare, CallersSpare, SuperviseSpares DEF Hold, Call
<1>2. CASE ~(Hold \/ Call)
  BY <1>2, WorkSpares, SuperviseSpares DEF DNext
<1> QED
  BY <1>1, <1>2

\* Sources that change go on to later identities.
LEMMA SchedulerLater ==
  ASSUME ServeInv, ~Restores, SourceChange \/ disk' = disk
  PROVE  \A a \in Assets : disk'[a] = 0 \/ (disk[a] # 0 /\ disk[a] <= disk'[a])
<1>1. disk \in [Assets -> 0..MaxIdent] /\ MaxIdent \in Nat
  BY DerivativeAssumption DEF ServeInv, DerivInv, World
<1>2. CASE disk' = disk
  BY <1>1, <1>2
<1>3. CASE SourceChange
  <2>1. PICK a \in Assets, i \in 0..MaxIdent :
          (i = 0 \/ (i > disk[a] /\ disk[a] # 0)) /\ disk' = [disk EXCEPT ![a] = i]
    BY <1>3 DEF SourceChange
  <2> QED
    BY <1>1, <2>1
<1> QED
  BY <1>2, <1>3

\* A step of the scheduler keeps what the responses rely on.
LEMMA SchedulerKeeps ==
  ASSUME ServeInv, DNext, UNCHANGED <<req, fast>>
  PROVE  ServeInv' /\ (Seen /\ ~Restores => Seen')
<1>1. DerivInv' /\ NamesKept /\ Spares
  BY EveryStepOK, SchedulerSpares DEF ServeInv, StepOK
<1>2. Asked'
  BY DEF ServeInv, Asked
<1>3. Protected'
  <2>1. ASSUME NEW k, op'.stage = "evicted", k \in op'.sel
        PROVE  k \in Key /\ PathOf(k, row'[k].path) \notin served'
    <3>1. k \in Key /\ PathOf(k, row[k].path) \notin served /\ ~EvictionFree
      <4>1. CASE op' = op
        BY <2>1, <4>1 DEF ServeInv, Protected, EvictionFree
      <4>2. CASE op.stage = "reserve" /\ op'.sel \subseteq Evictable
        BY <2>1, <4>2 DEF Evictable, EvictionFree
      <4> QED
        BY <1>1, <2>1, <4>1, <4>2 DEF Spares
    <3>2. row'[k].path \in {0, row[k].path}
      BY <1>1, <3>1 DEF NamesKept
    <3>3. PathOf(k, 0) \notin Key
      BY DEF PathOf, Key, Ident
    <3>4. served \subseteq Key /\ served' = served
      BY <1>1 DEF Spares, ServeInv, DerivInv, World
    <3> QED
      BY <3>1, <3>2, <3>3, <3>4
  <2>2. \A p \in served' : file'[p] # 0
    BY <1>1 DEF Spares, ServeInv, Protected
  <2> QED
    BY <1>1, <2>1, <2>2 DEF Spares, ServeInv, Protected, Streaming
<1>4. DeferredIsServed'
  BY <1>1 DEF Spares, ServeInv, DeferredIsServed
<1>5. ASSUME Seen, ~Restores PROVE Seen'
  <2>1. PixelInv'
    BY <1>1, <1>5, EveryStepPixels DEF ServeInv, Seen
  <2>2. \A a \in Assets : disk'[a] = 0 \/ (disk[a] # 0 /\ disk[a] <= disk'[a])
    BY <1>1, <1>5, SchedulerLater DEF Spares
  <2>3. ASSUME NEW a \in Assets, NEW i \in Ident, Reached(a, i) PROVE Reached(a, i)'
    <3>1. disk[a] \in Nat /\ disk'[a] \in Nat /\ i \in Nat
      BY <1>1, DerivativeAssumption DEF ServeInv, DerivInv, World, Ident
    <3>2. disk'[a] = 0 \/ (disk[a] # 0 /\ disk[a] <= disk'[a])
      BY <2>2
    <3> QED
      BY <2>3, <3>1, <3>2 DEF Reached
  <2>4. ASSUME NEW q \in Requests PROVE ReqSeen(req[q])'
    <3>1. ReqOK(req[q]) /\ ReqSeen(req[q])
      BY <1>5 DEF Seen, ServeInv, Asked
    <3>2. req[q].pc \in Resolved => req[q].av[1] \in Assets /\ req[q].ident \in Ident
      BY <3>1 DEF ReqOK, Resolved, Requested
    <3>3. req[q].pc \in Resolved => Reached(req[q].av[1], req[q].ident)'
      BY <2>3, <3>1, <3>2 DEF ReqSeen
    <3> QED
      BY <3>1, <3>3 DEF ReqSeen
  <2>5. ASSUME NEW av \in Requested PROVE EntrySeen(fast[av], av)'
    <3>1. EntryOK(fast[av], av) /\ EntrySeen(fast[av], av) /\ av[1] \in Assets
      BY <1>5 DEF Seen, ServeInv, Asked, Requested
    <3>2. fast[av] # NoEntry => Reached(av[1], fast[av].ident)'
      BY <2>3, <3>1 DEF EntryOK, EntrySeen
    <3> QED
      BY <3>1, <3>2 DEF EntrySeen
  <2> QED
    BY <2>1, <2>4, <2>5 DEF Seen
<1> QED
  BY <1>1, <1>2, <1>3, <1>4, <1>5 DEF ServeInv

\* The process starts again: requests and the fast path are gone.
LEMMA RestartedKeeps ==
  ASSUME ServeInv, Restarted
  PROVE  ServeInv' /\ (Seen /\ ~Restores => Seen')
<1>1. /\ Restart /\ served' = {} /\ deferred' = {} /\ op' = NoOp
      /\ req' = [q \in Requests |-> IF req[q].pc = "new" THEN req[q] ELSE [NewReq EXCEPT !.pc = "done"]]
      /\ fast' = [av \in Requested |-> NoEntry]
  BY DEF Restarted, Restart
<1>2. DerivInv'
  BY <1>1, EveryStepOK DEF ServeInv, StepOK
<1>3. ASSUME NEW q \in Requests PROVE ReqOK(req'[q]) /\ req'[q].pc \in {"new", "done"}
  <2>1. CASE req[q].pc = "new"
    BY <1>1, <2>1 DEF ServeInv, Asked
  <2>2. CASE req[q].pc # "new"
    <3>1. PICK r : r = [NewReq EXCEPT !.pc = "done"]
      OBVIOUS
    <3>2. req'[q] = r
      BY <1>1, <2>2, <3>1
    <3>3. r = [pc |-> "done", av |-> <<>>, ident |-> 0, entry |-> NoEntry, did |-> <<>>, path |-> <<>>,
               found |-> 0, again |-> FALSE, status |-> 0, shared |-> FALSE]
      BY <3>1 DEF NewReq
    <3>4. r.pc = "done"
      BY <3>3
    <3>5. ReqOK(r)
      BY <3>3 DEF ReqOK, Resolved
    <3> QED
      BY <3>2, <3>4, <3>5
  <2> QED
    BY <2>1, <2>2
<1>4. \A av \in Requested : fast'[av] = NoEntry
  BY <1>1
<1>5. Asked'
  <2>1. req' = [q \in Requests |-> req'[q]] /\ fast' = [av \in Requested |-> fast'[av]]
    BY <1>1
  <2> QED
    BY <1>3, <1>4, <2>1 DEF Asked, EntryOK
<1>6. Protected' /\ DeferredIsServed'
  BY <1>1, <1>3 DEF Protected, DeferredIsServed, Streaming, NoOp
<1>7. ASSUME Seen, ~Restores PROVE Seen'
  <2>1. PixelInv'
    BY <1>1, <1>2, <1>7, EveryStepPixels DEF ServeInv, Seen
  <2>2. \A q \in Requests : ReqSeen(req[q])'
    BY <1>3 DEF ReqSeen, Resolved
  <2>3. \A av \in Requested : EntrySeen(fast[av], av)'
    BY <1>4 DEF EntrySeen
  <2> QED
    BY <2>1, <2>2, <2>3 DEF Seen
<1> QED
  BY <1>2, <1>5, <1>6, <1>7 DEF ServeInv

\* Every step, and none.
LEMMA EveryServeStep ==
  ASSUME ServeInv, [SNext]_svars
  PROVE  ServeInv' /\ (Seen /\ ~Restores => Seen')
<1>1. CASE \E q \in Requests : Serve(q)
  BY <1>1, ServeKeeps
<1>2. CASE FastForget
  BY <1>2, FastForgetKeeps
<1>3. CASE DNext /\ UNCHANGED <<req, fast>>
  BY <1>3, SchedulerKeeps
<1>4. CASE Restarted
  BY <1>4, RestartedKeeps
<1>5. CASE UNCHANGED svars
  <2>1. UNCHANGED <<req, fast, disk, row, file, served, deferred, op>> /\ UNCHANGED dvars
    BY <1>5 DEF svars, dvars
  <2>2. DerivInv' /\ Asked' /\ Protected' /\ DeferredIsServed'
    BY <2>1, Stutter DEF ServeInv, Asked, Protected, DeferredIsServed, Streaming
  <2>3. ASSUME Seen PROVE Seen'
    <3>1. PixelInv'
      BY <2>1, <2>2, <2>3, StutterPixels DEF ServeInv, Seen
    <3> QED
      BY <2>1, <2>3, <3>1 DEF Seen, ReqSeen, EntrySeen, Reached
  <2> QED
    BY <2>2, <2>3 DEF ServeInv
<1> QED
  BY <1>1, <1>2, <1>3, <1>4, <1>5 DEF SNext

\* The invariants hold at the start.
LEMMA ServeInitially ==
  ASSUME SInit
  PROVE  ServeInv /\ Seen
<1>1. /\ DInit /\ req = [q \in Requests |-> NewReq] /\ fast = [av \in Requested |-> NoEntry]
      /\ served = {} /\ deferred = {} /\ op = NoOp
  BY DEF SInit, DInit
<1>2. NewReq = [pc |-> "new", av |-> <<>>, ident |-> 0, entry |-> NoEntry, did |-> <<>>,
                path |-> <<>>, found |-> 0, again |-> FALSE, status |-> 0, shared |-> FALSE]
  BY DEF NewReq
<1>3. ReqOK(NewReq) /\ ReqSeen(NewReq) /\ NewReq.pc = "new"
  BY <1>2 DEF ReqOK, ReqSeen, Resolved
<1>4. Asked
  BY <1>1, <1>3 DEF Asked, EntryOK
<1>5. Protected /\ DeferredIsServed
  BY <1>1, <1>3 DEF Protected, DeferredIsServed, Streaming, NoOp
<1>6. Seen
  BY <1>1, <1>3, PixelsInitially DEF Seen, EntrySeen
<1> QED
  BY <1>1, <1>4, <1>5, <1>6, DerivInitially DEF ServeInv

-----------------------------------------------------------------------------
(* The theorems.                                                           *)

\* The invariants hold always.
LEMMA ServeAlways == SSpec => []ServeInv
<1>1. SInit => ServeInv
  BY ServeInitially
<1>2. ServeInv /\ [SNext]_svars => ServeInv'
  BY EveryServeStep
<1> QED
  BY <1>1, <1>2, PTL DEF SSpec
LEMMA SeenAlways == ~Restores /\ SSpec => []Seen
<1>1. SInit => Seen
  BY ServeInitially
<1>2. ServeInv /\ Seen /\ ~Restores /\ [SNext]_svars => Seen'
  BY EveryServeStep
<1>3. ~Restores => [](~Restores)
  OBVIOUS
<1> QED
  BY <1>1, <1>2, <1>3, ServeAlways, PTL DEF SSpec

\* Quota, supersession, clearing and deferred unlinks leave a file alone while it is
\* streamed (try_acquire_serving, _reserve_capacity, _discard_retired_files,
\* release_serving), until its response or another of the same file ends.
THEOREM StreamedFilesStay == SSpec => []ServedOnDisk
<1>1. ServeInv => ServedOnDisk
  BY DEF ServeInv, Protected, ServedOnDisk, Uncovered
<1> QED
  BY <1>1, ServeAlways, PTL

\* An unlink that was put off is finished by a response that is still open
\* (_discard_retired_files, release_serving, _finish_deferred_unlink).
THEOREM PutOffUnlinksAreFinished == SSpec => []DeferredIsServed
<1>1. ServeInv => DeferredIsServed
  BY DEF ServeInv
<1> QED
  BY <1>1, ServeAlways, PTL

\* While the source is what the request found, the response streams its pixels
\* (_serve_derivative, _check_fast_path, acquire_ready_derivative), if no source file
\* returns to an identity it had before.
THEOREM ResponsesAreCurrent == ~Restores /\ SSpec => []CurrentPixelsServed
<1>1. ASSUME ServeInv, Seen PROVE CurrentPixelsServed
  <2>1. ASSUME NEW q \in Requests, Streaming(q), SourceOf(q) = req[q].ident,
               ~(file[req[q].path] = 0 /\ Uncovered(q))
        PROVE  file[req[q].path] = req[q].ident
    <3>1. PICK s : s = req[q]
      OBVIOUS
    <3>2. PICK p : p = s.path
      OBVIOUS
    <3>3. ReqOK(s) /\ ReqSeen(s) /\ s.pc = "stream"
      BY <1>1, <2>1, <3>1 DEF Seen, ServeInv, Asked, Streaming
    <3>4. p \in Key /\ p[1] = s.av[1] /\ s.ident \in Ident /\ s.ident <= p[3]
      BY <3>2, <3>3 DEF ReqOK, ReqSeen, FileFor, Resolved
    <3>5. file[p] # 0
      BY <1>1, <2>1, <3>1, <3>2 DEF ServeInv, Protected, Uncovered
    <3>6. p[3] <= file[p] /\ Reached(p[1], file[p])
      BY <1>1, <3>4, <3>5 DEF Seen, PixelInv, WorldPixels
    <3>7. disk[p[1]] = s.ident
      BY <2>1, <3>1, <3>4 DEF SourceOf
    <3>8. file[p] \in Nat /\ p[3] \in Nat /\ s.ident \in Nat /\ s.ident # 0
      BY <1>1, <3>4, KeyFacts, DerivativeAssumption DEF ServeInv, DerivInv, World, Ident
    <3> QED
      BY <3>1, <3>2, <3>4, <3>6, <3>7, <3>8 DEF Reached
  <2> QED
    BY <2>1 DEF CurrentPixelsServed
<1> QED
  BY <1>1, ServeAlways, SeenAlways, PTL

-----------------------------------------------------------------------------
(* What the scheduler promises, it promises with requests around it too.   *)

\* A request changes no row, no job and no claim.
LEMMA RequestsChangeNoJob ==
  ASSUME NEW q \in Requests, Serve(q)
  PROVE  UNCHANGED <<row, job, worker, audit>>
<1>1. CASE \/ Arrive(q) \/ FastCheck(q) \/ Resolve(q) \/ Lookup(q) \/ Scheduled(q) \/ Poll(q) \/ TimesOut(q)
           \/ Relookup(q)
  BY <1>1 DEF Arrive, FastCheck, Resolve, Lookup, Scheduled, Poll, TimesOut, Relookup, CoreSame, dvars, db
<1>2. CASE FastAcquire(q)
  BY <1>2 DEF FastAcquire, db
<1>3. CASE AcquireFound(q) \/ Reacquire(q)
  BY <1>3 DEF AcquireFound, Reacquire, Acquire, db
<1>4. CASE RequestSchedule(q)
  BY <1>4 DEF RequestSchedule, db
<1>5. CASE EndResponse(q) \/ FinishUnlink(q)
  BY <1>5 DEF EndResponse, FinishUnlink, db
<1> QED
  BY <1>1, <1>2, <1>3, <1>4, <1>5 DEF Serve

\* So every step is one of the scheduler, or leaves rows, jobs and claims alone.
LEMMA SchedulerStepOrNone ==
  ASSUME [SNext]_svars
  PROVE  DNext \/ Restart \/ UNCHANGED <<row, job, worker, audit>>
<1>1. CASE FastForget \/ UNCHANGED svars
  BY <1>1 DEF FastForget, CoreSame, svars, dvars, db
<1>2. CASE (DNext /\ UNCHANGED <<req, fast>>) \/ Restarted
  BY <1>2 DEF Restarted
<1>3. CASE \E q \in Requests : Serve(q)
  BY <1>3, RequestsChangeNoJob
<1> QED
  BY <1>1, <1>2, <1>3 DEF SNext

\* Requests that schedule and wait, and responses that hold files, leave the queue
\* of derivatives a queue: only the holder of a claim publishes its result
\* (schedule_derivative, _complete_claim, release_serving).
THEOREM ServingImplementsQueue == SSpec => LeasesFence
<1>1. DerivInv /\ UNCHANGED <<row, job, worker, audit>> => UNCHANGED Queue!lqvars
  <2>1. ASSUME UNCHANGED <<row, job, worker, audit>> PROVE \A k : HeldTokens(k)' = HeldTokens(k)
    BY <2>1 DEF HeldTokens
  <2> QED
    BY <2>1 DEF Queue!lqvars
<1>2. ServeInv /\ [SNext]_svars => [Queue!Next]_(Queue!lqvars)
  BY <1>1, SchedulerStepOrNone, EveryStepOK DEF StepOK, ServeInv
<1>3. SInit => Queue!Init
  BY QueueInitially DEF SInit
<1> QED
  BY <1>2, <1>3, ServeAlways, PTL DEF SSpec, LeasesFence, Queue!Spec

\* What is offered as ready has a file with its pixels while requests are served
\* and unlinks are put off (acquire_ready_derivative, release_serving).
THEOREM ServedRowsHavePixels == ~Restores /\ SSpec => []ReadyHasPixels
<1>1. ServeInv /\ Seen => ReadyHasPixels
  BY PixelsAreReady DEF ServeInv, Seen
<1> QED
  BY <1>1, ServeAlways, SeenAlways, PTL
=============================================================================
