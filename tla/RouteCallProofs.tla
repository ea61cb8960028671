-------------------------- MODULE RouteCallProofs ---------------------------
(***************************************************************************)
(* Theorems about RouteCall, for every set of slots, handlers of any       *)
(* number of arguments, return values of any nesting, any limit and any    *)
(* length of bodies.                                                       *)
(*                                                                         *)
(* What the steps need to know from each other: that a part is spent when, *)
(* and only when, its item is there (Extracting), what the items say of    *)
(* the body while the client may still send (ItemFits), and how the value  *)
(* a responder is at relates to the one the handler returned (Handling).   *)
(***************************************************************************)
EXTENDS RouteCall, Induction, SequenceTheorems

\* A value as a handler returns it: wrappers and futures around an inner one.
IsValue(v) ==
  /\ v \in Seq(Layers) /\ v # << >>
  /\ v[Len(v)] \in Inner
  /\ \A k \in 1..(Len(v) - 1) : v[k] \in Wrappers \cup {"future"}

HasFuture(v) == \E k \in 1..Len(v) : v[k] = "future"

\* The response of v is that of w, or an error of a future in w.
Leads(v, w) ==
  /\ HasFuture(v) => HasFuture(w)
  /\ v[Len(v)] = w[Len(w)] \/ (v[Len(v)] = "err" /\ HasFuture(w))

\* What an item of part n says of the body.
BodyFits(r, n, item) ==
  IF holder[r] = n
  THEN item.got = "value" => client[r].end = "complete" /\ item.body = client[r].sent
  ELSE item.body = 0

\* An item that is there: its part is spent, and did not fail if that counts.
ItemFits(r, n) ==
  /\ sig[r][n].kind = "custom" => parts[r][n].state = "taken"
  /\ sig[r][n].wrap = "plain" => Outcome(r, n) # "err" /\ items[r][n].got = "value"
  /\ BodyFits(r, n, items[r][n])

Extracting(r) ==
  phase[r] = "extract" =>
    /\ request[r] = "extract" /\ args[r] = << >>
    /\ sig[r] \in Signatures
    /\ Len(parts[r]) = Len(sig[r]) /\ Len(items[r]) = Len(sig[r])
    /\ holder[r] = Holder(sig[r], head[r])
    /\ \A n \in 1..Len(sig[r]) :
         IF items[r][n] = Missing THEN parts[r][n].state # "taken" ELSE ItemFits(r, n)

Handling(r) ==
  phase[r] = "handle" =>
    /\ request[r] = "handle"
    /\ Len(args[r]) = Len(sig[r])
    /\ IsValue(returned[r])
    /\ IsValue(handler[r].value) /\ handler[r].value[1] \notin Wrappers
    /\ ~handler[r].ready => handler[r].value[1] = "future"
    /\ Leads(handler[r].value, returned[r])

\* The body of a request is in no argument but its taker's.
ArgsFit(r) ==
  /\ phase[r] = "idle" => args[r] = << >>
  /\ args[r] # << >> => /\ holder[r] = Holder(sig[r], head[r])
                        /\ sig[r] \in Signatures
                        /\ phase[r] # "extract"
                        /\ Len(args[r]) = Len(sig[r])
  /\ \A n \in 1..Len(args[r]) : BodyFits(r, n, args[r][n])

\* What a sleeping request waits for is still to come.
IsAwaiting(r, n) ==
  IF n = 0 THEN phase[r] = "handle" /\ ~handler[r].ready
  ELSE \/ holder[r] = n /\ client[r].end = "open"
       \/ sig[r][n].kind = "custom" /\ parts[r][n].state = "pending"

Sleeping(r) ==
  phase[r] \in {"extract", "handle"} /\ task[r] = "parked" =>
    waits[r] # {} /\ \A n \in waits[r] : IsAwaiting(r, n)

\* The response is the handler's, or that of the first part to fail.
Answered(r) ==
  phase[r] = "answered" =>
    IF answer[r].by = 0
    THEN /\ Len(args[r]) = Len(sig[r])
         /\ returned[r] # << >>
         /\ \/ /\ answer[r].status = Reply(Last(returned[r])).status
               /\ answer[r].type   = Reply(Last(returned[r])).type
            \/ answer[r].status = "error" /\ HasFuture(returned[r])
    ELSE /\ args[r] = << >>
         /\ answer[r].by \in 1..Len(sig[r])
         /\ sig[r][answer[r].by].wrap = "plain"
         /\ \A m \in 1..(answer[r].by - 1) : sig[r][m].wrap = "plain" => Outcome(r, m) # "err"

SlotInv(r) ==
  /\ Extracting(r) /\ Handling(r) /\ ArgsFit(r) /\ Sleeping(r) /\ Answered(r)
  /\ phase[r] # "panicked"

IInv == TypeOK /\ \A r \in Slots : SlotInv(r)

-----------------------------------------------------------------------------
(* The operators the model is built from *)

LEMMA FunctionIsSeq ==
  ASSUME NEW S, NEW n \in Nat, NEW f \in [1..n -> S]
  PROVE  f \in Seq(S) /\ Len(f) = n
<1>1. f = [k \in 1..n |-> f[k]]
  OBVIOUS
<1>2. f \in Seq(S)
  BY SeqDef
<1> QED BY <1>1, <1>2, LenProperties

\* A handler's future from which the value is taken.
LEMMA Emptied ==
  ASSUME NEW S, NEW D, NEW r \in D,
         NEW h \in [D -> [value : Seq(S), ready : BOOLEAN]]
  PROVE  [h EXCEPT ![r].value = << >>] \in [D -> [value : Seq(S), ready : BOOLEAN]]
<1> DEFINE emptied == [h[r] EXCEPT !.value = << >>]
<1>1. << >> \in Seq(S)
  BY EmptySeq
<1>2. emptied \in [value : Seq(S), ready : BOOLEAN]
  BY <1>1
<1>3. [h EXCEPT ![r].value = << >>] = [h EXCEPT ![r] = emptied]
  OBVIOUS
<1> QED BY <1>2, <1>3

LEMMA SignatureType ==
  ASSUME NEW s \in Signatures \cup {<< >>}
  PROVE  /\ s \in Seq(Extractors) /\ Len(s) \in Nat /\ DOMAIN s = 1..Len(s)
         /\ \A n \in 1..Len(s) : /\ s[n].kind \in Kinds /\ s[n] \in Extractors
                                 /\ s[n].wrap \in {"plain", "option", "result"}
<1>1. s \in Seq(Extractors)
  BY SignaturesAssumption, EmptySeq
<1>2. Len(s) \in Nat /\ DOMAIN s = 1..Len(s)
  BY <1>1, LenProperties
<1>3. \A n \in 1..Len(s) : s[n] \in Extractors
  BY <1>1, ElementOfSeq
<1> QED BY <1>1, <1>2, <1>3 DEF Extractors

\* The places of arguments are those of some signature.
LEMMA PartsAreNumbered ==
  /\ MaxParts \subseteq Nat \ {0}
  /\ \A s \in Signatures : 1..Len(s) \subseteq MaxParts
BY SignatureType DEF MaxParts

\* The payload goes to the first taker, or to nobody.
LEMMA HolderIsFirst ==
  ASSUME NEW s \in Signatures \cup {<< >>}, NEW h \in Heads
  PROVE  /\ Holder(s, h) = 0 => Takers(s, h) = {}
         /\ Holder(s, h) # 0 => /\ Holder(s, h) \in Takers(s, h)
                                /\ \A m \in Takers(s, h) : Holder(s, h) <= m
         /\ Takers(s, h) \subseteq 1..Len(s)
         /\ Holder(s, h) \in {0} \cup 1..Len(s)
<1>1. Takers(s, h) \subseteq 1..Len(s) /\ Len(s) \in Nat
  BY SignatureType DEF Takers
<1>2. Takers(s, h) \subseteq Nat /\ 0 \notin Takers(s, h)
  BY <1>1
<1>3. CASE Takers(s, h) = {}
  BY <1>1, <1>3 DEF Holder
<1>4. CASE Takers(s, h) # {}
  BY <1>1, <1>2, <1>4, MinIsLeast DEF Holder
<1> QED BY <1>3, <1>4

\* Only what reads an open body, or is somebody else's, is ever pending.
LEMMA OutcomeType ==
  ASSUME NEW kind \in Kinds, NEW h \in Heads,
         NEW fut \in [state : {"pending", "ok", "err", "taken"}, fits : BOOLEAN],
         NEW body \in [sent : Nat, end : {"open", "complete", "gone"}]
  PROVE  /\ PartOutcome(kind, fut, h, body) \in {"pending", "ok", "err", "taken"}
         /\ PartOutcome(kind, fut, h, body) = "pending" =>
              IF kind = "custom" THEN fut.state = "pending" ELSE body.end = "open"
         /\ PartOutcome(kind, fut, h, body) = "taken" => kind = "custom" /\ fut.state = "taken"
         /\ PartOutcome(kind, fut, h, body) = "ok" /\ kind \in BodyKinds =>
              body.end = "complete" /\ body.sent <= Limit
BY LimitAssumption DEF PartOutcome, BodyOutcome, Kinds, BodyKinds

LEMMA EmptyBodyType == NoBody \in [sent : Nat, end : {"open", "complete", "gone"}]
BY DEF NoBody

\* What respond_to goes on with: the rest from the first layer that is not
\* passed through.
LEMMA UnwrappedIsRest ==
  ASSUME NEW v, IsValue(v)
  PROVE  /\ IsValue(Unwrapped(v)) /\ Unwrapped(v)[1] \notin Wrappers
         /\ Leads(Unwrapped(v), v)
<1> DEFINE I == {k \in 1..Len(v) : v[k] \notin Wrappers}
           i == Min(I)
           u == SubSeq(v, i, Len(v))
<1>1. /\ Len(v) \in Nat \ {0} /\ v \in Seq(Layers)
      /\ \A k \in 1..Len(v) : v[k] \in Layers
  <2>1. v \in Seq(Layers) /\ v # << >>
    BY DEF IsValue
  <2>2. Len(v) \in Nat \ {0}
    BY <2>1, EmptySeq
  <2> QED BY <2>1, <2>2, ElementOfSeq
<1>2. Len(v) \in I
  BY <1>1 DEF IsValue, Inner, Wrappers
<1>3. i \in I /\ \A y \in I : i <= y
  <2>1. I \subseteq Nat /\ I # {}
    BY <1>1, <1>2
  <2> HIDE DEF I
  <2> QED BY <2>1, MinIsLeast
<1>4. Unwrapped(v) = u
  BY <1>2 DEF Unwrapped, SelectInSeq
<1>5. /\ u \in Seq(Layers) /\ Len(u) = Len(v) - i + 1
      /\ \A k \in 1..(Len(v) - i + 1) : u[k] = v[i + k - 1]
  <2>1. i \in Int /\ Len(v) \in Int /\ i <= Len(v) /\ \A k \in i..Len(v) : v[k] \in Layers
    BY <1>1, <1>3
  <2> HIDE DEF I, i
  <2> QED BY <2>1, SubSeqProperties
<1>6. i \in 1..Len(v) /\ v[i] \notin Wrappers
  BY <1>3
<1> HIDE DEF I, i, u
<1>7. u # << >> /\ u[Len(u)] = v[Len(v)] /\ u[1] = v[i]
  BY <1>1, <1>5, <1>6
<1>8. \A k \in 1..(Len(u) - 1) : u[k] \in Wrappers \cup {"future"}
  BY <1>1, <1>5, <1>6 DEF IsValue
<1>9. IsValue(u)
  BY <1>5, <1>7, <1>8 DEF IsValue
<1>10. HasFuture(u) => HasFuture(v)
  <2>1. \A k \in 1..Len(u) : i + k - 1 \in 1..Len(v) /\ u[k] = v[i + k - 1]
    BY <1>1, <1>5, <1>6
  <2> QED BY <2>1 DEF HasFuture
<1> QED BY <1>4, <1>6, <1>7, <1>9, <1>10 DEF Leads

\* The future around a value has it, and the value is looked at.
LEMMA TailIsRest ==
  ASSUME NEW v, IsValue(v), v[1] = "future"
  PROVE  IsValue(Tail(v)) /\ Leads(Tail(v), v)
<1>1. v \in Seq(Layers) /\ v # << >> /\ Len(v) \in Nat \ {0}
  BY EmptySeq DEF IsValue
<1>2. Len(v) # 1
  BY <1>1 DEF IsValue, Inner
<1>3. /\ Tail(v) \in Seq(Layers) /\ Len(Tail(v)) = Len(v) - 1
      /\ \A k \in 1..(Len(v) - 1) : Tail(v)[k] = v[k + 1]
  BY <1>1, HeadTailProperties
<1> DEFINE t == Tail(v)
<1> HIDE DEF t
<1>4. t \in Seq(Layers) /\ Len(t) = Len(v) - 1 /\ Len(t) >= 1 /\ t # << >>
  <2>1. t \in Seq(Layers) /\ Len(t) = Len(v) - 1 /\ Len(t) >= 1
    BY <1>1, <1>2, <1>3 DEF t
  <2> QED BY <2>1, EmptySeq
<1>5. \A k \in 1..Len(t) : k + 1 \in 1..Len(v) /\ t[k] = v[k + 1]
  BY <1>1, <1>3, <1>4 DEF t
<1>6. t[Len(t)] = v[Len(v)]
  BY <1>1, <1>4, <1>5
<1>7. \A k \in 1..(Len(t) - 1) : t[k] \in Wrappers \cup {"future"}
  <2>1. \A k \in 1..(Len(t) - 1) : k + 1 \in 1..(Len(v) - 1) /\ t[k] = v[k + 1]
    BY <1>1, <1>4, <1>5
  <2> QED BY <2>1 DEF IsValue
<1>8. HasFuture(t) => HasFuture(v)
  BY <1>5 DEF HasFuture
<1>9. IsValue(t)
  BY <1>4, <1>6, <1>7 DEF IsValue
<1> QED BY <1>6, <1>8, <1>9 DEF t, Leads

LEMMA LeadsOn ==
  ASSUME NEW u, NEW v, NEW w, Leads(u, v), Leads(v, w)
  PROVE  Leads(u, w)
BY DEF Leads

LEMMA ReturnedIsValue == \A v \in Values : IsValue(v)
BY ValuesAssumption DEF IsValue, Last

\* The future of a responder for v.
LEMMA RespondToType ==
  ASSUME NEW v, IsValue(v), NEW fut \in RespondTo(v)
  PROVE  /\ fut = [value |-> fut.value, ready |-> fut.ready] /\ fut.ready \in BOOLEAN
         /\ IsValue(fut.value) /\ fut.value[1] \notin Wrappers
         /\ ~fut.ready => fut.value[1] = "future"
         /\ Leads(fut.value, v)
<1> DEFINE left == Unwrapped(v)
<1>1. IsValue(left) /\ left[1] \notin Wrappers /\ Leads(left, v)
  BY UnwrappedIsRest
<1>2. left # << >> /\ Head(left) = left[1] /\ 1 \in 1..Len(left)
  BY <1>1, EmptySeq DEF IsValue
<1> DEFINE failed == <<"future", "err">>
<1>3. /\ IsValue(failed) /\ failed[1] = "future"
      /\ failed[Len(failed)] = "err"
  BY DEF IsValue, Layers, Inner, Wrappers
<1>4. left[1] = "future" => Leads(failed, v)
  BY <1>1, <1>2, <1>3 DEF Leads, HasFuture
<1>5. \/ fut = [value |-> left, ready |-> TRUE]
      \/ left[1] = "future" /\ fut = [value |-> left, ready |-> FALSE]
      \/ left[1] = "future" /\ fut = [value |-> failed, ready |-> TRUE]
  <2> HIDE DEF left
  <2>1. RespondTo(v) = IF left # << >> /\ Head(left) = "future"
                       THEN {[value |-> left, ready |-> FALSE], [value |-> left, ready |-> TRUE],
                             [value |-> failed, ready |-> TRUE]}
                       ELSE {[value |-> left, ready |-> TRUE]}
    BY DEF RespondTo, IsFuture, Completed, Failed, left
  <2> QED BY <1>2, <2>1
<1> HIDE DEF left, failed
<1>6. CASE fut = [value |-> left, ready |-> TRUE]
  BY <1>1, <1>6
<1>7. CASE left[1] = "future" /\ fut = [value |-> left, ready |-> FALSE]
  BY <1>1, <1>7
<1>8. CASE left[1] = "future" /\ fut = [value |-> failed, ready |-> TRUE]
  BY <1>3, <1>4, <1>8 DEF Wrappers
<1> QED BY <1>5, <1>6, <1>7, <1>8

-----------------------------------------------------------------------------
(* A step of one slot leaves the others alone *)

Same(r) ==
  /\ phase'[r] = phase[r] /\ sig'[r] = sig[r] /\ head'[r] = head[r]
  /\ client'[r] = client[r] /\ holder'[r] = holder[r] /\ parts'[r] = parts[r]
  /\ items'[r] = items[r] /\ request'[r] = request[r] /\ args'[r] = args[r]
  /\ returned'[r] = returned[r] /\ handler'[r] = handler[r]
  /\ answer'[r] = answer[r] /\ task'[r] = task[r] /\ waits'[r] = waits[r]

LEMMA OthersKeep == ASSUME NEW r, Same(r), SlotInv(r) PROVE SlotInv(r)'
<1> USE DEF Same
<1>1. \A n : Outcome(r, n)' = Outcome(r, n)
  BY DEF Outcome, BodyOf
<1>2. \A n, item : BodyFits(r, n, item)' = BodyFits(r, n, item)
  BY DEF BodyFits
<1>3. \A n : ItemFits(r, n)' = ItemFits(r, n)
  BY <1>1, <1>2 DEF ItemFits
<1>4. Extracting(r)'
  BY <1>3 DEF SlotInv, Extracting
<1>5. Handling(r)'
  BY DEF SlotInv, Handling
<1>6. ArgsFit(r)'
  BY <1>2 DEF SlotInv, ArgsFit
<1>7. Sleeping(r)'
  BY DEF SlotInv, Sleeping, IsAwaiting
<1>8. Answered(r)'
  BY <1>1 DEF SlotInv, Answered
<1> QED BY <1>4, <1>5, <1>6, <1>7, <1>8 DEF SlotInv

\* What a slot's variables are.
LEMMA SlotType ==
  ASSUME TypeOK, NEW r \in Slots
  PROVE  /\ sig[r] \in Signatures \cup {<< >>} /\ head[r] \in Heads
         /\ client[r] \in [sent : Nat, end : {"open", "complete", "gone"}]
         /\ parts[r] \in Seq([state : {"pending", "ok", "err", "taken"}, fits : BOOLEAN])
         /\ items[r] \in Seq(ItemType) /\ args[r] \in Seq(ItemType \ {Missing})
         /\ Len(sig[r]) \in Nat /\ Len(parts[r]) \in Nat /\ Len(items[r]) \in Nat
         /\ DOMAIN parts[r] = 1..Len(parts[r]) /\ DOMAIN items[r] = 1..Len(items[r])
         /\ DOMAIN sig[r] = 1..Len(sig[r])
         /\ \A n \in 1..Len(parts[r]) :
              parts[r][n] \in [state : {"pending", "ok", "err", "taken"}, fits : BOOLEAN]
         /\ \A n \in 1..Len(items[r]) : items[r][n] \in ItemType
<1>1. /\ sig[r] \in Signatures \cup {<< >>} /\ head[r] \in Heads
      /\ client[r] \in [sent : Nat, end : {"open", "complete", "gone"}]
      /\ parts[r] \in Seq([state : {"pending", "ok", "err", "taken"}, fits : BOOLEAN])
      /\ items[r] \in Seq(ItemType) /\ args[r] \in Seq(ItemType \ {Missing})
  BY BodyAssumption DEF TypeOK
<1>2. Len(sig[r]) \in Nat /\ DOMAIN sig[r] = 1..Len(sig[r])
  BY <1>1, SignatureType
<1>3. /\ Len(parts[r]) \in Nat /\ DOMAIN parts[r] = 1..Len(parts[r])
      /\ \A n \in 1..Len(parts[r]) :
           parts[r][n] \in [state : {"pending", "ok", "err", "taken"}, fits : BOOLEAN]
  BY <1>1, LenProperties, ElementOfSeq
<1>4. /\ Len(items[r]) \in Nat /\ DOMAIN items[r] = 1..Len(items[r])
      /\ \A n \in 1..Len(items[r]) : items[r][n] \in ItemType
  BY <1>1, LenProperties, ElementOfSeq
<1> QED BY <1>1, <1>2, <1>3, <1>4

\* What polling a part gives.
LEMMA PartOutcomes ==
  ASSUME TypeOK, NEW r \in Slots, Len(parts[r]) = Len(sig[r]), NEW n \in 1..Len(sig[r])
  PROVE  /\ BodyOf(r, n) \in [sent : Nat, end : {"open", "complete", "gone"}]
         /\ Outcome(r, n) \in {"pending", "ok", "err", "taken"}
         /\ Outcome(r, n) = "pending" =>
              IF sig[r][n].kind = "custom" THEN parts[r][n].state = "pending"
              ELSE holder[r] = n /\ client[r].end = "open"
         /\ Outcome(r, n) = "taken" => sig[r][n].kind = "custom" /\ parts[r][n].state = "taken"
         /\ Outcome(r, n) = "ok" /\ holder[r] = n /\ sig[r][n].kind \in BodyKinds =>
              client[r].end = "complete" /\ client[r].sent <= Limit
<1>1. /\ sig[r][n].kind \in Kinds /\ head[r] \in Heads
      /\ parts[r][n] \in [state : {"pending", "ok", "err", "taken"}, fits : BOOLEAN]
  BY SlotType, SignatureType
<1>2. BodyOf(r, n) \in [sent : Nat, end : {"open", "complete", "gone"}]
  BY SlotType, EmptyBodyType DEF BodyOf
<1>3. BodyOf(r, n).end = "open" => holder[r] = n /\ client[r].end = "open"
  BY DEF BodyOf, NoBody
<1>4. holder[r] = n => BodyOf(r, n) = client[r]
  BY DEF BodyOf
<1> QED BY <1>1, <1>2, <1>3, <1>4, OutcomeType DEF Outcome

-----------------------------------------------------------------------------
(* The invariant holds initially, and the actions keep it *)

LEMMA InitIInv == Init => IInv
<1> SUFFICES ASSUME Init PROVE IInv
  OBVIOUS
<1>1. TypeOK
  <2>1. \A S : << >> \in Seq(S)
    BY EmptySeq
  <2>2. /\ phase  \in [Slots -> Over \cup {"extract", "handle"}]
        /\ sig    \in [Slots -> Signatures \cup {<< >>}]
        /\ head   \in [Slots -> Heads]
        /\ client \in [Slots -> [sent : 0..MaxBody, end : {"open", "complete", "gone"}]]
        /\ holder \in [Slots -> MaxParts \cup {0}]
    BY BodyAssumption DEF Init, Over, NoHead, Heads
  <2>3. /\ parts  \in [Slots -> Seq([state : {"pending", "ok", "err", "taken"}, fits : BOOLEAN])]
        /\ items   \in [Slots -> Seq(ItemType)]
        /\ request \in [Slots -> {"nobody", "extract", "handle"}]
        /\ args    \in [Slots -> Seq(ItemType \ {Missing})]
        /\ returned \in [Slots -> Values \cup {<< >>}]
    BY <2>1 DEF Init
  <2>4. handler \in [Slots -> [value : Seq(Layers), ready : BOOLEAN]]
    BY <2>1 DEF Init, NoResponder
  <2>5. /\ answer \in [Slots -> [by : MaxParts \cup {0}, status : Statuses, type : MediaTypes]]
        /\ task    \in [Slots -> {"woken", "polling", "parked"}]
        /\ waits   \in [Slots -> SUBSET (MaxParts \cup {0})]
    <3>1. NoAnswer \in [by : MaxParts \cup {0}, status : Statuses, type : MediaTypes]
      BY DEF NoAnswer, Statuses, MediaTypes
    <3> QED BY <3>1 DEF Init
  <2> QED BY <2>2, <2>3, <2>4, <2>5 DEF TypeOK
<1>2. ASSUME NEW r \in Slots PROVE SlotInv(r)
  BY EmptySeq DEF Init, SlotInv, Extracting, Handling, ArgsFit, Sleeping, Answered
<1> QED BY <1>1, <1>2 DEF IInv

LEMMA CallKeeps ==
  ASSUME IInv, NEW r \in Slots, NEW s \in Signatures, NEW h \in Heads, Call(r, s, h)
  PROVE  TypeOK' /\ SlotInv(r)'
<1> USE DEF Call
<1>1. TypeOK /\ SlotInv(r)
  BY DEF IInv
<1>2. s \in Seq(Extractors) /\ Len(s) \in Nat /\ DOMAIN s = 1..Len(s)
  BY SignatureType
<1>3. PICK futs \in [DOMAIN s -> UNION {Futures(s[n].kind, h) : n \in DOMAIN s}] :
         /\ \A n \in DOMAIN s : futs[n] \in Futures(s[n].kind, h)
         /\ parts' = [parts EXCEPT ![r] = futs]
  OBVIOUS
<1>4. \A n \in 1..Len(s) : futs[n] \in [state : {"pending"}, fits : BOOLEAN]
  BY <1>2, <1>3 DEF Futures, Fits
<1>5. /\ futs \in Seq([state : {"pending", "ok", "err", "taken"}, fits : BOOLEAN])
      /\ Len(futs) = Len(s)
  <2>1. futs \in [1..Len(s) -> [state : {"pending", "ok", "err", "taken"}, fits : BOOLEAN]]
    BY <1>2, <1>3, <1>4
  <2> QED BY <1>2, <2>1, FunctionIsSeq
<1> DEFINE none == [n \in DOMAIN s |-> Missing]
<1>6. none \in Seq(ItemType) /\ Len(none) = Len(s)
  BY <1>2, LimitAssumption DEF Missing, ItemType
<1>7. Holder(s, h) \in MaxParts \cup {0}
  BY HolderIsFirst, PartsAreNumbered
<1> HIDE DEF none
<1>8. TypeOK'
  BY <1>1, <1>3, <1>5, <1>6, <1>7 DEF TypeOK, none
<1>9. /\ phase'[r] = "extract" /\ sig'[r] = s /\ head'[r] = h /\ parts'[r] = futs
      /\ holder'[r] = Holder(s, h) /\ items'[r] = none /\ request'[r] = "extract"
      /\ task'[r] = "woken" /\ args'[r] = args[r]
  BY <1>1, <1>3 DEF TypeOK, none
<1>10. args'[r] = << >>
  BY <1>1, <1>9 DEF SlotInv, ArgsFit
<1>11. Extracting(r)'
  <2>1. \A n \in 1..Len(s) : none[n] = Missing /\ futs[n].state = "pending"
    BY <1>2, <1>4 DEF none
  <2> QED BY <1>5, <1>6, <1>9, <1>10, <2>1 DEF Extracting
<1>12. ArgsFit(r)'
  BY <1>9, <1>10, EmptySeq DEF ArgsFit
<1>13. (Handling(r) /\ Sleeping(r) /\ Answered(r))'
  BY <1>9 DEF Handling, Sleeping, Answered
<1> QED BY <1>8, <1>9, <1>11, <1>12, <1>13 DEF SlotInv

\* Nothing is left to go wrong once a request is dropped, or its slot free.
LEMMA DropKeeps ==
  ASSUME IInv, NEW r \in Slots, Drop(r)
  PROVE  TypeOK' /\ SlotInv(r)'
<1>1. TypeOK /\ SlotInv(r)
  BY DEF IInv
<1>2. TypeOK'
  BY <1>1 DEF Drop, Settle, TypeOK, Over, NoAnswer, Statuses, MediaTypes
<1>3. /\ phase'[r] = "dropped" /\ sig'[r] = sig[r] /\ head'[r] = head[r]
      /\ client'[r] = client[r] /\ holder'[r] = holder[r] /\ args'[r] = args[r]
  BY <1>1 DEF Drop, Settle, TypeOK
<1>4. ArgsFit(r)'
  BY <1>1, <1>3 DEF SlotInv, ArgsFit, BodyFits
<1>5. (Extracting(r) /\ Handling(r) /\ Sleeping(r) /\ Answered(r))'
  BY <1>3 DEF Extracting, Handling, Sleeping, Answered
<1> QED BY <1>2, <1>3, <1>4, <1>5 DEF SlotInv

LEMMA FreeKeeps ==
  ASSUME IInv, NEW r \in Slots, Free(r)
  PROVE  TypeOK' /\ SlotInv(r)'
<1>1. TypeOK /\ SlotInv(r)
  BY DEF IInv
<1>2. \A S : << >> \in Seq(S)
  BY EmptySeq
<1>3. TypeOK'
  <2>1. /\ NoHead \in Heads /\ NoResponder \in [value : Seq(Layers), ready : BOOLEAN]
        /\ NoAnswer \in [by : MaxParts \cup {0}, status : Statuses, type : MediaTypes]
        /\ [sent |-> 0, end |-> "open"] \in [sent : 0..MaxBody, end : {"open", "complete", "gone"}]
    BY <1>2, BodyAssumption
       DEF NoHead, Heads, NoResponder, NoAnswer, Statuses, MediaTypes
  <2>2. /\ phase' \in [Slots -> Over \cup {"extract", "handle"}]
        /\ sig' \in [Slots -> Signatures \cup {<< >>}] /\ head' \in [Slots -> Heads]
        /\ client' \in [Slots -> [sent : 0..MaxBody, end : {"open", "complete", "gone"}]]
        /\ holder' \in [Slots -> MaxParts \cup {0}]
    BY <1>1, <2>1 DEF Free, TypeOK, Over
  <2>3. /\ parts' \in [Slots -> Seq([state : {"pending", "ok", "err", "taken"}, fits : BOOLEAN])]
        /\ items' \in [Slots -> Seq(ItemType)] /\ args' \in [Slots -> Seq(ItemType \ {Missing})]
        /\ returned' \in [Slots -> Values \cup {<< >>}]
    BY <1>1, <1>2 DEF Free, TypeOK
  <2>4. /\ handler' \in [Slots -> [value : Seq(Layers), ready : BOOLEAN]]
        /\ answer' \in [Slots -> [by : MaxParts \cup {0}, status : Statuses, type : MediaTypes]]
    BY <1>1, <2>1 DEF Free, TypeOK
  <2> QED BY <1>1, <2>2, <2>3, <2>4 DEF Free, TypeOK
<1>4. phase'[r] = "idle" /\ args'[r] = << >>
  BY <1>1 DEF Free, TypeOK
<1>5. ArgsFit(r)'
  BY <1>4, EmptySeq DEF ArgsFit
<1>6. (Extracting(r) /\ Handling(r) /\ Sleeping(r) /\ Answered(r))'
  BY <1>4 DEF Extracting, Handling, Sleeping, Answered
<1> QED BY <1>3, <1>4, <1>5, <1>6 DEF SlotInv
-----------------------------------------------------------------------------
(* The client and the futures of the application *)

\* What waited for n is woken; what still sleeps did not wait for it.
LEMMA WakeWakes ==
  ASSUME TypeOK, NEW r \in Slots, NEW n, Wake(r, n)
  PROVE  /\ task' \in [Slots -> {"woken", "polling", "parked"}]
         /\ waits' \in [Slots -> SUBSET (MaxParts \cup {0})]
         /\ task'[r] = "parked" => task[r] = "parked" /\ n \notin waits[r] /\ waits'[r] = waits[r]
BY DEF TypeOK, Wake

\* While the body is open no item depends on what is still to come of it.
LEMMA OpenBodyFits ==
  ASSUME TypeOK, NEW r \in Slots, SlotInv(r), phase[r] = "extract", client[r].end = "open",
         sig' = sig, head' = head, holder' = holder, parts' = parts, items' = items,
         NEW n \in 1..Len(sig[r]), items[r][n] # Missing
  PROVE  ItemFits(r, n)'
<1>1. ItemFits(r, n)
  BY DEF SlotInv, Extracting
<1>2. CASE holder[r] = n
  <2>1. items[r][n].got # "value" /\ sig[r][n].wrap # "plain"
    BY <1>1, <1>2 DEF ItemFits, BodyFits
  <2> QED BY <1>1, <1>2, <2>1 DEF ItemFits, BodyFits
<1>3. CASE holder[r] # n
  <2>1. Outcome(r, n)' = Outcome(r, n)
    BY <1>3 DEF Outcome, BodyOf
  <2> QED BY <1>1, <1>3, <2>1 DEF ItemFits, BodyFits
<1> QED BY <1>2, <1>3

LEMMA ClientKeeps ==
  ASSUME IInv, NEW r \in Slots, Send(r) \/ \E how \in {"complete", "gone"} : EndBody(r, how)
  PROVE  TypeOK' /\ SlotInv(r)'
<1>1. TypeOK /\ SlotInv(r)
  BY DEF IInv
<1>2. /\ phase[r] = "extract" /\ client[r].end = "open"
      /\ client' \in [Slots -> [sent : 0..MaxBody, end : {"open", "complete", "gone"}]]
      /\ Wake(r, holder[r])
      /\ UNCHANGED <<phase, sig, head, holder, parts, items, request, args, returned,
                     handler, answer>>
  <2>1. client \in [Slots -> [sent : 0..MaxBody, end : {"open", "complete", "gone"}]]
    BY <1>1 DEF TypeOK
  <2>2. CASE Send(r)
    <3>1. client[r].sent + 1 \in 0..MaxBody
      BY <2>1, <2>2, BodyAssumption DEF Send
    <3> QED BY <2>1, <2>2, <3>1 DEF Send
  <2>3. CASE \E how \in {"complete", "gone"} : EndBody(r, how)
    BY <2>1, <2>3 DEF EndBody
  <2> QED BY <2>2, <2>3
<1>3. /\ task' \in [Slots -> {"woken", "polling", "parked"}]
      /\ waits' \in [Slots -> SUBSET (MaxParts \cup {0})]
      /\ task'[r] = "parked" =>
           task[r] = "parked" /\ holder[r] \notin waits[r] /\ waits'[r] = waits[r]
  BY <1>1, <1>2, WakeWakes
<1>4. TypeOK'
  BY <1>1, <1>2, <1>3 DEF TypeOK
<1>5. Extracting(r)'
  <2>1. \A n \in 1..Len(sig[r]) : items[r][n] # Missing => ItemFits(r, n)'
    BY <1>1, <1>2, OpenBodyFits
  <2> QED BY <1>1, <1>2, <2>1 DEF SlotInv, Extracting
<1>6. ArgsFit(r)'
  BY <1>1, <1>2, EmptySeq DEF SlotInv, Extracting, ArgsFit
<1>7. Sleeping(r)'
  BY <1>1, <1>2, <1>3 DEF SlotInv, Sleeping, IsAwaiting
<1>8. (Handling(r) /\ Answered(r))'
  BY <1>1, <1>2 DEF Handling, Answered
<1> QED BY <1>1, <1>2, <1>4, <1>5, <1>6, <1>7, <1>8 DEF SlotInv

\* An extractor of the application: its part was not spent.
LEMMA CompleteKeeps ==
  ASSUME IInv, NEW r \in Slots, NEW n \in MaxParts, NEW result \in {"ok", "err"},
         Complete(r, n, result)
  PROVE  TypeOK' /\ SlotInv(r)'
<1>1. TypeOK /\ SlotInv(r)
  BY DEF IInv
<1>2. /\ phase[r] = "extract" /\ n \in 1..Len(parts[r]) /\ Len(parts[r]) = Len(sig[r])
      /\ sig[r][n].kind = "custom" /\ parts[r][n].state = "pending"
      /\ parts' = [parts EXCEPT ![r][n].state = result]
      /\ Wake(r, n)
      /\ UNCHANGED <<phase, sig, head, client, holder, items, request, args, returned,
                     handler, answer>>
  BY <1>1, SlotType DEF Complete, SlotInv, Extracting
<1> DEFINE new == [parts[r] EXCEPT ![n].state = result]
<1>3. /\ new \in Seq([state : {"pending", "ok", "err", "taken"}, fits : BOOLEAN])
      /\ Len(new) = Len(parts[r]) /\ new[n].state = result
      /\ \A m \in 1..Len(sig[r]) : m # n => new[m] = parts[r][m]
  <2>1. /\ parts[r] \in [1..Len(parts[r]) ->
                           [state : {"pending", "ok", "err", "taken"}, fits : BOOLEAN]]
        /\ Len(parts[r]) \in Nat
    BY <1>1, SlotType, LenProperties
  <2>2. new \in [1..Len(parts[r]) -> [state : {"pending", "ok", "err", "taken"}, fits : BOOLEAN]]
    BY <1>2, <2>1
  <2>3. new[n].state = result /\ \A m \in 1..Len(sig[r]) : m # n => new[m] = parts[r][m]
    BY <1>2, <2>1
  <2> HIDE DEF new
  <2> QED BY <2>1, <2>2, <2>3, FunctionIsSeq
<1>4. parts' = [parts EXCEPT ![r] = new]
  BY <1>1, <1>2 DEF TypeOK
<1> HIDE DEF new
<1>5. parts'[r] = new
  BY <1>1, <1>4 DEF TypeOK
<1>6. /\ task' \in [Slots -> {"woken", "polling", "parked"}]
      /\ waits' \in [Slots -> SUBSET (MaxParts \cup {0})]
      /\ task'[r] = "parked" =>
           task[r] = "parked" /\ n \notin waits[r] /\ waits'[r] = waits[r]
  BY <1>1, <1>2, WakeWakes
<1>7. TypeOK'
  <2>1. parts' \in [Slots -> Seq([state : {"pending", "ok", "err", "taken"}, fits : BOOLEAN])]
    BY <1>1, <1>3, <1>4 DEF TypeOK
  <2> QED BY <1>1, <1>2, <1>6, <2>1 DEF TypeOK
<1>8. items[r][n] = Missing
  BY <1>1, <1>2 DEF SlotInv, Extracting, ItemFits
<1>9. Extracting(r)'
  <2>1. ASSUME NEW m \in 1..Len(sig[r]), items[r][m] # Missing PROVE ItemFits(r, m)'
    <3>1. m # n /\ ItemFits(r, m)
      BY <1>1, <1>2, <1>8, <2>1 DEF SlotInv, Extracting
    <3>2. parts'[r][m] = parts[r][m]
      BY <1>3, <1>5, <3>1
    <3> QED BY <1>2, <3>1, <3>2 DEF ItemFits, BodyFits, Outcome, BodyOf
  <2>2. \A m \in 1..Len(sig[r]) : items[r][m] = Missing => parts'[r][m].state # "taken"
    BY <1>1, <1>2, <1>3, <1>5 DEF SlotInv, Extracting
  <2> QED BY <1>1, <1>2, <1>3, <1>5, <2>1, <2>2 DEF SlotInv, Extracting
<1>10. ArgsFit(r)'
  BY <1>1, <1>2, EmptySeq DEF SlotInv, Extracting, ArgsFit
<1>11. Sleeping(r)'
  <2>1. SUFFICES ASSUME task'[r] = "parked" PROVE Sleeping(r)'
    BY DEF Sleeping
  <2>2. task[r] = "parked" /\ n \notin waits[r] /\ waits'[r] = waits[r]
    BY <1>6, <2>1
  <2>3. \A m \in waits[r] : IsAwaiting(r, m) /\ m # n /\ waits[r] # {}
    BY <1>1, <1>2, <2>2 DEF SlotInv, Sleeping
  <2>4. ASSUME NEW m \in waits[r], m # 0, sig[r][m].kind = "custom",
               parts[r][m].state = "pending"
        PROVE  parts'[r][m].state = "pending"
    BY <1>1, <1>2, <2>3, <2>4 DEF TypeOK
  <2>5. \A m \in waits[r] : IsAwaiting(r, m)'
    BY <1>2, <2>3, <2>4 DEF IsAwaiting
  <2> QED BY <1>1, <1>2, <2>2, <2>5 DEF SlotInv, Sleeping
<1>12. (Handling(r) /\ Answered(r))'
  BY <1>1, <1>2 DEF Handling, Answered
<1> QED BY <1>1, <1>2, <1>7, <1>9, <1>10, <1>11, <1>12 DEF SlotInv

\* While the handler runs, what counts is the value its future is at.
LEMMA HandledKeeps ==
  ASSUME IInv, NEW r \in Slots, Handled(r)
  PROVE  TypeOK' /\ SlotInv(r)'
<1>1. TypeOK /\ SlotInv(r)
  BY DEF IInv
<1>2. PICK fut \in Completed(handler[r].value) : handler' = [handler EXCEPT ![r] = fut]
  BY DEF Handled
<1>3. /\ phase[r] = "handle" /\ ~handler[r].ready /\ Wake(r, 0)
      /\ UNCHANGED <<phase, sig, head, client, holder, parts, items, request, args,
                     returned, answer>>
  BY DEF Handled
<1>4. /\ IsValue(handler[r].value) /\ handler[r].value[1] = "future"
      /\ Leads(handler[r].value, returned[r])
  BY <1>1, <1>3 DEF SlotInv, Handling
<1>5. /\ fut \in [value : Seq(Layers), ready : {TRUE}]
      /\ IsValue(fut.value) /\ fut.value[1] \notin Wrappers
      /\ Leads(fut.value, returned[r])
  <2>1. CASE fut = [value |-> handler[r].value, ready |-> TRUE]
    BY <1>4, <2>1 DEF IsValue, Wrappers
  <2>2. CASE fut = Failed
    <3>1. /\ Failed = [value |-> <<"future", "err">>, ready |-> TRUE]
          /\ IsValue(<<"future", "err">>)
      BY DEF Failed, IsValue, Layers, Inner, Wrappers
    <3>2. HasFuture(returned[r])
      BY <1>4, EmptySeq DEF Leads, HasFuture, IsValue
    <3>3. Leads(<<"future", "err">>, returned[r])
      BY <3>2 DEF Leads
    <3> QED BY <2>2, <3>1, <3>3 DEF IsValue, Wrappers
  <2> QED BY <1>2, <2>1, <2>2 DEF Completed
<1>6. handler'[r] = fut
  BY <1>1, <1>2 DEF TypeOK
<1>7. TypeOK'
  <2>1. /\ task' \in [Slots -> {"woken", "polling", "parked"}]
        /\ waits' \in [Slots -> SUBSET (MaxParts \cup {0})]
    BY <1>1, <1>3, WakeWakes
  <2>2. handler' \in [Slots -> [value : Seq(Layers), ready : BOOLEAN]]
    BY <1>1, <1>2, <1>5 DEF TypeOK
  <2> QED BY <1>1, <1>3, <2>1, <2>2 DEF TypeOK
<1>8. Handling(r)'
  BY <1>1, <1>3, <1>5, <1>6 DEF SlotInv, Handling
<1>9. ArgsFit(r)'
  BY <1>1, <1>3 DEF SlotInv, ArgsFit, BodyFits
<1>10. Sleeping(r)'
  <2>1. task'[r] = "parked" => task[r] = "parked" /\ 0 \notin waits[r] /\ waits'[r] = waits[r]
    BY <1>1, <1>3, WakeWakes
  <2> QED BY <1>1, <1>3, <2>1 DEF SlotInv, Sleeping, IsAwaiting
<1>11. (Extracting(r) /\ Answered(r))'
  BY <1>3 DEF Extracting, Answered
<1> QED BY <1>1, <1>3, <1>7, <1>8, <1>9, <1>10, <1>11 DEF SlotInv

-----------------------------------------------------------------------------
(* The polls *)

LEMMA RejectionType ==
  ASSUME NEW kind, NEW h, NEW body PROVE Rejection(kind, h, body) \in Statuses
BY DEF Rejection, Statuses

\* A part that failed ends the poll; the parts before it did not fail.
LEMMA PollRejectedKeeps ==
  ASSUME IInv, NEW r \in Slots, PollRejected(r)
  PROVE  TypeOK' /\ SlotInv(r)'
<1>1. TypeOK /\ SlotInv(r)
  BY DEF IInv
<1>2. /\ phase[r] = "extract" /\ Stops(r) # {} /\ request[r] = "extract" /\ args[r] = << >>
      /\ UNCHANGED <<sig, head, client, holder, parts, items, args, returned, handler>>
      /\ Len(parts[r]) = Len(sig[r]) /\ Len(items[r]) = Len(sig[r])
      /\ sig[r] \in Signatures
  BY <1>1 DEF PollRejected, SlotInv, Extracting
<1> DEFINE n == Min(Stops(r))
<1>3. Stops(r) \subseteq 1..Len(sig[r]) /\ Len(sig[r]) \in Nat
  BY <1>1, <1>2, SlotType DEF Stops, Polled
<1>4. n \in Stops(r) /\ \A m \in Stops(r) : n <= m
  <2>1. Stops(r) \subseteq Nat
    BY <1>3
  <2> QED BY <1>2, <2>1, MinIsLeast
<1> HIDE DEF n
<1>5. n \in 1..Len(sig[r]) /\ parts[r][n].state # "taken" /\ Fails(r, n)
  BY <1>1, <1>2, <1>3, <1>4 DEF Stops, Polled, SlotInv, Extracting
<1> DEFINE reply == [by |-> n, type |-> "none",
                     status |-> Rejection(sig[r][n].kind, head[r], BodyOf(r, n))]
<1>6. Settle(r, "answered", reply)
  BY <1>2, <1>5 DEF PollRejected, n
<1>7. reply \in [by : MaxParts \cup {0}, status : Statuses, type : MediaTypes]
  BY <1>2, <1>5, PartsAreNumbered, RejectionType DEF MediaTypes
<1>8. reply.by = n /\ n # 0
  BY <1>3, <1>5
<1> HIDE DEF reply
<1>9. TypeOK'
  BY <1>1, <1>2, <1>6, <1>7 DEF TypeOK, Settle, Over
<1>10. phase'[r] = "answered" /\ answer'[r] = reply
  BY <1>1, <1>6 DEF TypeOK, Settle
<1>11. ASSUME NEW m \in 1..(n - 1), sig[r][m].wrap = "plain" PROVE Outcome(r, m) # "err"
  <2>1. m \in 1..Len(sig[r]) /\ m \notin Stops(r)
    BY <1>3, <1>4, <1>5
  <2>2. CASE items[r][m] = Missing
    BY <1>1, <1>2, <1>11, <2>1, <2>2, SlotType DEF Stops, Polled, Fails
  <2>3. CASE items[r][m] # Missing
    BY <1>1, <1>2, <1>11, <2>1, <2>3 DEF SlotInv, Extracting, ItemFits
  <2> QED BY <2>2, <2>3
<1>12. \A m : Outcome(r, m)' = Outcome(r, m)
  BY <1>2 DEF Outcome, BodyOf
<1>13. Answered(r)'
  BY <1>2, <1>5, <1>8, <1>10, <1>11, <1>12 DEF Answered, Fails
<1>14. ArgsFit(r)'
  BY <1>2, <1>10, EmptySeq DEF ArgsFit
<1>15. (Extracting(r) /\ Handling(r) /\ Sleeping(r))'
  BY <1>10 DEF Extracting, Handling, Sleeping
<1> QED BY <1>9, <1>10, <1>13, <1>14, <1>15 DEF SlotInv

\* A result that arrives in a poll nothing fails in.
LEMMA ItemOfArrived ==
  ASSUME TypeOK, NEW r \in Slots, SlotInv(r), phase[r] = "extract", Stops(r) = {},
         NEW n \in 1..Len(sig[r]), Arrives(r, n)
  PROVE  /\ Item(r, n) \in ItemType \ {Missing}
         /\ BodyFits(r, n, Item(r, n))
         /\ sig[r][n].wrap = "plain" => Item(r, n).got = "value" /\ Outcome(r, n) # "err"
<1>1. /\ Len(parts[r]) = Len(sig[r]) /\ Len(items[r]) = Len(sig[r])
      /\ sig[r] \in Signatures /\ holder[r] = Holder(sig[r], head[r])
      /\ items[r][n] = Missing /\ parts[r][n].state # "taken"
      /\ Outcome(r, n) # "pending"
  BY DEF SlotInv, Extracting, Arrives, Polled
<1>2. Outcome(r, n) \in {"ok", "err"}
  BY <1>1, PartOutcomes
<1>3. holder[r] = n => sig[r][n].kind \in BodyKinds
  <2>1. holder[r] # 0 => holder[r] \in Takers(sig[r], head[r])
    BY <1>1, SlotType, HolderIsFirst
  <2>2. n # 0
    BY SlotType
  <2> QED BY <2>1, <2>2 DEF Takers
<1>4. holder[r] = n /\ Outcome(r, n) = "ok" =>
        client[r].end = "complete" /\ client[r].sent \in 0..Limit
  BY <1>1, <1>3, PartOutcomes, SlotType, LimitAssumption
<1>5. sig[r][n].wrap = "plain" => Outcome(r, n) = "ok"
  BY <1>1, <1>2 DEF Stops, Arrives, Fails
<1>6. Item(r, n) \in ItemType \ {Missing}
  BY <1>4, LimitAssumption DEF Item, ItemType, Missing
<1>7. BodyFits(r, n, Item(r, n))
  BY <1>2, <1>4 DEF Item, BodyFits
<1> QED BY <1>5, <1>6, <1>7 DEF Item

\* All items after a poll nothing fails in.
LEMMA NewItemsFit ==
  ASSUME TypeOK, NEW r \in Slots, SlotInv(r), phase[r] = "extract", Stops(r) = {}
  PROVE  /\ NewItems(r) \in Seq(ItemType) /\ Len(NewItems(r)) = Len(sig[r])
         /\ \A n \in 1..Len(sig[r]) :
              /\ NewItems(r)[n] = IF Arrives(r, n) THEN Item(r, n) ELSE items[r][n]
              /\ NewItems(r)[n] # Missing => BodyFits(r, n, NewItems(r)[n])
<1>1. Len(items[r]) = Len(sig[r]) /\ Len(sig[r]) \in Nat /\ DOMAIN items[r] = 1..Len(sig[r])
  BY SlotType DEF SlotInv, Extracting
<1>2. \A n \in 1..Len(sig[r]) :
        NewItems(r)[n] = IF Arrives(r, n) THEN Item(r, n) ELSE items[r][n]
  BY <1>1 DEF NewItems
<1>3. ASSUME NEW n \in 1..Len(sig[r])
      PROVE  /\ NewItems(r)[n] \in ItemType
             /\ NewItems(r)[n] # Missing => BodyFits(r, n, NewItems(r)[n])
  <2>1. CASE Arrives(r, n)
    BY <1>2, <2>1, ItemOfArrived
  <2>2. CASE ~Arrives(r, n)
    <3>1. NewItems(r)[n] = items[r][n] /\ items[r][n] \in ItemType
      BY <1>1, <1>2, <2>2, SlotType
    <3>2. items[r][n] # Missing => BodyFits(r, n, items[r][n])
      BY DEF SlotInv, Extracting, ItemFits
    <3> QED BY <3>1, <3>2
  <2> QED BY <2>1, <2>2
<1>4. NewItems(r) \in [1..Len(sig[r]) -> ItemType]
  <2>1. NewItems(r) = [n \in 1..Len(sig[r]) |->
                         IF Arrives(r, n) THEN Item(r, n) ELSE items[r][n]]
    BY <1>1 DEF NewItems
  <2> QED BY <1>2, <1>3, <2>1
<1> QED BY <1>1, <1>2, <1>3, <1>4, FunctionIsSeq

\* The parts after a poll: those that gave their result are spent.
LEMMA SpentParts ==
  ASSUME TypeOK, NEW r \in Slots, SlotInv(r), phase[r] = "extract", Spend(r)
  PROVE  /\ parts' \in [Slots -> Seq([state : {"pending", "ok", "err", "taken"}, fits : BOOLEAN])]
         /\ Len(parts'[r]) = Len(sig[r])
         /\ \A n \in 1..Len(sig[r]) :
              /\ Arrives(r, n) => /\ parts'[r][n].state = "taken"
                                  /\ parts'[r][n].fits = parts[r][n].fits
              /\ ~Arrives(r, n) => parts'[r][n] = parts[r][n]
<1> DEFINE T == [state : {"pending", "ok", "err", "taken"}, fits : BOOLEAN]
           new == [n \in 1..Len(sig[r]) |->
                     IF Arrives(r, n) THEN [parts[r][n] EXCEPT !.state = "taken"] ELSE parts[r][n]]
<1>1. /\ Len(parts[r]) = Len(sig[r]) /\ Len(sig[r]) \in Nat /\ DOMAIN parts[r] = 1..Len(sig[r])
      /\ \A n \in 1..Len(sig[r]) : parts[r][n] \in T
  BY SlotType DEF SlotInv, Extracting
<1>2. parts' = [parts EXCEPT ![r] = new] /\ parts'[r] = new
  BY <1>1 DEF Spend, TypeOK
<1>3. \A n \in 1..Len(sig[r]) : [parts[r][n] EXCEPT !.state = "taken"] \in T
  BY <1>1
<1>4. new \in [1..Len(sig[r]) -> T]
  BY <1>1, <1>3
<1>5. \A n \in 1..Len(sig[r]) :
        /\ Arrives(r, n) => new[n].state = "taken" /\ new[n].fits = parts[r][n].fits
        /\ ~Arrives(r, n) => new[n] = parts[r][n]
  BY <1>1
<1>6. new \in Seq(T) /\ Len(new) = Len(sig[r])
  <2> HIDE DEF new, T
  <2> QED BY <1>1, <1>4, FunctionIsSeq
<1> HIDE DEF new
<1> QED BY <1>2, <1>5, <1>6 DEF TypeOK

\* A part is still missing: the future sleeps, registered with what it waits
\* for.
LEMMA PollIncompleteKeeps ==
  ASSUME IInv, NEW r \in Slots, PollIncomplete(r)
  PROVE  TypeOK' /\ SlotInv(r)'
<1>1. TypeOK /\ SlotInv(r)
  BY DEF IInv
<1>2. /\ phase[r] = "extract" /\ Stops(r) = {} /\ ~Ready(r) /\ Spend(r)
      /\ items' = [items EXCEPT ![r] = NewItems(r)]
      /\ task'  = [task  EXCEPT ![r] = "parked"]
      /\ waits' = [waits EXCEPT ![r] = {n \in Polled(r) : Outcome(r, n) = "pending"}]
      /\ UNCHANGED <<phase, sig, head, client, holder, request, args, returned, handler,
                     answer>>
  BY DEF PollIncomplete
<1>3. /\ request[r] = "extract" /\ args[r] = << >> /\ sig[r] \in Signatures
      /\ Len(parts[r]) = Len(sig[r]) /\ Len(items[r]) = Len(sig[r])
      /\ Polled(r) \subseteq 1..Len(sig[r]) /\ Len(sig[r]) \in Nat
      /\ \A n \in 1..Len(sig[r]) :
           IF items[r][n] = Missing THEN parts[r][n].state # "taken" ELSE ItemFits(r, n)
  BY <1>1, <1>2, SlotType DEF SlotInv, Extracting, Polled
<1>4. /\ items'[r] = NewItems(r) /\ task'[r] = "parked"
      /\ waits'[r] = {n \in Polled(r) : Outcome(r, n) = "pending"}
  BY <1>1, <1>2 DEF TypeOK
<1>5. /\ NewItems(r) \in Seq(ItemType) /\ Len(NewItems(r)) = Len(sig[r])
      /\ \A n \in 1..Len(sig[r]) :
           /\ NewItems(r)[n] = IF Arrives(r, n) THEN Item(r, n) ELSE items[r][n]
           /\ NewItems(r)[n] # Missing => BodyFits(r, n, NewItems(r)[n])
  BY <1>1, <1>2, NewItemsFit
<1>6. /\ parts' \in [Slots -> Seq([state : {"pending", "ok", "err", "taken"}, fits : BOOLEAN])]
      /\ Len(parts'[r]) = Len(sig[r])
      /\ \A n \in 1..Len(sig[r]) :
           /\ Arrives(r, n) => /\ parts'[r][n].state = "taken"
                               /\ parts'[r][n].fits = parts[r][n].fits
           /\ ~Arrives(r, n) => parts'[r][n] = parts[r][n]
  BY <1>1, <1>2, SpentParts
<1>7. waits'[r] \subseteq MaxParts
  BY <1>3, <1>4, PartsAreNumbered
<1>8. TypeOK'
  <2>1. items' \in [Slots -> Seq(ItemType)]
    BY <1>1, <1>2, <1>5 DEF TypeOK
  <2>2. /\ waits' \in [Slots -> SUBSET (MaxParts \cup {0})]
        /\ task' \in [Slots -> {"woken", "polling", "parked"}]
    BY <1>1, <1>2, <1>4, <1>7 DEF TypeOK
  <2> QED BY <1>1, <1>2, <1>6, <2>1, <2>2 DEF TypeOK
<1>9. \A n, item : BodyFits(r, n, item)' = BodyFits(r, n, item)
  BY <1>2 DEF BodyFits
<1>10. ASSUME NEW n \in 1..Len(sig[r]), NewItems(r)[n] # Missing PROVE ItemFits(r, n)'
  <2>1. BodyFits(r, n, items[r][n])'
    BY <1>4, <1>5, <1>9, <1>10
  <2>2. CASE Arrives(r, n)
    <3>1. items'[r][n] = Item(r, n) /\ parts'[r][n].state = "taken"
      BY <1>4, <1>5, <1>6, <2>2
    <3>2. sig[r][n].wrap = "plain" => Item(r, n).got = "value" /\ Outcome(r, n) # "err"
      BY <1>1, <1>2, <2>2, ItemOfArrived
    <3>3. Outcome(r, n) # "err" => Outcome(r, n)' # "err"
      BY <1>2, <1>6, <2>2 DEF Outcome, PartOutcome, BodyOf, BodyOutcome, Parses
    <3> QED BY <1>2, <2>1, <3>1, <3>2, <3>3 DEF ItemFits
  <2>3. CASE ~Arrives(r, n)
    <3>1. items'[r][n] = items[r][n] /\ parts'[r][n] = parts[r][n] /\ ItemFits(r, n)
      BY <1>3, <1>4, <1>5, <1>6, <1>10, <2>3
    <3>2. Outcome(r, n)' = Outcome(r, n)
      BY <1>2, <3>1 DEF Outcome, BodyOf
    <3> QED BY <1>2, <2>1, <3>1, <3>2 DEF ItemFits
  <2> QED BY <2>2, <2>3
<1>11. ASSUME NEW n \in 1..Len(sig[r]), NewItems(r)[n] = Missing
       PROVE  parts'[r][n].state # "taken"
  <2>1. ~Arrives(r, n)
    BY <1>1, <1>2, <1>5, <1>11, ItemOfArrived
  <2> QED BY <1>3, <1>5, <1>6, <1>11, <2>1
<1>12. Extracting(r)'
  <2>1. holder[r] = Holder(sig[r], head[r])
    BY <1>1, <1>2 DEF SlotInv, Extracting
  <2> QED BY <1>2, <1>3, <1>4, <1>5, <1>6, <1>10, <1>11, <2>1 DEF Extracting
<1>13. ArgsFit(r)'
  BY <1>2, <1>3, EmptySeq DEF ArgsFit
<1>14. Sleeping(r)'
  <2>1. waits'[r] # {}
    BY <1>2, <1>4 DEF Ready
  <2>2. ASSUME NEW n \in waits'[r] PROVE IsAwaiting(r, n)'
    <3>1. n \in 1..Len(sig[r]) /\ n # 0 /\ Outcome(r, n) = "pending" /\ ~Arrives(r, n)
      BY <1>3, <1>4, <2>2 DEF Arrives
    <3>2. IF sig[r][n].kind = "custom" THEN parts[r][n].state = "pending"
          ELSE holder[r] = n /\ client[r].end = "open"
      BY <1>1, <1>3, <3>1, PartOutcomes
    <3> QED BY <1>2, <1>6, <3>1, <3>2 DEF IsAwaiting
  <2> QED BY <2>1, <2>2 DEF Sleeping
<1>15. (Handling(r) /\ Answered(r))'
  BY <1>2 DEF Handling, Answered
<1> QED BY <1>2, <1>8, <1>12, <1>13, <1>14, <1>15 DEF SlotInv

\* All parts are there, and none of them is missing when it is unwrapped.
LEMMA PollExtractedKeeps ==
  ASSUME IInv, NEW r \in Slots, NEW value \in Values, PollExtracted(r, value)
  PROVE  TypeOK' /\ SlotInv(r)'
<1>1. TypeOK /\ SlotInv(r)
  BY DEF IInv
<1>2. /\ phase[r] = "extract" /\ Stops(r) = {} /\ Ready(r) /\ Spend(r)
      /\ items' = [items EXCEPT ![r] = [n \in DOMAIN @ |-> Missing]]
      /\ UNCHANGED <<sig, head, client, holder>>
  BY DEF PollExtracted
<1>3. /\ sig[r] \in Signatures /\ Len(items[r]) = Len(sig[r]) /\ Len(sig[r]) \in Nat
      /\ DOMAIN items[r] = 1..Len(sig[r]) /\ holder[r] = Holder(sig[r], head[r])
  BY <1>1, <1>2, SlotType DEF SlotInv, Extracting
<1>4. /\ NewItems(r) \in Seq(ItemType) /\ Len(NewItems(r)) = Len(sig[r])
      /\ \A n \in 1..Len(sig[r]) :
           /\ NewItems(r)[n] = IF Arrives(r, n) THEN Item(r, n) ELSE items[r][n]
           /\ NewItems(r)[n] # Missing => BodyFits(r, n, NewItems(r)[n])
  BY <1>1, <1>2, NewItemsFit
<1>5. ASSUME NEW n \in 1..Len(sig[r]) PROVE NewItems(r)[n] \in ItemType \ {Missing}
  <2>1. CASE Arrives(r, n)
    BY <1>1, <1>2, <1>4, <2>1, ItemOfArrived
  <2>2. CASE ~Arrives(r, n)
    <3>1. items[r][n] # Missing
      BY <1>2, <1>3, <2>2 DEF Arrives, Ready, Polled
    <3> QED BY <1>1, <1>3, <1>4, <2>2, <3>1, SlotType
  <2> QED BY <2>1, <2>2
<1>6. NewItems(r) \in Seq(ItemType \ {Missing})
  <2>1. NewItems(r) \in [1..Len(sig[r]) -> ItemType \ {Missing}]
    BY <1>3, <1>5 DEF NewItems
  <2> QED BY <1>3, <2>1, FunctionIsSeq
<1>7. PICK fut \in RespondTo(value) : handler' = [handler EXCEPT ![r] = fut]
  BY <1>3, <1>5 DEF PollExtracted
<1>8. /\ phase'   = [phase   EXCEPT ![r] = "handle"]
      /\ request' = [request EXCEPT ![r] = "handle"]
      /\ args'    = [args    EXCEPT ![r] = NewItems(r)]
      /\ returned' = [returned EXCEPT ![r] = value]
      /\ task'    = [task    EXCEPT ![r] = "polling"]
      /\ UNCHANGED <<answer, waits>>
  BY <1>3, <1>5 DEF PollExtracted
<1>9. /\ fut = [value |-> fut.value, ready |-> fut.ready] /\ fut.ready \in BOOLEAN
      /\ IsValue(fut.value) /\ fut.value[1] \notin Wrappers
      /\ ~fut.ready => fut.value[1] = "future"
      /\ Leads(fut.value, value) /\ IsValue(value)
  BY <1>7, RespondToType, ReturnedIsValue
<1>10. /\ phase'[r] = "handle" /\ request'[r] = "handle" /\ args'[r] = NewItems(r)
       /\ returned'[r] = value /\ task'[r] = "polling" /\ handler'[r] = fut
  BY <1>1, <1>7, <1>8 DEF TypeOK
<1>11. TypeOK'
  <2>1. parts' \in [Slots -> Seq([state : {"pending", "ok", "err", "taken"}, fits : BOOLEAN])]
    BY <1>1, <1>2, SpentParts
  <2>2. items' \in [Slots -> Seq(ItemType)]
    <3> DEFINE none == [n \in 1..Len(sig[r]) |-> Missing]
    <3>1. Missing \in ItemType
      BY LimitAssumption DEF Missing, ItemType
    <3>2. none \in [1..Len(sig[r]) -> ItemType]
      BY <3>1
    <3> HIDE DEF none
    <3>3. none \in Seq(ItemType)
      BY <1>3, <3>2, FunctionIsSeq
    <3>4. items' = [items EXCEPT ![r] = none]
      BY <1>2, <1>3 DEF none
    <3> QED BY <1>1, <3>3, <3>4 DEF TypeOK
  <2>3. handler' \in [Slots -> [value : Seq(Layers), ready : BOOLEAN]]
    <3>1. fut \in [value : Seq(Layers), ready : BOOLEAN]
      BY <1>9 DEF IsValue
    <3> QED BY <1>1, <1>7, <3>1 DEF TypeOK
  <2>4. args' \in [Slots -> Seq(ItemType \ {Missing})]
    BY <1>1, <1>6, <1>8 DEF TypeOK
  <2>5. /\ phase' \in [Slots -> Over \cup {"extract", "handle"}]
        /\ request' \in [Slots -> {"nobody", "extract", "handle"}]
        /\ returned' \in [Slots -> Values \cup {<< >>}]
        /\ task' \in [Slots -> {"woken", "polling", "parked"}]
    BY <1>1, <1>8 DEF TypeOK
  <2> QED BY <1>1, <1>2, <1>8, <2>1, <2>2, <2>3, <2>4, <2>5 DEF TypeOK
<1>12. Handling(r)'
  BY <1>2, <1>4, <1>9, <1>10 DEF Handling
<1>13. ArgsFit(r)'
  <2>1. \A n \in 1..Len(sig[r]) : BodyFits(r, n, NewItems(r)[n])
    BY <1>4, <1>5
  <2>2. \A n \in 1..Len(sig[r]) : BodyFits(r, n, args[r][n])'
    BY <1>2, <1>10, <2>1 DEF BodyFits
  <2> QED BY <1>2, <1>3, <1>4, <1>10, <2>2 DEF ArgsFit
<1>14. (Extracting(r) /\ Sleeping(r) /\ Answered(r))'
  BY <1>10 DEF Extracting, Sleeping, Answered
<1> QED BY <1>10, <1>11, <1>12, <1>13, <1>14 DEF SlotInv

\* While the handler runs the request stays where it is; only the future and
\* the task change.
LEMMA PollHandlingKeeps ==
  ASSUME IInv, NEW r \in Slots, PollHandling(r)
  PROVE  TypeOK' /\ SlotInv(r)'
<1>1. TypeOK /\ SlotInv(r)
  BY DEF IInv
<1>2. TypeOK'
  BY <1>1 DEF PollHandling, TypeOK
<1>3. /\ phase[r] = "handle" /\ ~handler[r].ready /\ task'[r] = "parked" /\ waits'[r] = {0}
      /\ UNCHANGED <<phase, sig, head, client, holder, parts, items, request, args, returned,
                     handler, answer>>
  BY <1>1 DEF PollHandling, TypeOK, IsReady
<1>4. Handling(r)' /\ ArgsFit(r)'
  BY <1>1, <1>3 DEF SlotInv, Handling, ArgsFit, BodyFits
<1>5. Sleeping(r)'
  BY <1>3 DEF Sleeping, IsAwaiting
<1>6. (Extracting(r) /\ Answered(r))'
  BY <1>3 DEF Extracting, Answered
<1> QED BY <1>2, <1>3, <1>4, <1>5, <1>6 DEF SlotInv

\* The value in the future is nearer to what the handler's response will be.
LEMMA PollAwaitedKeeps ==
  ASSUME IInv, NEW r \in Slots, PollAwaited(r)
  PROVE  TypeOK' /\ SlotInv(r)'
<1>1. TypeOK /\ SlotInv(r)
  BY DEF IInv
<1>2. /\ phase[r] = "handle" /\ task' = [task EXCEPT ![r] = "polling"]
      /\ handler[r].value # << >> /\ Head(handler[r].value) = "future"
      /\ UNCHANGED <<phase, sig, head, client, holder, parts, items, request, args, returned,
                     answer, waits>>
  BY DEF PollAwaited, IsAwaited, IsFuture
<1>3. PICK fut \in RespondTo(Tail(handler[r].value)) : handler' = [handler EXCEPT ![r] = fut]
  BY DEF PollAwaited
<1>4. /\ IsValue(handler[r].value) /\ handler[r].value[1] = "future"
      /\ Leads(handler[r].value, returned[r])
  BY <1>1, <1>2 DEF SlotInv, Handling
<1>5. IsValue(Tail(handler[r].value)) /\ Leads(Tail(handler[r].value), returned[r])
  BY <1>4, TailIsRest, LeadsOn
<1>6. /\ fut = [value |-> fut.value, ready |-> fut.ready] /\ fut.ready \in BOOLEAN
      /\ IsValue(fut.value) /\ fut.value[1] \notin Wrappers
      /\ ~fut.ready => fut.value[1] = "future"
      /\ Leads(fut.value, returned[r])
  BY <1>3, <1>5, RespondToType, LeadsOn
<1>7. handler'[r] = fut /\ task'[r] = "polling"
  BY <1>1, <1>2, <1>3 DEF TypeOK
<1>8. TypeOK'
  <2>1. fut \in [value : Seq(Layers), ready : BOOLEAN]
    BY <1>6 DEF IsValue
  <2>2. handler' \in [Slots -> [value : Seq(Layers), ready : BOOLEAN]]
    BY <1>1, <1>3, <2>1 DEF TypeOK
  <2> QED BY <1>1, <1>2, <2>2 DEF TypeOK
<1>9. Handling(r)'
  BY <1>1, <1>2, <1>6, <1>7 DEF SlotInv, Handling
<1>10. ArgsFit(r)'
  BY <1>1, <1>2 DEF SlotInv, ArgsFit, BodyFits
<1>11. (Extracting(r) /\ Sleeping(r) /\ Answered(r))'
  BY <1>2, <1>7 DEF Extracting, Sleeping, Answered
<1> QED BY <1>2, <1>8, <1>9, <1>10, <1>11 DEF SlotInv

LEMMA ReplyType ==
  ASSUME NEW inner \in Inner
  PROVE  Reply(inner) \in [status : Statuses, type : MediaTypes]
BY DEF Reply, Inner, Statuses, MediaTypes

\* The response goes out: what is left of the value is its innermost, or an
\* error of one of its futures.
LEMMA PollAnsweredKeeps ==
  ASSUME IInv, NEW r \in Slots, PollAnswered(r)
  PROVE  TypeOK' /\ SlotInv(r)'
<1>1. TypeOK /\ SlotInv(r)
  BY DEF IInv
<1> DEFINE left == handler[r].value
           reply == Reply(Head(left))
<1>2. /\ phase[r] = "handle" /\ request[r] = "handle" /\ Len(args[r]) = Len(sig[r])
      /\ IsValue(returned[r]) /\ IsValue(left) /\ left[1] \notin Wrappers
      /\ Leads(left, returned[r]) /\ left # << >> /\ Head(left) # "future"
      /\ handler' = [handler EXCEPT ![r].value = << >>]
      /\ UNCHANGED <<sig, head, client, holder, parts, items, args, returned>>
  BY <1>1 DEF PollAnswered, SlotInv, Handling, IsValue, IsAwaited, IsFuture
<1>3. Len(left) = 1 /\ Head(left) = left[1] /\ left[1] \in Inner
  <2>1. Len(left) \in Nat \ {0} /\ Head(left) = left[1]
    BY <1>2, EmptySeq DEF IsValue
  <2>2. 1 \notin 1..(Len(left) - 1)
    BY <1>2, <2>1 DEF IsValue
  <2>3. \A l \in Nat \ {0} : 1 \notin 1..(l - 1) => l = 1
    OBVIOUS
  <2>4. Len(left) = 1
    BY <2>1, <2>2, <2>3
  <2> QED BY <1>2, <2>1, <2>4 DEF IsValue
<1>4. reply \in [status : Statuses, type : MediaTypes]
  BY <1>3, ReplyType
<1> DEFINE said == [by |-> 0, status |-> reply.status, type |-> reply.type]
<1>5. Settle(r, "answered", said)
  BY <1>2 DEF PollAnswered
<1>6. /\ \/ said.status = Reply(Last(returned[r])).status /\ said.type = Reply(Last(returned[r])).type
         \/ said.status = "error" /\ HasFuture(returned[r])
      /\ said.by = 0
      /\ said \in [by : MaxParts \cup {0}, status : Statuses, type : MediaTypes]
  BY <1>2, <1>3, <1>4 DEF Leads, Last, Reply
<1> HIDE DEF said
<1>7. phase'[r] = "answered" /\ answer'[r] = said
  BY <1>1, <1>5 DEF TypeOK, Settle
<1>8. TypeOK'
  <2>1. handler' \in [Slots -> [value : Seq(Layers), ready : BOOLEAN]]
    <3>1. handler \in [Slots -> [value : Seq(Layers), ready : BOOLEAN]]
      BY <1>1 DEF TypeOK
    <3> QED BY <1>2, <3>1, Emptied
  <2> QED BY <1>1, <1>2, <1>5, <1>6, <2>1 DEF TypeOK, Settle, Over
<1>9. Answered(r)'
  BY <1>2, <1>6, <1>7 DEF Answered, IsValue
<1>10. ArgsFit(r)'
  BY <1>1, <1>2, <1>7 DEF SlotInv, ArgsFit, BodyFits
<1>11. (Extracting(r) /\ Handling(r) /\ Sleeping(r))'
  BY <1>7 DEF Extracting, Handling, Sleeping
<1> QED BY <1>7, <1>8, <1>9, <1>10, <1>11 DEF SlotInv

-----------------------------------------------------------------------------
(* Every step keeps the invariant: that of the slot it is of, as seen, and *)
(* those of the others, which it does not touch                            *)

LEMMA OnlyOwnSlot ==
  ASSUME TypeOK, NEW r \in Slots, NEW q \in Slots, q # r,
         \/ \E s \in Signatures, h \in Heads : Call(r, s, h)
         \/ Poll(r) \/ Drop(r) \/ Free(r) \/ Send(r)
         \/ \E how \in {"complete", "gone"} : EndBody(r, how)
         \/ \E n \in MaxParts, result \in {"ok", "err"} : Complete(r, n, result)
         \/ Handled(r)
  PROVE  Same(q)
<1> USE DEF TypeOK, Same
<1>1. CASE \E s \in Signatures, h \in Heads : Call(r, s, h)
  BY <1>1 DEF Call
<1>2. CASE PollRejected(r)
  BY <1>2 DEF PollRejected, Settle
<1>3. CASE PollIncomplete(r)
  BY <1>3 DEF PollIncomplete, Spend
<1>4. CASE \E value \in Values : PollExtracted(r, value)
  BY <1>4 DEF PollExtracted, Spend, Settle
<1>5. CASE PollAwaited(r) \/ PollAnswered(r) \/ PollHandling(r)
  BY <1>5 DEF PollAwaited, PollAnswered, PollHandling, Settle
<1>6. CASE Drop(r) \/ Free(r)
  BY <1>6 DEF Drop, Free, Settle
<1>7. CASE Send(r)
  BY <1>7 DEF Send, Wake
<1>8. CASE \E how \in {"complete", "gone"} : EndBody(r, how)
  BY <1>8 DEF EndBody, Wake
<1>9. CASE \E n \in MaxParts, result \in {"ok", "err"} : Complete(r, n, result)
  BY <1>9 DEF Complete, Wake
<1>10. CASE Handled(r)
  BY <1>10 DEF Handled, Wake
<1> QED BY <1>1, <1>2, <1>3, <1>4, <1>5, <1>6, <1>7, <1>8, <1>9, <1>10 DEF Poll

LEMMA StepKeeps == IInv /\ [Next]_vars => IInv'
<1> SUFFICES ASSUME IInv, [Next]_vars PROVE IInv'
  OBVIOUS
<1>1. CASE UNCHANGED vars
  <2>1. TypeOK'
    BY <1>1 DEF IInv, TypeOK, vars
  <2>2. \A r \in Slots : Same(r)
    BY <1>1 DEF Same, vars
  <2> QED BY <2>1, <2>2, OthersKeep DEF IInv
<1>2. CASE Next
  <2>1. PICK r \in Slots :
          \/ \E s \in Signatures, h \in Heads : Call(r, s, h)
          \/ Poll(r) \/ Drop(r) \/ Free(r) \/ Send(r)
          \/ \E how \in {"complete", "gone"} : EndBody(r, how)
          \/ \E n \in MaxParts, result \in {"ok", "err"} : Complete(r, n, result)
          \/ Handled(r)
    BY <1>2 DEF Next
  <2>2. TypeOK' /\ SlotInv(r)'
    <3>1. CASE Poll(r)
      BY <3>1, PollRejectedKeeps, PollIncompleteKeeps, PollExtractedKeeps, PollAwaitedKeeps,
         PollAnsweredKeeps, PollHandlingKeeps DEF Poll
    <3>2. CASE ~Poll(r)
      BY <2>1, <3>2, CallKeeps, DropKeeps, FreeKeeps, ClientKeeps, CompleteKeeps, HandledKeeps
    <3> QED BY <3>1, <3>2
  <2>3. ASSUME NEW q \in Slots, q # r PROVE SlotInv(q)'
    <3>1. Same(q)
      BY <2>1, <2>3, OnlyOwnSlot DEF IInv
    <3> QED BY <3>1, OthersKeep DEF IInv
  <2> QED BY <2>2, <2>3 DEF IInv
<1> QED BY <1>1, <1>2

LEMMA Invariant == Spec => []IInv
BY InitIInv, StepKeeps, PTL DEF Spec

-----------------------------------------------------------------------------
(* What the invariant says *)

\* Every variable keeps its type; no item is larger than the limit on bodies,
\* however much a client sends.
THEOREM TypeCorrect == Spec => []TypeOK
<1>1. IInv => TypeOK
  BY DEF IInv
<1> QED BY <1>1, Invariant, PTL

\* No handler is called with a body in two of its arguments, or with a part
\* of one: it is whole, and with the first body extractor that did not refuse
\* the request.
THEOREM BodyGoesToOneArgument == Spec => []BodyGoesToOne
<1>1. IInv => BodyGoesToOne
  <2> SUFFICES ASSUME IInv, NEW r \in Slots, NEW n \in DOMAIN args[r]
               PROVE  LET takers == Takers(sig[r], head[r]) IN
                      IF n \in takers /\ \A m \in takers : n <= m
                      THEN args[r][n].got = "value" =>
                             client[r].end = "complete" /\ args[r][n].body = client[r].sent
                      ELSE args[r][n].body = 0
    BY DEF BodyGoesToOne
  <2>1. TypeOK /\ ArgsFit(r)
    BY DEF IInv, SlotInv
  <2>2. /\ Len(args[r]) \in Nat /\ n \in 1..Len(args[r]) /\ args[r] # << >>
    BY <2>1, SlotType, LenProperties, EmptySeq
  <2>3. /\ holder[r] = Holder(sig[r], head[r]) /\ sig[r] \in Signatures
        /\ BodyFits(r, n, args[r][n])
    BY <2>1, <2>2 DEF ArgsFit
  <2>4. holder[r] = n <=> /\ n \in Takers(sig[r], head[r])
                          /\ \A m \in Takers(sig[r], head[r]) : n <= m
    <3> DEFINE takers == Takers(sig[r], head[r])
    <3>1. /\ holder[r] = 0 => takers = {}
          /\ holder[r] # 0 => holder[r] \in takers /\ \A m \in takers : holder[r] <= m
          /\ takers \subseteq Nat
      BY <2>1, <2>3, SlotType, HolderIsFirst
    <3> HIDE DEF takers
    <3>2. n # 0 /\ n \in Nat
      BY <2>2
    <3>3. ASSUME n \in takers, \A m \in takers : n <= m PROVE holder[r] = n
      <4>1. holder[r] \in takers /\ holder[r] <= n
        BY <3>1, <3>3
      <4>2. holder[r] \in Nat /\ n <= holder[r]
        BY <3>1, <3>3, <4>1
      <4> QED BY <3>2, <4>1, <4>2
    <3> QED BY <3>1, <3>2, <3>3 DEF takers
  <2> QED BY <2>3, <2>4 DEF BodyFits
<1> QED BY <1>1, Invariant, PTL

\* A request is rejected only by a plain extractor before which none failed,
\* without a call of its handler; every other one is answered with what its
\* handler returned, or with an error of a future around it.
THEOREM RightOneAnswers == Spec => []AnsweredByRightOne
<1>1. IInv => AnsweredByRightOne
  <2> SUFFICES ASSUME IInv, NEW r \in Slots, phase[r] = "answered"
               PROVE  LET by == answer[r].by
                          inner == Reply(Last(returned[r])) IN
                      IF by = 0
                      THEN /\ Len(args[r]) = Len(sig[r])
                           /\ \/ answer[r].status = inner.status /\ answer[r].type = inner.type
                              \/ /\ answer[r].status = "error"
                                 /\ \E k \in DOMAIN returned[r] : returned[r][k] = "future"
                      ELSE /\ args[r] = << >>
                           /\ sig[r][by].wrap = "plain"
                           /\ \A m \in 1..(by - 1) :
                                sig[r][m].wrap = "plain" => Outcome(r, m) # "err"
    BY DEF AnsweredByRightOne
  <2>1. TypeOK /\ Answered(r)
    BY DEF IInv, SlotInv
  <2>2. DOMAIN returned[r] = 1..Len(returned[r])
    BY <2>1, ReturnedIsValue, LenProperties, EmptySeq DEF TypeOK, IsValue
  <2> QED BY <2>1, <2>2 DEF Answered, HasFuture
<1> QED BY <1>1, Invariant, PTL

\* No extractor is polled after it gave its result, no argument is unwrapped
\* that is not there, and the request is where it is taken from.
THEOREM NothingUnwrapsNone == Spec => []NoUnwrapOfNone
<1>1. IInv => NoUnwrapOfNone
  BY DEF IInv, SlotInv, NoUnwrapOfNone
<1> QED BY <1>1, Invariant, PTL

\* No wakeup is lost: what a sleeping request registered with is still to
\* come.
THEOREM SleepersAwaitSomething == Spec => []SleepersAreWoken
<1>1. IInv => SleepersAreWoken
  BY DEF IInv, SlotInv, Sleeping, IsAwaiting, SleepersAreWoken
<1> QED BY <1>1, Invariant, PTL
=============================================================================
