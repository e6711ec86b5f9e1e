-------------------------- MODULE MessengerProofs ---------------------------
(***************************************************************************)
(* Of every part of Messenger, the inductive invariant its property needs  *)
(* (that of the signature is in Ed25519Proofs), and the theorems of the    *)
(* composition: Spec implies the specification of each part, since a step  *)
(* is one of a single part.                                                *)
(***************************************************************************)
EXTENDS Messenger, SequenceTheorems, FiniteSetTheorems, FunctionTheorems, TLAPS
-----------------------------------------------------------------------------
(* The event stream.  NothingMissed speaks of a stream that has caught up;  *)
(* what carries it over errors and reconnects is that every source after    *)
(* the first hello begins where the first one began (Anchored), and that    *)
(* an open one has handed over all from there to where it stands            *)
(* (HandedOver).                                                            *)

\* A component that is not mounted yet has no stream.
Unmounted == mounted = "new" => first = E!Nowhere /\ source = "none" /\ ~timer

\* Once a hello was heard, every source begins at the same event.
Anchored == /\ first # E!Nowhere => cursor = first /\ begin = first
            /\ first # E!Now
            /\ source \in {"hello", "open"} => begin # E!Now

HandedOver == source = "open" =>
                 first # E!Nowhere /\ (first + 1)..delivered \subseteq handled

\* TypeOK, conjunct by conjunct.
StreamSized == /\ published \in Nat /\ published <= MaxEvents
         /\ delivered \in Nat /\ delivered <= MaxEvents
         /\ cursor \in Nat /\ cursor <= MaxEvents
         /\ begin \in Nat /\ begin <= E!Now
         /\ first \in Nat /\ first <= E!Nowhere
         /\ handled \subseteq 1..MaxEvents
         /\ source \in {"none", "connecting", "hello", "open", "closed"}
         /\ attempts \in Nat /\ attempts <= MaxAttempts
         /\ mounted \in {"new", "mounted", "gone"}
StreamTypesKept == StreamSized /\ timer \in BOOLEAN

EInv == StreamTypesKept /\ Unmounted /\ Anchored /\ HandedOver
-----------------------------------------------------------------------------
LEMMA StreamTypes ==
    ASSUME E!EventStreamAssumption PROVE StreamTypesKept => E!TypeOK
<1>1. StreamTypesKept => /\ published \in 0..MaxEvents
               /\ delivered \in 0..MaxEvents
               /\ cursor \in 0..MaxEvents
  BY DEF E!EventStreamAssumption, StreamSized, StreamTypesKept
<1>2. StreamTypesKept => begin \in 0..E!Now /\ first \in 0..E!Nowhere /\ attempts \in 0..MaxAttempts
  BY DEF E!EventStreamAssumption, StreamSized, StreamTypesKept, E!Now, E!Nowhere
<1> QED BY <1>1, <1>2 DEF StreamSized, StreamTypesKept, E!TypeOK

LEMMA StreamInit ==
    ASSUME E!EventStreamAssumption, E!Init PROVE EInv
<1>1. StreamTypesKept
  <2>1. StreamSized
    BY DEF E!EventStreamAssumption, E!Init, StreamSized, E!Now, E!Nowhere
  <2>2. timer \in BOOLEAN
    BY DEF E!Init
  <2> QED BY <2>1, <2>2 DEF StreamTypesKept
<1>2. Unmounted /\ Anchored /\ HandedOver
  BY DEF E!EventStreamAssumption, E!Init, Unmounted, Anchored, HandedOver, E!Now, E!Nowhere
<1> QED BY <1>1, <1>2 DEF EInv

LEMMA StreamStep ==
    ASSUME E!EventStreamAssumption, EInv, [E!Next]_E!vars PROVE EInv'
<1> USE DEF E!EventStreamAssumption
<1>a. StreamTypesKept /\ Unmounted /\ Anchored /\ HandedOver
  BY DEF EInv
<1>1. CASE E!Publish
  <2>1. StreamTypesKept'
    <3>1. StreamSized'
      BY <1>a, <1>1 DEF StreamSized, StreamTypesKept, Unmounted, Anchored, E!Now, E!Nowhere, E!Publish
    <3>2. timer' \in BOOLEAN
      BY <1>a, <1>1 DEF StreamTypesKept, E!Publish
    <3> QED BY <3>1, <3>2 DEF StreamTypesKept
  <2>2. Unmounted'
    BY <1>a, <1>1 DEF Unmounted, E!Publish
  <2>3. Anchored'
    BY <1>a, <1>1 DEF StreamSized, StreamTypesKept, Unmounted, Anchored, HandedOver, E!Now, E!Nowhere, E!Publish
  <2>4. HandedOver'
    BY <1>a, <1>1 DEF StreamSized, StreamTypesKept, Anchored, HandedOver, E!Now, E!Nowhere, E!Publish
  <2> QED BY <2>1, <2>2, <2>3, <2>4 DEF EInv
<1>2. CASE E!mount
  <2>1. StreamTypesKept'
    <3>1. StreamSized'
      BY <1>a, <1>2 DEF StreamSized, StreamTypesKept, Unmounted, Anchored, E!Now, E!Nowhere, E!mount, E!connect
    <3>2. timer' \in BOOLEAN
      BY <1>a, <1>2 DEF StreamTypesKept, E!mount, E!connect
    <3> QED BY <3>1, <3>2 DEF StreamTypesKept
  <2>2. Unmounted'
    BY <1>a, <1>2 DEF Unmounted, E!mount, E!connect
  <2>3. Anchored'
    BY <1>a, <1>2 DEF StreamSized, StreamTypesKept, Unmounted, Anchored, HandedOver, E!Now, E!Nowhere, E!mount, E!connect
  <2>4. HandedOver'
    BY <1>a, <1>2 DEF StreamSized, StreamTypesKept, Anchored, HandedOver, E!Now, E!Nowhere, E!mount, E!connect
  <2> QED BY <2>1, <2>2, <2>3, <2>4 DEF EInv
<1>3. CASE E!disconnect
  <2>1. StreamTypesKept'
    <3>1. StreamSized'
      BY <1>a, <1>3 DEF StreamSized, StreamTypesKept, Unmounted, Anchored, E!Now, E!Nowhere, E!disconnect
    <3>2. timer' \in BOOLEAN
      BY <1>a, <1>3 DEF StreamTypesKept, E!disconnect
    <3> QED BY <3>1, <3>2 DEF StreamTypesKept
  <2>2. Unmounted'
    BY <1>a, <1>3 DEF Unmounted, E!disconnect
  <2>3. Anchored'
    BY <1>a, <1>3 DEF StreamSized, StreamTypesKept, Unmounted, Anchored, HandedOver, E!Now, E!Nowhere, E!disconnect
  <2>4. HandedOver'
    BY <1>a, <1>3 DEF StreamSized, StreamTypesKept, Anchored, HandedOver, E!Now, E!Nowhere, E!disconnect
  <2> QED BY <2>1, <2>2, <2>3, <2>4 DEF EInv
<1>4. CASE E!onopen
  <2>1. StreamTypesKept'
    <3>1. StreamSized'
      BY <1>a, <1>4 DEF StreamSized, StreamTypesKept, Unmounted, Anchored, E!Now, E!Nowhere, E!onopen
    <3>2. timer' \in BOOLEAN
      BY <1>a, <1>4 DEF StreamTypesKept, E!onopen
    <3> QED BY <3>1, <3>2 DEF StreamTypesKept
  <2>2. Unmounted'
    BY <1>a, <1>4 DEF Unmounted, E!onopen
  <2>3. Anchored'
    BY <1>a, <1>4 DEF StreamSized, StreamTypesKept, Unmounted, Anchored, HandedOver, E!Now, E!Nowhere, E!onopen
  <2>4. HandedOver'
    BY <1>a, <1>4 DEF StreamSized, StreamTypesKept, Anchored, HandedOver, E!Now, E!Nowhere, E!onopen
  <2> QED BY <2>1, <2>2, <2>3, <2>4 DEF EInv
<1>5. CASE E!hello
  <2>1. StreamTypesKept'
    <3>1. StreamSized'
      BY <1>a, <1>5 DEF StreamSized, StreamTypesKept, Unmounted, Anchored, E!Now, E!Nowhere, E!hello
    <3>2. timer' \in BOOLEAN
      BY <1>a, <1>5 DEF StreamTypesKept, E!hello
    <3> QED BY <3>1, <3>2 DEF StreamTypesKept
  <2>2. Unmounted'
    BY <1>a, <1>5 DEF Unmounted, E!hello
  <2>3. Anchored'
    BY <1>a, <1>5 DEF StreamSized, StreamTypesKept, Unmounted, Anchored, HandedOver, E!Now, E!Nowhere, E!hello
  <2>4. HandedOver'
    BY <1>a, <1>5 DEF StreamSized, StreamTypesKept, Anchored, HandedOver, E!Now, E!Nowhere, E!hello
  <2> QED BY <2>1, <2>2, <2>3, <2>4 DEF EInv
<1>6. CASE E!handleEvent
  <2>1. StreamTypesKept'
    <3>1. StreamSized'
      BY <1>a, <1>6 DEF StreamSized, StreamTypesKept, Unmounted, Anchored, E!Now, E!Nowhere, E!handleEvent
    <3>2. timer' \in BOOLEAN
      BY <1>a, <1>6 DEF StreamTypesKept, E!handleEvent
    <3> QED BY <3>1, <3>2 DEF StreamTypesKept
  <2>2. Unmounted'
    BY <1>a, <1>6 DEF Unmounted, E!handleEvent
  <2>3. Anchored'
    BY <1>a, <1>6 DEF StreamSized, StreamTypesKept, Unmounted, Anchored, HandedOver, E!Now, E!Nowhere, E!handleEvent
  <2>4. (first + 1)..(delivered + 1) \subseteq (first + 1)..delivered \cup {delivered + 1}
    BY <1>a DEF StreamSized, StreamTypesKept
  <2>5. HandedOver'
    BY <1>a, <1>6, <2>4 DEF HandedOver, E!handleEvent
  <2> QED BY <2>1, <2>2, <2>3, <2>5 DEF EInv
<1>7. CASE E!onerror
  <2>1. StreamTypesKept'
    <3>1. StreamSized'
      BY <1>a, <1>7 DEF StreamSized, StreamTypesKept, Unmounted, Anchored, E!Now, E!Nowhere, E!onerror, E!exhausted
    <3>2. timer' \in BOOLEAN
      BY <1>a, <1>7 DEF StreamTypesKept, E!onerror, E!exhausted
    <3> QED BY <3>1, <3>2 DEF StreamTypesKept
  <2>2. Unmounted'
    BY <1>a, <1>7 DEF Unmounted, E!onerror, E!exhausted
  <2>3. Anchored'
    BY <1>a, <1>7 DEF StreamSized, StreamTypesKept, Unmounted, Anchored, HandedOver, E!Now, E!Nowhere, E!onerror, E!exhausted
  <2>4. HandedOver'
    BY <1>a, <1>7 DEF StreamSized, StreamTypesKept, Anchored, HandedOver, E!Now, E!Nowhere, E!onerror, E!exhausted
  <2> QED BY <2>1, <2>2, <2>3, <2>4 DEF EInv
<1>8. CASE E!reconnect
  <2>1. StreamTypesKept'
    <3>1. StreamSized'
      BY <1>a, <1>8 DEF StreamSized, StreamTypesKept, Unmounted, Anchored, E!Now, E!Nowhere, E!reconnect, E!connect
    <3>2. timer' \in BOOLEAN
      BY <1>a, <1>8 DEF StreamTypesKept, E!reconnect, E!connect
    <3> QED BY <3>1, <3>2 DEF StreamTypesKept
  <2>2. Unmounted'
    BY <1>a, <1>8 DEF Unmounted, E!reconnect, E!connect
  <2>3. Anchored'
    BY <1>a, <1>8 DEF StreamSized, StreamTypesKept, Unmounted, Anchored, HandedOver, E!Now, E!Nowhere, E!reconnect, E!connect
  <2>4. HandedOver'
    BY <1>a, <1>8 DEF StreamSized, StreamTypesKept, Anchored, HandedOver, E!Now, E!Nowhere, E!reconnect, E!connect
  <2> QED BY <2>1, <2>2, <2>3, <2>4 DEF EInv
<1>9. CASE UNCHANGED E!vars
  <2>1. StreamTypesKept'
    <3>1. StreamSized'
      BY <1>a, <1>9 DEF StreamSized, StreamTypesKept, Unmounted, Anchored, E!Now, E!Nowhere, E!vars
    <3>2. timer' \in BOOLEAN
      BY <1>a, <1>9 DEF StreamTypesKept, E!vars
    <3> QED BY <3>1, <3>2 DEF StreamTypesKept
  <2>2. Unmounted'
    BY <1>a, <1>9 DEF Unmounted, E!vars
  <2>3. Anchored'
    BY <1>a, <1>9 DEF StreamSized, StreamTypesKept, Unmounted, Anchored, HandedOver, E!Now, E!Nowhere, E!vars
  <2>4. HandedOver'
    BY <1>a, <1>9 DEF StreamSized, StreamTypesKept, Anchored, HandedOver, E!Now, E!Nowhere, E!vars
  <2> QED BY <2>1, <2>2, <2>3, <2>4 DEF EInv
<1> QED
  BY <1>1, <1>2, <1>3, <1>4, <1>5, <1>6, <1>7, <1>8, <1>9 DEF E!Next

LEMMA StreamInductive ==
    ASSUME E!EventStreamAssumption PROVE E!Spec => []EInv
<1>1. E!Init => EInv
  BY StreamInit
<1>2. EInv /\ [E!Next]_E!vars => EInv'
  BY StreamStep
<1> QED BY <1>1, <1>2, PTL DEF E!Spec
-----------------------------------------------------------------------------
\* The variables keep their types: the cursor is always an event the gateway can
\* find, and the attempts never pass maxReconnectAttempts (sse.ts).
LEMMA StreamTyped ==
    ASSUME E!EventStreamAssumption PROVE E!Spec => []E!TypeOK
<1>1. EInv => E!TypeOK
  BY StreamTypes DEF EInv
<1> QED BY <1>1, StreamInductive, PTL

\* However often the stream breaks, and wherever, the handlers are given every
\* event since the first hello by the time an open stream has caught up: the
\* cursor kept by the hello handler (sse.ts) is never moved past one of them.
LEMMA StreamMissesNothing ==
    ASSUME E!EventStreamAssumption PROVE E!Spec => []E!NothingMissed
<1>1. EInv => E!NothingMissed
  BY DEF EInv, HandedOver, E!NothingMissed
<1> QED BY <1>1, StreamInductive, PTL
-----------------------------------------------------------------------------
(* The sign-in.  The identity is one because of what holds while a call of  *)
(* useAuth waits for its answer (Staged): whose token, key and user it      *)
(* found, and which of them it has changed; and because of whose calls may  *)
(* still answer (Tenancy).                                                  *)

SigningIn == {"registering", "login", "signing"}

\* The types, those of Boolean variables apart.
Known == /\ token \in Users \cup {None}
         /\ key \in Users \cup {None}
         /\ user \in Users \cup {None, A!DemoUser}
         /\ tenant \in Tenants \cup {None}
         /\ page \in {"login", "onboarding", "app"}
         /\ op \in A!Op
         /\ left \subseteq {"key", "tenant"}
Flags == canSign \in BOOLEAN /\ loading \in BOOLEAN
Served == asks \subseteq A!Ask /\ member \in [Users -> Tenants \cup {None}]

\* What holds while a call of useAuth is under way.
Staged ==
    /\ op.pc = "restoring" => loading /\ token # None /\ user = None /\ key = None
    /\ op.pc \in SigningIn => loading /\ page = "login" /\ op.user \in Users
    /\ op.pc = "signing" /\ op.prf => key = op.user
    /\ page = "login" => user = None
    /\ page # "login" /\ ~loading => user # None
    /\ user = None => ~canSign

\* OneIdentity of the token and the key, and of the tenant: unless another user left
\* his, whatever is under way was asked by the user shown.
Keys == /\ user \in Users => token = user
        /\ canSign => key = user
        /\ "key" \notin left => \/ key \in {None, user}
                                \/ op.pc = "signing" /\ op.prf /\ key = op.user
Tenancy == user \in Users /\ "tenant" \notin left =>
             tenant \in {None, member[user]} /\ \A a \in asks : a.by = user

AInv == Known /\ Flags /\ Served /\ Staged /\ Keys /\ Tenancy
-----------------------------------------------------------------------------
LEMMA SignInTypes == AInv => A!TypeOK
BY DEF AInv, Known, Flags, Served, A!TypeOK

LEMMA NoOpTyped == A!NoOp \in A!Op /\ A!NoOp.pc = "idle"
BY DEF A!NoOp, A!Op

\* A page is shown to somebody unless it is the login page.
LEMMA RoutedPage ==
    ASSUME NEW p, NEW u, NEW t
    PROVE  /\ A!Routed(p, u, t) \in {"login", "onboarding", "app"}
           /\ A!Routed(p, u, t) = "login" <=> u = None
BY DEF A!Routed

LEMMA SignInInit ==
    ASSUME A!SignInAssumption, A!Init PROVE AInv
<1>1. Known
  BY NoOpTyped DEF A!Init, Known
<1>2. Flags
  BY DEF A!Init, Flags
<1>3. Served
  BY DEF A!Init, Served
<1>4. Staged
  BY NoOpTyped DEF A!Init, Staged, SigningIn
<1>5. Keys /\ Tenancy
  BY DEF A!Init, A!SignInAssumption, Keys, Tenancy
<1> QED BY <1>1, <1>2, <1>3, <1>4, <1>5 DEF AInv

\* A step that ends signed in, as checkSession, registered and loggedIn do.
LEMMA SignedInKeeps ==
    ASSUME A!SignInAssumption, AInv, NEW u \in Users, NEW sign \in BOOLEAN,
           A!SignedIn(u, sign), sign => key = u, ~sign /\ "key" \notin left => key = None,
           UNCHANGED <<tenant, key, member>>, \A a \in asks' : a \in asks \/ a.by = u
    PROVE  Known' /\ Flags' /\ Staged' /\ Keys' /\ Tenancy'
<1>0. u # None
  BY DEF A!SignInAssumption
<1>1. Known'
  BY RoutedPage, NoOpTyped DEF AInv, Known, A!SignedIn
<1>2. Flags'
  BY DEF Flags, A!SignedIn
<1>3. Staged'
  BY <1>0, RoutedPage, NoOpTyped DEF Staged, A!SignedIn, SigningIn
<1>4. Keys'
  BY <1>0, NoOpTyped DEF Keys, A!SignedIn
<1>5. Tenancy'
  BY DEF Tenancy, A!SignedIn, A!Foreign
<1> QED BY <1>1, <1>2, <1>3, <1>4, <1>5

LEMMA ReloadStep ==
    ASSUME A!SignInAssumption, AInv, A!reload
    PROVE  AInv'
<1> USE DEF AInv
<1>1. Known'
  BY NoOpTyped, RoutedPage DEF Known, Served, A!Ask, A!Op, A!reload
<1>2. Flags'
  BY DEF Flags, A!reload
<1>3. Served'
  BY DEF Served, Known, Staged, A!Ask, A!reload
<1>4. Staged'
  BY NoOpTyped, RoutedPage DEF Staged, Keys, SigningIn, Known, A!Op, A!reload
<1>5. Keys'
  BY NoOpTyped DEF Staged, Keys, SigningIn, Known, A!Op, A!SignInAssumption, A!reload
<1>6. Tenancy'
  BY DEF Tenancy, Keys, Staged, SigningIn, Known, Served, A!Ask, A!SignInAssumption, A!reload
<1> QED BY <1>1, <1>2, <1>3, <1>4, <1>5, <1>6

LEMMA RestoreStep ==
    ASSUME A!SignInAssumption, AInv, NEW answer, A!checkSession(answer)
    PROVE  AInv'
<1> USE DEF AInv
<1>1. Served'
  BY DEF A!checkSession, Served
<1>2. CASE answer = "ok"
  <2>1. token \in Users /\ key = None
    BY DEF A!checkSession, Staged, Known
  <2>2. A!SignedIn(token, FALSE) /\ UNCHANGED <<tenant, key, member, asks>>
    BY <1>2, <2>1 DEF A!checkSession
  <2> QED BY <1>1, <2>1, <2>2, SignedInKeeps
<1>3. CASE answer # "ok"
  <2>1. Known'
    BY <1>3, NoOpTyped DEF Known, A!checkSession
  <2>2. Flags'
    BY <1>3 DEF Flags, A!checkSession
  <2>3. Staged'
    BY <1>3, NoOpTyped DEF Staged, A!checkSession, SigningIn
  <2>4. Keys' /\ Tenancy'
    BY <1>3, NoOpTyped DEF Staged, Keys, Tenancy, A!checkSession, A!SignInAssumption
  <2> QED BY <1>1, <2>1, <2>2, <2>3, <2>4
<1> QED BY <1>2, <1>3

LEMMA RegisterStep ==
    ASSUME A!SignInAssumption, AInv, NEW u \in Users, A!registerPasskey(u)
    PROVE  AInv'
<1> USE DEF AInv
<1>1. Known'
  BY NoOpTyped, RoutedPage DEF Known, Served, A!Ask, A!Op, A!registerPasskey, A!Begin
<1>2. Flags'
  BY DEF Flags, A!registerPasskey, A!Begin
<1>3. Served'
  BY DEF Served, Known, Staged, A!Ask, A!registerPasskey, A!Begin
<1>4. Staged'
  BY NoOpTyped, RoutedPage DEF Staged, Keys, SigningIn, Known, A!Op, A!registerPasskey, A!Begin
<1>5. Keys'
  BY NoOpTyped DEF Staged, Keys, SigningIn, Known, A!Op, A!SignInAssumption, A!registerPasskey, A!Begin
<1>6. Tenancy'
  BY DEF Tenancy, Keys, Staged, SigningIn, Known, Served, A!Ask, A!SignInAssumption, A!registerPasskey, A!Begin
<1> QED BY <1>1, <1>2, <1>3, <1>4, <1>5, <1>6

LEMMA RegisteredStep ==
    ASSUME A!SignInAssumption, AInv, A!registered
    PROVE  AInv'
<1> USE DEF AInv
<1>1. Served'
  BY DEF A!registered, Served
<1>2. op.user \in Users
  BY DEF A!registered, Staged, SigningIn
<1>3. "key" \notin left => key = None
  BY DEF A!registered, Staged, SigningIn, Keys
<1> QED BY <1>1, <1>2, <1>3, SignedInKeeps DEF A!registered

LEMMA LoginStep ==
    ASSUME A!SignInAssumption, AInv, NEW u \in Users, NEW prf \in BOOLEAN, A!loginWithPasskey(u, prf)
    PROVE  AInv'
<1> USE DEF AInv
<1>1. Known'
  BY NoOpTyped, RoutedPage DEF Known, Served, A!Ask, A!Op, A!loginWithPasskey, A!Begin
<1>2. Flags'
  BY DEF Flags, A!loginWithPasskey, A!Begin
<1>3. Served'
  BY DEF Served, Known, Staged, A!Ask, A!loginWithPasskey, A!Begin
<1>4. Staged'
  BY NoOpTyped, RoutedPage DEF Staged, Keys, SigningIn, Known, A!Op, A!loginWithPasskey, A!Begin
<1>5. Keys'
  BY NoOpTyped DEF Staged, Keys, SigningIn, Known, A!Op, A!SignInAssumption, A!loginWithPasskey, A!Begin
<1>6. Tenancy'
  BY DEF Tenancy, Keys, Staged, SigningIn, Known, Served, A!Ask, A!SignInAssumption, A!loginWithPasskey, A!Begin
<1> QED BY <1>1, <1>2, <1>3, <1>4, <1>5, <1>6

LEMMA AssertedStep ==
    ASSUME A!SignInAssumption, AInv, A!asserted
    PROVE  AInv'
<1> USE DEF AInv
<1>1. Known'
  BY NoOpTyped, RoutedPage DEF Known, Served, A!Ask, A!Op, A!asserted
<1>2. Flags'
  BY DEF Flags, A!asserted
<1>3. Served'
  BY DEF Served, Known, Staged, A!Ask, A!asserted
<1>4. Staged'
  BY NoOpTyped, RoutedPage DEF Staged, Keys, SigningIn, Known, A!Op, A!asserted
<1>5. Keys'
  BY NoOpTyped DEF Staged, Keys, SigningIn, Known, A!Op, A!SignInAssumption, A!asserted
<1>6. Tenancy'
  BY DEF Tenancy, Keys, Staged, SigningIn, Known, Served, A!Ask, A!SignInAssumption, A!asserted
<1> QED BY <1>1, <1>2, <1>3, <1>4, <1>5, <1>6

LEMMA LoggedInStep ==
    ASSUME A!SignInAssumption, AInv, A!loggedIn
    PROVE  AInv'
<1> USE DEF AInv
<1>1. op.user \in Users /\ op.prf \in BOOLEAN
  BY DEF A!loggedIn, Staged, SigningIn, Known, A!Op
<1>2. Served'
  BY <1>1 DEF A!loggedIn, Served, A!Ask
<1>3. op.prf => key = op.user
  BY DEF A!loggedIn, Staged
<1>4. ~op.prf /\ "key" \notin left => key = None
  BY DEF A!loggedIn, Staged, SigningIn, Keys
<1>5. \A a \in asks' : a \in asks \/ a.by = op.user
  BY DEF A!loggedIn
<1> QED BY <1>1, <1>2, <1>3, <1>4, <1>5, SignedInKeeps DEF A!loggedIn

LEMMA RefusedStep ==
    ASSUME A!SignInAssumption, AInv, A!refused
    PROVE  AInv'
<1> USE DEF AInv
<1>1. Known'
  BY NoOpTyped, RoutedPage DEF Known, Served, A!Ask, A!Op, A!refused
<1>2. Flags'
  BY DEF Flags, A!refused
<1>3. Served'
  BY DEF Served, Known, Staged, A!Ask, A!refused
<1>4. Staged'
  BY NoOpTyped, RoutedPage DEF Staged, Keys, SigningIn, Known, A!Op, A!refused
<1>5. Keys'
  BY NoOpTyped DEF Staged, Keys, SigningIn, Known, A!Op, A!SignInAssumption, A!refused
<1>6. Tenancy'
  BY DEF Tenancy, Keys, Staged, SigningIn, Known, Served, A!Ask, A!SignInAssumption, A!refused
<1> QED BY <1>1, <1>2, <1>3, <1>4, <1>5, <1>6

LEMMA LogoutStep ==
    ASSUME A!SignInAssumption, AInv, A!logout
    PROVE  AInv'
<1> USE DEF AInv
<1>1. Known'
  BY NoOpTyped, RoutedPage DEF Known, Served, A!Ask, A!Op, A!logout, A!SignOut
<1>2. Flags'
  BY DEF Flags, A!logout, A!SignOut
<1>3. Served'
  BY DEF Served, Known, Staged, A!Ask, A!logout, A!SignOut
<1>4. Staged'
  BY NoOpTyped, RoutedPage DEF Staged, Keys, SigningIn, Known, A!Op, A!logout, A!SignOut
<1>5. Keys'
  BY NoOpTyped DEF Staged, Keys, SigningIn, Known, A!Op, A!SignInAssumption, A!logout, A!SignOut
<1>6. Tenancy'
  BY DEF Tenancy, Keys, Staged, SigningIn, Known, Served, A!Ask, A!SignInAssumption, A!logout, A!SignOut
<1> QED BY <1>1, <1>2, <1>3, <1>4, <1>5, <1>6

LEMMA DemoStep ==
    ASSUME A!SignInAssumption, AInv, A!loginDemo
    PROVE  AInv'
<1> USE DEF AInv
<1>0. A!DemoUser \notin Users /\ A!DemoUser # None
  BY DEF A!SignInAssumption
<1>1. Known'
  BY NoOpTyped, RoutedPage DEF Known, A!loginDemo
<1>2. Flags'
  BY DEF Flags, A!loginDemo
<1>3. Served'
  BY DEF Served, A!loginDemo
<1>4. Staged'
  BY <1>0, NoOpTyped, RoutedPage DEF Staged, SigningIn, A!loginDemo
<1>5. Keys'
  BY <1>0, NoOpTyped DEF Keys, Known, A!loginDemo
<1>6. Tenancy'
  BY <1>0 DEF Tenancy, A!loginDemo
<1> QED BY <1>1, <1>2, <1>3, <1>4, <1>5, <1>6

LEMMA CheckStep ==
    ASSUME A!SignInAssumption, AInv, NEW a \in asks, NEW ok \in BOOLEAN, A!checkAndNavigate(a, ok)
    PROVE  AInv'
<1> USE DEF AInv
<1>1. Known'
  BY NoOpTyped, RoutedPage DEF Known, Served, A!Ask, A!Op, A!checkAndNavigate, A!Answered, A!Navigate
<1>2. Flags'
  BY DEF Flags, A!checkAndNavigate, A!Answered, A!Navigate
<1>3. Served'
  BY DEF Served, Known, Staged, A!Ask, A!checkAndNavigate, A!Answered, A!Navigate
<1>4. Staged'
  BY NoOpTyped, RoutedPage DEF Staged, Keys, SigningIn, Known, A!Op, A!checkAndNavigate, A!Answered, A!Navigate
<1>5. Keys'
  BY NoOpTyped DEF Staged, Keys, SigningIn, Known, A!Op, A!SignInAssumption, A!checkAndNavigate, A!Answered, A!Navigate
<1>6. Tenancy'
  BY DEF Tenancy, Keys, Staged, SigningIn, Known, Served, A!Ask, A!SignInAssumption, A!checkAndNavigate, A!Answered, A!Navigate
<1> QED BY <1>1, <1>2, <1>3, <1>4, <1>5, <1>6

LEMMA AskStep ==
    ASSUME A!SignInAssumption, AInv, NEW kind \in {"create", "join"}, A!ask(kind)
    PROVE  AInv'
<1> USE DEF AInv
<1>1. Known'
  BY NoOpTyped, RoutedPage DEF Known, Served, A!Ask, A!Op, A!ask
<1>2. Flags'
  BY DEF Flags, A!ask
<1>3. Served'
  BY DEF Served, Known, Staged, A!Ask, A!ask
<1>4. Staged'
  BY NoOpTyped, RoutedPage DEF Staged, Keys, SigningIn, Known, A!Op, A!ask
<1>5. Keys'
  BY NoOpTyped DEF Staged, Keys, SigningIn, Known, A!Op, A!SignInAssumption, A!ask
<1>6. Tenancy'
  BY DEF Tenancy, Keys, Staged, SigningIn, Known, Served, A!Ask, A!SignInAssumption, A!ask
<1> QED BY <1>1, <1>2, <1>3, <1>4, <1>5, <1>6

LEMMA CreateStep ==
    ASSUME A!SignInAssumption, AInv, NEW a \in asks, NEW t \in Tenants, A!handleCreateTenant(a, t)
    PROVE  AInv'
<1> USE DEF AInv
<1>1. Known'
  BY NoOpTyped, RoutedPage DEF Known, Served, A!Ask, A!Op, A!handleCreateTenant, A!Answered
<1>2. Flags'
  BY DEF Flags, A!handleCreateTenant, A!Answered
<1>3. Served'
  BY DEF Served, Known, Staged, A!Ask, A!handleCreateTenant, A!Answered
<1>4. Staged'
  BY NoOpTyped, RoutedPage DEF Staged, Keys, SigningIn, Known, A!Op, A!handleCreateTenant, A!Answered
<1>5. Keys'
  BY NoOpTyped DEF Staged, Keys, SigningIn, Known, A!Op, A!SignInAssumption, A!handleCreateTenant, A!Answered
<1>6. Tenancy'
  BY DEF Tenancy, Keys, Staged, SigningIn, Known, Served, A!Ask, A!SignInAssumption, A!handleCreateTenant, A!Answered
<1> QED BY <1>1, <1>2, <1>3, <1>4, <1>5, <1>6

LEMMA ContinueStep ==
    ASSUME A!SignInAssumption, AInv, A!handleContinueAfterCreate
    PROVE  AInv'
<1> USE DEF AInv
<1>1. Known'
  BY NoOpTyped, RoutedPage DEF Known, Served, A!Ask, A!Op, A!handleContinueAfterCreate, A!Navigate
<1>2. Flags'
  BY DEF Flags, A!handleContinueAfterCreate, A!Navigate
<1>3. Served'
  BY DEF Served, Known, Staged, A!Ask, A!handleContinueAfterCreate, A!Navigate
<1>4. Staged'
  BY NoOpTyped, RoutedPage DEF Staged, Keys, SigningIn, Known, A!Op, A!handleContinueAfterCreate, A!Navigate
<1>5. Keys'
  BY NoOpTyped DEF Staged, Keys, SigningIn, Known, A!Op, A!SignInAssumption, A!handleContinueAfterCreate, A!Navigate
<1>6. Tenancy'
  BY DEF Tenancy, Keys, Staged, SigningIn, Known, Served, A!Ask, A!SignInAssumption, A!handleContinueAfterCreate, A!Navigate
<1> QED BY <1>1, <1>2, <1>3, <1>4, <1>5, <1>6

LEMMA JoinStep ==
    ASSUME A!SignInAssumption, AInv, NEW a \in asks, NEW t \in Tenants, A!handleJoinTenant(a, t)
    PROVE  AInv'
<1> USE DEF AInv
<1>1. Known'
  BY NoOpTyped, RoutedPage DEF Known, Served, A!Ask, A!Op, A!handleJoinTenant, A!Answered, A!Navigate
<1>2. Flags'
  BY DEF Flags, A!handleJoinTenant, A!Answered, A!Navigate
<1>3. Served'
  BY DEF Served, Known, Staged, A!Ask, A!handleJoinTenant, A!Answered, A!Navigate
<1>4. Staged'
  BY NoOpTyped, RoutedPage DEF Staged, Keys, SigningIn, Known, A!Op, A!handleJoinTenant, A!Answered, A!Navigate
<1>5. Keys'
  BY NoOpTyped DEF Staged, Keys, SigningIn, Known, A!Op, A!SignInAssumption, A!handleJoinTenant, A!Answered, A!Navigate
<1>6. Tenancy'
  BY DEF Tenancy, Keys, Staged, SigningIn, Known, Served, A!Ask, A!SignInAssumption, A!handleJoinTenant, A!Answered, A!Navigate
<1> QED BY <1>1, <1>2, <1>3, <1>4, <1>5, <1>6

LEMMA MemberStep ==
    ASSUME A!SignInAssumption, AInv, NEW a \in asks, A!alreadyMember(a)
    PROVE  AInv'
<1> USE DEF AInv
<1>1. Known'
  BY NoOpTyped, RoutedPage DEF Known, Served, A!Ask, A!Op, A!alreadyMember, A!Answered, A!Navigate
<1>2. Flags'
  BY DEF Flags, A!alreadyMember, A!Answered, A!Navigate
<1>3. Served'
  BY DEF Served, Known, Staged, A!Ask, A!alreadyMember, A!Answered, A!Navigate
<1>4. Staged'
  BY NoOpTyped, RoutedPage DEF Staged, Keys, SigningIn, Known, A!Op, A!alreadyMember, A!Answered, A!Navigate
<1>5. Keys'
  BY NoOpTyped DEF Staged, Keys, SigningIn, Known, A!Op, A!SignInAssumption, A!alreadyMember, A!Answered, A!Navigate
<1>6. Tenancy'
  BY DEF Tenancy, Keys, Staged, SigningIn, Known, Served, A!Ask, A!SignInAssumption, A!alreadyMember, A!Answered, A!Navigate
<1> QED BY <1>1, <1>2, <1>3, <1>4, <1>5, <1>6

LEMMA LostStep ==
    ASSUME A!SignInAssumption, AInv, NEW a \in asks, NEW t \in Tenants, A!lost(a, t)
    PROVE  AInv'
<1> USE DEF AInv
<1>1. Known'
  BY NoOpTyped, RoutedPage DEF Known, Served, A!Ask, A!Op, A!lost
<1>2. Flags'
  BY DEF Flags, A!lost
<1>3. Served'
  BY DEF Served, Known, Staged, A!Ask, A!lost
<1>4. Staged'
  BY NoOpTyped, RoutedPage DEF Staged, Keys, SigningIn, Known, A!Op, A!lost
<1>5. Keys'
  BY NoOpTyped DEF Staged, Keys, SigningIn, Known, A!Op, A!SignInAssumption, A!lost
<1>6. Tenancy'
  BY DEF Tenancy, Keys, Staged, SigningIn, Known, Served, A!Ask, A!SignInAssumption, A!lost
<1> QED BY <1>1, <1>2, <1>3, <1>4, <1>5, <1>6

LEMMA FailedStep ==
    ASSUME A!SignInAssumption, AInv, NEW a \in asks, A!failed(a)
    PROVE  AInv'
<1> USE DEF AInv
<1>1. Known'
  BY NoOpTyped, RoutedPage DEF Known, Served, A!Ask, A!Op, A!failed, A!Answered
<1>2. Flags'
  BY DEF Flags, A!failed, A!Answered
<1>3. Served'
  BY DEF Served, Known, Staged, A!Ask, A!failed, A!Answered
<1>4. Staged'
  BY NoOpTyped, RoutedPage DEF Staged, Keys, SigningIn, Known, A!Op, A!failed, A!Answered
<1>5. Keys'
  BY NoOpTyped DEF Staged, Keys, SigningIn, Known, A!Op, A!SignInAssumption, A!failed, A!Answered
<1>6. Tenancy'
  BY DEF Tenancy, Keys, Staged, SigningIn, Known, Served, A!Ask, A!SignInAssumption, A!failed, A!Answered
<1> QED BY <1>1, <1>2, <1>3, <1>4, <1>5, <1>6

-----------------------------------------------------------------------------
LEMMA SignInInductive ==
    ASSUME A!SignInAssumption PROVE A!Spec => []AInv
<1>1. A!Init => AInv
  BY SignInInit
<1>2. AInv /\ [A!Next]_A!vars => AInv'
  <2> SUFFICES ASSUME AInv, [A!Next]_A!vars PROVE AInv'
    OBVIOUS
  <2>1. CASE UNCHANGED A!vars
    BY <2>1 DEF A!vars, AInv, Known, Flags, Served, Staged, Keys, Tenancy
  <2>2. CASE A!Next
    BY <2>2, ReloadStep, RestoreStep, RegisterStep, RegisteredStep, LoginStep,
       AssertedStep, LoggedInStep, RefusedStep, LogoutStep, DemoStep, CheckStep, AskStep,
       CreateStep, ContinueStep, JoinStep, MemberStep, LostStep, FailedStep DEF A!Next
  <2> QED BY <2>1, <2>2
<1> QED BY <1>1, <1>2, PTL DEF A!Spec
-----------------------------------------------------------------------------
\* The browser's storage, the memory of the page and the calls under way keep
\* their types through every route, reload and late answer (useAuth.ts, App.tsx).
LEMMA SignInTyped ==
    ASSUME A!SignInAssumption PROVE A!Spec => []A!TypeOK
BY SignInInductive, SignInTypes, PTL

\* For any number of users of one browser: the token sent is that of the user
\* shown, the key offered for signing is his, and so are the key and the tenant
\* that are merely there, but for those left by others (useAuth.ts, crypto.ts).
LEMMA SignInOneIdentity ==
    ASSUME A!SignInAssumption PROVE A!Spec => []A!OneIdentity
<1>1. AInv => A!OneIdentity
  BY DEF AInv, Keys, Tenancy, A!OneIdentity
<1> QED BY <1>1, SignInInductive, PTL
-----------------------------------------------------------------------------
(* The sockets of the job updates.  What a step may not end with is         *)
(* listeners, no timer and no socket; a step that takes the last timer away *)
(* leaves a socket that is open or was just made.                           *)

SInv == S!TypeOK /\ S!Listening

LEMMA ConnectKeeps ==
    ASSUME S!JobSocketsAssumption, S!TypeOK, S!connectJobUpdates
    PROVE  /\ sock' \in [Sockets -> {"none", "connecting", "open", "closing"}]
           /\ ws' \in Sockets \cup {None}
           /\ \E n \in Sockets : sock'[n] # "none"
<1>1. CASE S!Connected /\ UNCHANGED <<sock, ws>>
  <2>1. ws \in Sockets /\ sock[ws] = "open"
    BY <1>1 DEF S!Connected, S!TypeOK
  <2> QED BY <1>1, <2>1 DEF S!TypeOK
<1>2. ASSUME NEW n \in Sockets, sock[n] = "none",
             sock' = [sock EXCEPT ![n] = "connecting"], ws' = n
      PROVE  /\ sock' \in [Sockets -> {"none", "connecting", "open", "closing"}]
             /\ ws' \in Sockets \cup {None}
             /\ \E i \in Sockets : sock'[i] # "none"
  <2>1. sock'[n] = "connecting"
    BY <1>2 DEF S!TypeOK
  <2> QED BY <1>2, <2>1 DEF S!TypeOK
<1> QED BY <1>1, <1>2 DEF S!connectJobUpdates

LEMMA SubscribeStep ==
    ASSUME S!JobSocketsAssumption, SInv, NEW s \in Subs, S!subscribeToJobUpdates(s)
    PROVE  SInv'
BY ConnectKeeps DEF SInv, S!TypeOK, S!Listening, S!subscribeToJobUpdates

LEMMA UnsubscribeStep ==
    ASSUME S!JobSocketsAssumption, SInv, NEW s \in Subs, S!unsubscribe(s)
    PROVE  SInv'
<1>1. CASE handlers' = {}
  <2>1. /\ timers' \subseteq Timers /\ reconnectTimeout' = None
        /\ ws' = None /\ handlers' \subseteq Subs
    BY <1>1 DEF SInv, S!TypeOK, S!unsubscribe, S!disconnectJobUpdates
  <2>2. sock' \in [Sockets -> {"none", "connecting", "open", "closing"}]
    BY <1>1 DEF SInv, S!TypeOK, S!unsubscribe, S!disconnectJobUpdates
  <2> QED BY <1>1, <2>1, <2>2 DEF SInv, S!TypeOK, S!Listening
<1>2. CASE handlers' # {}
  BY <1>2 DEF SInv, S!TypeOK, S!Listening, S!unsubscribe
<1> QED BY <1>1, <1>2

LEMMA OpenStep ==
    ASSUME S!JobSocketsAssumption, SInv, NEW n \in Sockets, S!onopen(n)
    PROVE  SInv'
<1>1. sock'[n] = "open" /\ sock' \in [Sockets -> {"none", "connecting", "open", "closing"}]
  BY DEF SInv, S!TypeOK, S!onopen
<1> QED BY <1>1 DEF SInv, S!TypeOK, S!Listening, S!onopen

\* Whoever listens is left with the timer just set.
LEMMA CloseStep ==
    ASSUME S!JobSocketsAssumption, SInv, NEW n \in Sockets, S!onclose(n)
    PROVE  SInv'
<1>1. sock' \in [Sockets -> {"none", "connecting", "open", "closing"}] /\ ws' = None
  BY DEF SInv, S!TypeOK, S!onclose, S!closed
<1>2. handlers' = handlers
  BY DEF S!onclose, S!closed
<1>3. /\ timers' \subseteq Timers
      /\ reconnectTimeout' \in Timers \cup {None}
      /\ handlers = {} \/ timers' # {}
  BY DEF SInv, S!TypeOK, S!onclose
<1> QED BY <1>1, <1>2, <1>3 DEF SInv, S!TypeOK, S!Listening

LEMMA ReconnectStep ==
    ASSUME S!JobSocketsAssumption, SInv, NEW t \in Timers, S!reconnect(t)
    PROVE  SInv'
BY ConnectKeeps DEF SInv, S!TypeOK, S!Listening, S!reconnect

LEMMA SocketsInductive ==
    ASSUME S!JobSocketsAssumption PROVE S!Spec => []SInv
<1>1. S!Init => SInv
  BY DEF S!Init, SInv, S!TypeOK, S!Listening
<1>2. SInv /\ [S!Next]_S!vars => SInv'
  <2> SUFFICES ASSUME SInv, [S!Next]_S!vars PROVE SInv'
    OBVIOUS
  <2>1. CASE UNCHANGED S!vars
    BY <2>1 DEF S!vars, SInv, S!TypeOK, S!Listening
  <2>2. CASE S!Next
    BY <2>2, SubscribeStep, UnsubscribeStep, OpenStep, CloseStep, ReconnectStep DEF S!Next
  <2> QED BY <2>1, <2>2
<1> QED BY <1>1, <1>2, PTL DEF S!Spec
-----------------------------------------------------------------------------
(* The drawer of a job.  It turns only while the last opening is not        *)
(* answered, and when that answer has come in order it was the last to come.*)

DrawerTypes == /\ jobId \in Opened \cup {None} /\ job \in Opened \cup {None}
               /\ asked \in Seq(Opened) /\ pending \subseteq 1..Len(asked)
DrawerFlags == /\ jloading \in BOOLEAN /\ error \in BOOLEAN /\ overtaken \in BOOLEAN

Turns     == jloading => Len(asked) \in pending
LastAsked == jobId # None => Len(asked) > 0 /\ jobId = asked[Len(asked)]
InTurn    == ~overtaken /\ Len(asked) \notin pending => pending = {}
Holds     == ~overtaken /\ jobId # None /\ Len(asked) \notin pending => error \/ job = jobId

JInv == DrawerTypes /\ DrawerFlags /\ Turns /\ LastAsked /\ InTurn /\ Holds

LEMMA DrawerShows == JInv => J!TypeOK /\ J!ShowsTheOpened
<1>1. JInv => J!TypeOK
  BY DEF JInv, DrawerTypes, DrawerFlags, J!TypeOK
<1>2. JInv => J!ShowsTheOpened
  BY DEF JInv, Turns, Holds, J!ShowsTheOpened, J!Shown
<1> QED BY <1>1, <1>2

LEMMA LoadStep ==
    ASSUME JInv, NEW j \in Opened, J!loadJob(j) PROVE JInv'
<1>0. /\ asked \in Seq(Opened) /\ pending \subseteq 1..Len(asked) /\ Len(asked) \in Nat
      /\ asked' = Append(asked, j) /\ pending' = pending \cup {Len(asked) + 1}
  BY DEF JInv, DrawerTypes, J!loadJob
<1>1. /\ asked' \in Seq(Opened) /\ Len(asked') = Len(asked) + 1
      /\ asked'[Len(asked) + 1] = j
  BY <1>0
<1>2. DrawerTypes'
  <2>0. ASSUME NEW n \in Nat, pending \subseteq 1..n
        PROVE  pending \cup {n + 1} \subseteq 1..(n + 1)
    BY <2>0
  <2>1. pending' \subseteq 1..Len(asked')
    BY <1>0, <1>1, <2>0
  <2>2. jobId' = j /\ job' = job
    BY DEF J!loadJob
  <2> QED BY <1>1, <2>1, <2>2 DEF JInv, DrawerTypes
<1>3. DrawerFlags'
  BY DEF JInv, DrawerFlags, J!loadJob
<1>4. Len(asked') \in pending'
  BY <1>0, <1>1
<1>5. LastAsked'
  BY <1>0, <1>1 DEF LastAsked, J!loadJob
<1> QED BY <1>2, <1>3, <1>4, <1>5 DEF JInv, Turns, InTurn, Holds

LEMMA DrawerCloses ==
    ASSUME JInv, J!onClose PROVE JInv'
BY DEF JInv, DrawerTypes, DrawerFlags, Turns, LastAsked, InTurn, Holds, J!onClose

\* An answer, or an error instead.
LEMMA SettleStep ==
    ASSUME JInv, NEW i \in pending, J!setJob(i) \/ J!setError(i) PROVE JInv'
<1>0. /\ asked \in Seq(Opened) /\ pending \subseteq 1..Len(asked) /\ Len(asked) \in Nat
      /\ i \in 1..Len(asked) /\ asked[i] \in Opened
      /\ asked' = asked /\ pending' = pending \ {i} /\ jobId' = jobId /\ jloading' = FALSE
  BY DEF JInv, DrawerTypes, J!setJob, J!setError, J!settle
<1>1. overtaken' = (overtaken \/ \E n \in pending : n < i)
  BY DEF J!setJob, J!setError, J!settle
<1>2. \/ job' = asked[i] /\ error' = error
      \/ job' = job /\ error' = TRUE
  BY DEF J!setJob, J!setError, J!settle, J!getJob
<1>3. DrawerTypes'
  BY <1>0, <1>2 DEF JInv, DrawerTypes
<1>4. DrawerFlags'
  BY <1>0, <1>1, <1>2 DEF JInv, DrawerFlags
<1>5. Turns' /\ LastAsked'
  BY <1>0 DEF JInv, Turns, LastAsked
<1>6. ~overtaken' => ~overtaken /\ \A n \in pending : n >= i
  <2>1. ~overtaken' => ~overtaken /\ \A n \in pending : ~(n < i)
    BY <1>1
  <2>2. \A n \in pending : ~(n < i) => n >= i
    BY <1>0
  <2> QED BY <2>1, <2>2
<1>7. ~overtaken' /\ Len(asked) \notin pending' => i = Len(asked) /\ pending' = {}
  <2> SUFFICES ASSUME ~overtaken', Len(asked) \notin pending'
               PROVE  i = Len(asked) /\ pending' = {}
    OBVIOUS
  <2>0. ~overtaken /\ \A n \in pending : n >= i
    BY <1>6
  <2>1. i = Len(asked)
    <3> SUFFICES ASSUME i # Len(asked) PROVE FALSE
      OBVIOUS
    <3>1. Len(asked) \notin pending
      BY <1>0
    <3> QED BY <2>0, <3>1 DEF JInv, InTurn
  <2>2. \A n \in pending : n = i
    BY <1>0, <2>0, <2>1
  <2> QED BY <1>0, <2>1, <2>2
<1>8. InTurn'
  BY <1>0, <1>7 DEF InTurn
<1>9. Holds'
  BY <1>0, <1>2, <1>7 DEF JInv, Holds, LastAsked
<1> QED BY <1>3, <1>4, <1>5, <1>8, <1>9 DEF JInv

LEMMA DrawerInductive == J!Spec => []JInv
<1>1. J!Init => JInv
  <2> SUFFICES ASSUME J!Init PROVE JInv
    OBVIOUS
  <2>1. DrawerTypes
    BY DEF J!Init, DrawerTypes
  <2>2. DrawerFlags
    BY DEF J!Init, DrawerFlags
  <2>3. Turns /\ LastAsked /\ InTurn /\ Holds
    BY DEF J!Init, Turns, LastAsked, InTurn, Holds
  <2> QED BY <2>1, <2>2, <2>3 DEF JInv
<1>2. JInv /\ [J!Next]_J!vars => JInv'
  <2> SUFFICES ASSUME JInv, [J!Next]_J!vars PROVE JInv'
    OBVIOUS
  <2>1. CASE UNCHANGED J!vars
    BY <2>1 DEF J!vars, JInv, DrawerTypes, DrawerFlags, Turns, LastAsked, InTurn, Holds
  <2>2. CASE J!Next
    BY <2>2, LoadStep, DrawerCloses, SettleStep DEF J!Next
  <2> QED BY <2>1, <2>2
<1> QED BY <1>1, <1>2, PTL DEF J!Spec
-----------------------------------------------------------------------------
(* Optimistic updates.  The copies are of updates under way, each has one,  *)
(* and while nothing overlapped every update under way has one (Copied),    *)
(* the first was made on the confirmed list (FirstCopy), the list shown has *)
(* the last word said on each item (LastWords), and the server's list is    *)
(* the confirmed one but for what it carried out for an update under way.   *)

UnderWay(o) == opt[o].pc \in {"calling", "stored"}

Copies == /\ \A i \in DOMAIN pendingUpdates : UnderWay(pendingUpdates[i].id)
          /\ \A i, n \in DOMAIN pendingUpdates :
               pendingUpdates[i].id = pendingUpdates[n].id => i = n
Copied == \A o \in Ops : UnderWay(o) => \E i \in DOMAIN pendingUpdates : pendingUpdates[i].id = o
SaidLast(i) == \A n \in DOMAIN pendingUpdates :
                 n > i => opt[pendingUpdates[n].id].item # opt[pendingUpdates[i].id].item
LastWords   == \A i \in DOMAIN pendingUpdates :
                 SaidLast(i) => (opt[pendingUpdates[i].id].item \in O!data
                                   <=> opt[pendingUpdates[i].id].add)
FirstCopy   == pendingUpdates # << >> =>
                 pendingUpdates[1].optimisticData = O!Change(confirmed, opt[pendingUpdates[1].id])
InSync      == (\A o \in Ops : opt[o].pc # "stored") => stored = confirmed
StoredAlone == \A o \in Ops : opt[o].pc = "stored" /\ O!Alone(o)
                                => stored = O!Change(confirmed, opt[o])
Apart       == Copied /\ LastWords /\ FirstCopy /\ InSync /\ StoredAlone

OInv == O!TypeOK /\ Copies /\ (~overlap => Apart)

LEMMA Removed ==
    ASSUME NEW T, NEW s \in Seq(T), NEW i \in 1..Len(s)
    PROVE  /\ O!RemoveAt(s, i) \in Seq(T)
           /\ Len(O!RemoveAt(s, i)) = Len(s) - 1
           /\ \A n \in 1..(Len(s) - 1) :
                O!RemoveAt(s, i)[n] = IF n < i THEN s[n] ELSE s[n + 1]
<1>1. PICK a : a = SubSeq(s, 1, i - 1)
  OBVIOUS
<1>2. PICK b : b = SubSeq(s, i + 1, Len(s))
  OBVIOUS
<1>3. /\ a \in Seq(T) /\ Len(a) = i - 1
      /\ \A n \in 1..(i - 1) : a[n] = s[n]
  BY <1>1
<1>4. /\ b \in Seq(T) /\ Len(b) = Len(s) - i
      /\ \A n \in 1..(Len(s) - i) : b[n] = s[n + i]
  BY <1>2
<1>5. /\ a \o b \in Seq(T) /\ Len(a \o b) = Len(s) - 1
      /\ \A n \in 1..(Len(s) - 1) :
           (a \o b)[n] = IF n < i THEN a[n] ELSE b[n - i + 1]
  <2>1. a \o b \in Seq(T) /\ Len(a \o b) = Len(a) + Len(b)
    BY <1>3, <1>4, ConcatProperties
  <2>2. \A n \in 1..(Len(a) + Len(b)) :
          (a \o b)[n] = IF n <= Len(a) THEN a[n] ELSE b[n - Len(a)]
    BY <1>3, <1>4
  <2>3. \A n \in 1..(Len(s) - 1) : /\ n <= i - 1 <=> n < i
                                   /\ n - (i - 1) = n - i + 1
    OBVIOUS
  <2>4. Len(a) + Len(b) = Len(s) - 1
    BY <1>3, <1>4
  <2> QED BY <1>3, <2>1, <2>2, <2>3, <2>4
<1>6. \A n \in 1..(Len(s) - 1) : n >= i => b[n - i + 1] = s[n + 1]
  BY <1>4
<1>7. O!RemoveAt(s, i) = a \o b
  BY <1>1, <1>2 DEF O!RemoveAt
<1> QED BY <1>3, <1>5, <1>6, <1>7

\* A list without the copy of one update: the rest, each once.
LEMMA WithoutIs ==
    ASSUME OInv, NEW o \in Ops
    PROVE  /\ O!Without(o) \in Seq(O!Update)
           /\ \A i \in DOMAIN O!Without(o) :
                \E n \in DOMAIN pendingUpdates :
                  O!Without(o)[i] = pendingUpdates[n] /\ pendingUpdates[n].id # o
           /\ \A i, n \in DOMAIN O!Without(o) :
                O!Without(o)[i].id = O!Without(o)[n].id => i = n
<1>0. pendingUpdates \in Seq(O!Update)
  BY DEF OInv, O!TypeOK
<1>1. CASE O!Pending(o) = {}
  <2>1. O!Without(o) = pendingUpdates
    BY <1>1 DEF O!Without
  <2>2. \A n \in DOMAIN pendingUpdates : pendingUpdates[n].id # o
    BY <1>1 DEF O!Pending
  <2> QED BY <1>0, <2>1, <2>2 DEF OInv, Copies
<1>2. CASE O!Pending(o) # {}
  <2>1. PICK i : i = CHOOSE n \in O!Pending(o) : TRUE
    OBVIOUS
  <2>2. i \in 1..Len(pendingUpdates) /\ pendingUpdates[i].id = o
    BY <1>0, <1>2, <2>1 DEF O!Pending
  <2>3. PICK rest : rest = O!RemoveAt(pendingUpdates, i)
    OBVIOUS
  <2>4. O!Without(o) = rest
    BY <1>2, <2>1, <2>3 DEF O!Without
  <2>5. /\ rest \in Seq(O!Update) /\ Len(rest) = Len(pendingUpdates) - 1
        /\ \A n \in 1..(Len(pendingUpdates) - 1) :
             rest[n] = IF n < i THEN pendingUpdates[n] ELSE pendingUpdates[n + 1]
    BY <1>0, <2>2, <2>3, Removed
  <2>6. ASSUME NEW n \in DOMAIN rest
        PROVE  \E m \in DOMAIN pendingUpdates :
                 /\ rest[n] = pendingUpdates[m] /\ m # i
                 /\ m = IF n < i THEN n ELSE n + 1
    BY <1>0, <2>2, <2>5, <2>6
  <2>7. \A n \in DOMAIN rest : \E m \in DOMAIN pendingUpdates :
            rest[n] = pendingUpdates[m] /\ pendingUpdates[m].id # o
    BY <2>2, <2>6, <1>0 DEF OInv, Copies
  <2>8. ASSUME NEW n \in DOMAIN rest, NEW m \in DOMAIN rest, rest[n].id = rest[m].id
        PROVE  n = m
    <3>1. PICK a \in DOMAIN pendingUpdates :
             rest[n] = pendingUpdates[a] /\ a = IF n < i THEN n ELSE n + 1
      BY <2>6
    <3>2. PICK b \in DOMAIN pendingUpdates :
             rest[m] = pendingUpdates[b] /\ b = IF m < i THEN m ELSE m + 1
      BY <2>6
    <3>3. a = b
      BY <2>8, <3>1, <3>2 DEF OInv, Copies
    <3>4. n \in Nat /\ m \in Nat /\ i \in Nat
      BY <2>2, <2>5
    <3> QED BY <3>1, <3>2, <3>3, <3>4
  <2> QED BY <2>4, <2>5, <2>7, <2>8
<1> QED BY <1>1, <1>2

\* Alone, and nothing overlapped: the one copy is its own.
LEMMA AloneOnly ==
    ASSUME OInv, ~overlap, NEW o \in Ops, UnderWay(o), O!Alone(o)
    PROVE  /\ Len(pendingUpdates) = 1 /\ pendingUpdates[1].id = o
           /\ O!Pending(o) = {1} /\ O!Without(o) = << >>
<1>0. pendingUpdates \in Seq(O!Update)
  BY DEF OInv, O!TypeOK
<1>1. \A i \in DOMAIN pendingUpdates : pendingUpdates[i].id = o
  <2> SUFFICES ASSUME NEW i \in DOMAIN pendingUpdates, pendingUpdates[i].id # o PROVE FALSE
    OBVIOUS
  <2>1. pendingUpdates[i] \in O!Update
    BY <1>0
  <2>2. pendingUpdates[i].id \in Ops
    BY <2>1 DEF O!Update
  <2> QED BY <2>2 DEF OInv, Copies, UnderWay, O!Alone
<1>2. PICK i \in DOMAIN pendingUpdates : pendingUpdates[i].id = o
  BY DEF OInv, Apart, Copied
<1>3. \A n \in DOMAIN pendingUpdates : n = i
  BY <1>1, <1>2 DEF OInv, Copies
<1>4. 1 \in DOMAIN pendingUpdates /\ Len(pendingUpdates) \in DOMAIN pendingUpdates
  BY <1>0, <1>2
<1>5. Len(pendingUpdates) = 1 /\ pendingUpdates[1].id = o
  BY <1>1, <1>3, <1>4
<1>6. O!Pending(o) = {1}
  BY <1>0, <1>1, <1>5 DEF O!Pending
<1>7. O!Without(o) = << >>
  <2>1. O!Without(o) \in Seq(O!Update)
    BY WithoutIs
  <2>2. DOMAIN O!Without(o) = {}
    BY <1>1, WithoutIs
  <2> QED BY <2>1, <2>2
<1> QED BY <1>5, <1>6, <1>7

LEMMA OptimisticTypes ==
    ASSUME O!TypeOK PROVE \A o \in Ops : opt[o] \in O!Op
BY DEF O!TypeOK

\* A new update: its copy is what is shown, changed once more.
LEMMA ApplyStep ==
    ASSUME OInv, NEW o \in Ops, NEW i \in Items, NEW add \in BOOLEAN,
           O!applyOptimistic(o, add, i)
    PROVE  OInv'
<1>0. /\ pendingUpdates \in Seq(O!Update) /\ Len(pendingUpdates) \in Nat
      /\ confirmed \subseteq Items /\ stored \subseteq Items /\ opt \in [Ops -> O!Op]
      /\ confirmed' = confirmed /\ stored' = stored /\ overlap' = overlap
      /\ opt[o].pc = "unused"
  BY DEF OInv, O!TypeOK, O!applyOptimistic
<1>1. PICK m : m = [pc |-> "calling", add |-> add, item |-> i]
  OBVIOUS
<1>2. m \in O!Op /\ m.pc = "calling" /\ m.item = i /\ m.add = add
  BY <1>1 DEF O!Op
<1>3. opt' = [opt EXCEPT ![o] = m]
  BY <1>1 DEF O!applyOptimistic
<1>4. /\ opt' \in [Ops -> O!Op] /\ opt'[o] = m
      /\ \A p \in Ops : p # o => opt'[p] = opt[p]
  BY <1>0, <1>2, <1>3
<1>5. PICK u : u = [id |-> o, optimisticData |-> O!Change(O!data, m)]
  OBVIOUS
<1>6. pendingUpdates' = Append(pendingUpdates, u)
  BY <1>4, <1>5 DEF O!applyOptimistic
<1>7. O!data \subseteq Items
  <2>1. CASE pendingUpdates = << >>
    BY <1>0, <2>1 DEF O!data
  <2>2. CASE pendingUpdates # << >>
    <3>1. pendingUpdates[Len(pendingUpdates)] \in O!Update
      BY <1>0, <2>2
    <3> QED BY <2>2, <3>1 DEF O!data, O!Last, O!Update
  <2> QED BY <2>1, <2>2
<1>8. u \in O!Update /\ u.id = o /\ u.optimisticData = O!Change(O!data, m)
  BY <1>2, <1>5, <1>7 DEF O!Update, O!Change
<1>9. /\ pendingUpdates' \in Seq(O!Update) /\ Len(pendingUpdates') = Len(pendingUpdates) + 1
      /\ pendingUpdates'[Len(pendingUpdates) + 1] = u
      /\ \A n \in 1..Len(pendingUpdates) : pendingUpdates'[n] = pendingUpdates[n]
  BY <1>0, <1>6, <1>8
<1>10. /\ DOMAIN pendingUpdates = 1..Len(pendingUpdates)
       /\ DOMAIN pendingUpdates' = DOMAIN pendingUpdates \cup {Len(pendingUpdates) + 1}
       /\ \A n \in DOMAIN pendingUpdates : pendingUpdates[n].id \in Ops
       /\ Len(pendingUpdates) + 1 \notin DOMAIN pendingUpdates
  <2>1. \A n \in DOMAIN pendingUpdates : pendingUpdates[n] \in O!Update
    BY <1>0
  <2>2. DOMAIN pendingUpdates = 1..Len(pendingUpdates)
    BY <1>0
  <2>3. DOMAIN pendingUpdates' = 1..(Len(pendingUpdates) + 1)
    BY <1>0, <1>9
  <2> QED BY <1>0, <2>1, <2>2, <2>3 DEF O!Update
<1>11. \A n \in DOMAIN pendingUpdates : /\ pendingUpdates[n].id # o
                                        /\ UnderWay(pendingUpdates[n].id)
                                        /\ opt'[pendingUpdates[n].id] = opt[pendingUpdates[n].id]
  BY <1>0, <1>4, <1>10 DEF OInv, Copies, UnderWay
<1>12. O!TypeOK'
  BY <1>0, <1>4, <1>9 DEF OInv, O!TypeOK
<1>13. Copies'
  <2>1. \A n \in DOMAIN pendingUpdates' : opt'[pendingUpdates'[n].id].pc \in {"calling", "stored"}
    BY <1>2, <1>4, <1>8, <1>9, <1>10, <1>11 DEF UnderWay
  <2>2. \A n, k \in DOMAIN pendingUpdates' :
          pendingUpdates'[n].id = pendingUpdates'[k].id => n = k
    BY <1>8, <1>9, <1>10, <1>11 DEF OInv, Copies
  <2> QED BY <2>1, <2>2 DEF Copies, UnderWay
<1>14. ASSUME ~overlap PROVE Apart'
  <2>1. Apart
    BY <1>14 DEF OInv
  <2>2. Copied'
    BY <1>4, <1>8, <1>9, <1>10, <2>1 DEF Apart, Copied, UnderWay
  <2>3. O!data' = O!Change(O!data, m)
    <3>1. pendingUpdates' # << >> /\ O!Last(pendingUpdates') = u
      BY <1>0, <1>9 DEF O!Last
    <3> QED BY <1>8, <3>1 DEF O!data
  <2>4. ASSUME NEW n \in DOMAIN pendingUpdates', SaidLast(n)'
        PROVE  opt'[pendingUpdates'[n].id].item \in O!data' <=> opt'[pendingUpdates'[n].id].add
    <3>1. CASE n = Len(pendingUpdates) + 1
      <4>1. opt'[pendingUpdates'[n].id] = m
        BY <1>4, <1>8, <1>9, <3>1
      <4>2. i \in O!Change(O!data, m) <=> add
        BY <1>2 DEF O!Change
      <4> QED BY <1>2, <2>3, <4>1, <4>2
    <3>2. CASE n \in DOMAIN pendingUpdates
      <4>1. pendingUpdates'[n] = pendingUpdates[n]
        BY <1>9, <1>10, <3>2
      <4>2. SaidLast(n)
        BY <1>9, <1>10, <1>11, <2>4, <3>2, <4>1 DEF SaidLast
      <4>3. opt[pendingUpdates[n].id].item \in O!data <=> opt[pendingUpdates[n].id].add
        BY <2>1, <3>2, <4>2 DEF Apart, LastWords
      <4>4. n < Len(pendingUpdates) + 1
        BY <1>0, <1>10, <3>2
      <4>5. i # opt[pendingUpdates[n].id].item
        BY <1>2, <1>4, <1>8, <1>9, <1>10, <1>11, <2>4, <3>2, <4>1, <4>4 DEF SaidLast
      <4>6. opt[pendingUpdates[n].id].item \in O!data' <=> opt[pendingUpdates[n].id].item \in O!data
        BY <1>2, <2>3, <4>5 DEF O!Change
      <4> QED BY <1>11, <3>2, <4>1, <4>3, <4>6
    <3> QED BY <1>10, <3>1, <3>2
  <2>5. LastWords'
    BY <2>4 DEF LastWords
  <2>6. FirstCopy'
    <3>1. CASE pendingUpdates = << >>
      <4>1. O!data = confirmed /\ Len(pendingUpdates) = 0
        BY <3>1 DEF O!data
      <4> QED BY <1>0, <1>4, <1>8, <1>9, <4>1 DEF FirstCopy
    <3>2. CASE pendingUpdates # << >>
      <4>1. 1 \in DOMAIN pendingUpdates
        BY <1>0, <3>2
      <4> QED BY <1>0, <1>9, <1>10, <1>11, <2>1, <3>2, <4>1 DEF Apart, FirstCopy
    <3> QED BY <3>1, <3>2
  <2>7. InSync'
    BY <1>0, <1>2, <1>4, <2>1 DEF Apart, InSync
  <2>8. StoredAlone'
    <3> SUFFICES ASSUME NEW p \in Ops, opt'[p].pc = "stored", O!Alone(p)'
                 PROVE  stored = O!Change(confirmed, opt'[p])
      BY <1>0 DEF StoredAlone
    <3>1. p # o
      BY <1>2, <1>4
    <3>2. opt'[o].pc \in {"unused", "settled"}
      BY <3>1 DEF O!Alone
    <3> QED BY <1>2, <1>4, <3>2
  <2> QED BY <2>2, <2>5, <2>6, <2>7, <2>8 DEF Apart
<1> QED BY <1>0, <1>12, <1>13, <1>14 DEF OInv

LEMMA StoreStep ==
    ASSUME OInv, NEW o \in Ops, O!store(o) PROVE OInv'
<1>0. /\ confirmed \subseteq Items /\ stored \subseteq Items /\ opt \in [Ops -> O!Op]
      /\ confirmed' = confirmed /\ pendingUpdates' = pendingUpdates /\ overlap' = overlap
      /\ opt[o].pc = "calling" /\ stored' = O!Change(stored, opt[o])
      /\ opt' = [opt EXCEPT ![o].pc = "stored"]
      /\ pendingUpdates \in Seq(O!Update)
  BY DEF OInv, O!TypeOK, O!store
<1>1. /\ opt' \in [Ops -> O!Op] /\ opt'[o].pc = "stored"
      /\ opt'[o].item = opt[o].item /\ opt'[o].add = opt[o].add
      /\ \A p \in Ops : p # o => opt'[p] = opt[p]
  BY <1>0 DEF O!Op
<1>2. stored' \subseteq Items
  BY <1>0 DEF O!Change, O!Op
<1>3. O!TypeOK'
  BY <1>0, <1>1, <1>2 DEF OInv, O!TypeOK
<1>4. \A p \in Ops : /\ opt'[p].pc \in {"calling", "stored"} <=> opt[p].pc \in {"calling", "stored"}
                     /\ opt'[p].item = opt[p].item /\ opt'[p].add = opt[p].add
  BY <1>0, <1>1
<1>5. \A n \in DOMAIN pendingUpdates : pendingUpdates[n].id \in Ops
  <2>1. \A n \in DOMAIN pendingUpdates : pendingUpdates[n] \in O!Update
    BY <1>0
  <2> QED BY <2>1 DEF O!Update
<1>6. Copies'
  BY <1>0, <1>4, <1>5 DEF OInv, Copies, UnderWay
<1>7. ASSUME ~overlap PROVE Apart'
  <2>1. Apart
    BY <1>7 DEF OInv
  <2>2. Copied'
    BY <1>0, <1>4, <2>1 DEF Apart, Copied, UnderWay
  <2>3. O!data' = O!data
    BY <1>0 DEF O!data
  <2>4. \A n \in DOMAIN pendingUpdates : SaidLast(n)' <=> SaidLast(n)
    BY <1>0, <1>4, <1>5 DEF SaidLast
  <2>5. LastWords'
    BY <1>0, <1>4, <1>5, <2>1, <2>3, <2>4 DEF Apart, LastWords
  <2>6. FirstCopy'
    <3> SUFFICES ASSUME pendingUpdates # << >>
                 PROVE  pendingUpdates[1].optimisticData
                          = O!Change(confirmed, opt'[pendingUpdates[1].id])
      BY <1>0 DEF FirstCopy
    <3>1. pendingUpdates[1].id \in Ops
      BY <1>0, <1>5
    <3>2. O!Change(confirmed, opt'[pendingUpdates[1].id])
            = O!Change(confirmed, opt[pendingUpdates[1].id])
      BY <1>4, <3>1 DEF O!Change
    <3> QED BY <2>1, <3>2 DEF Apart, FirstCopy
  <2>7. InSync'
    BY <1>1 DEF InSync
  <2>8. StoredAlone'
    <3> SUFFICES ASSUME NEW p \in Ops, opt'[p].pc = "stored", O!Alone(p)'
                 PROVE  stored' = O!Change(confirmed, opt'[p])
      BY <1>0 DEF StoredAlone
    <3>1. p = o
      BY <1>1 DEF O!Alone
    <3>2. \A q \in Ops : opt[q].pc # "stored"
      BY <1>0, <1>1, <3>1 DEF O!Alone
    <3>3. stored = confirmed
      BY <2>1, <3>2 DEF Apart, InSync
    <3> QED BY <1>0, <1>1, <3>1, <3>3 DEF O!Change
  <2> QED BY <2>2, <2>5, <2>6, <2>7, <2>8 DEF Apart
<1> QED BY <1>0, <1>3, <1>6, <1>7 DEF OInv

\* Taking a copy out leaves the others as they were.
LEMMA WithoutKeeps ==
    ASSUME OInv, NEW o \in Ops, pendingUpdates' = O!Without(o),
           \A p \in Ops \ {o} : opt'[p] = opt[p]
    PROVE  Copies' /\ pendingUpdates' \in Seq(O!Update)
<1>1. /\ pendingUpdates' \in Seq(O!Update)
      /\ \A i \in DOMAIN pendingUpdates' :
                \E n \in DOMAIN pendingUpdates :
                  pendingUpdates'[i] = pendingUpdates[n] /\ pendingUpdates[n].id # o
      /\ \A i, n \in DOMAIN pendingUpdates' :
                pendingUpdates'[i].id = pendingUpdates'[n].id => i = n
  BY WithoutIs
<1>2. \A n \in DOMAIN pendingUpdates : pendingUpdates[n].id \in Ops
  <2>1. \A n \in DOMAIN pendingUpdates : pendingUpdates[n] \in O!Update
    BY DEF OInv, O!TypeOK
  <2> QED BY <2>1 DEF O!Update
<1> QED BY <1>1, <1>2 DEF OInv, Copies, UnderWay

LEMMA Settled ==
    ASSUME O!TypeOK, NEW o \in Ops, O!Settle(o)
    PROVE  /\ opt' \in [Ops -> O!Op] /\ opt'[o].pc = "settled"
           /\ \A p \in Ops \ {o} : opt'[p] = opt[p]
BY DEF O!TypeOK, O!Settle, O!Op

\* Nothing is under way any more.
LEMMA AllSettled ==
    ASSUME NEW o \in Ops, O!Alone(o), opt'[o].pc = "settled",
           \A p \in Ops \ {o} : opt'[p] = opt[p],
           pendingUpdates' = << >>, stored' = confirmed'
    PROVE  Apart'
<1>1. \A p \in Ops : opt'[p].pc \in {"unused", "settled"}
  BY DEF O!Alone
<1> QED BY <1>1 DEF Apart, Copied, UnderWay, LastWords, FirstCopy, InSync, StoredAlone

LEMMA ConfirmStep ==
    ASSUME OInv, NEW o \in Ops, O!confirmUpdate(o) PROVE OInv'
<1>0. /\ O!TypeOK /\ opt[o].pc = "stored" /\ O!Settle(o)
      /\ pendingUpdates' = O!Without(o) /\ stored' = stored
  BY DEF OInv, O!confirmUpdate
<1>1. /\ opt' \in [Ops -> O!Op] /\ opt'[o].pc = "settled"
      /\ \A p \in Ops \ {o} : opt'[p] = opt[p]
  BY <1>0, Settled
<1>2. Copies' /\ pendingUpdates' \in Seq(O!Update)
  BY <1>0, <1>1, WithoutKeeps
<1>3. confirmed' \subseteq Items
  <2>1. \A n \in DOMAIN pendingUpdates : pendingUpdates[n] \in O!Update
    BY <1>0 DEF O!TypeOK
  <2>2. confirmed' = confirmed \/ \E n \in DOMAIN pendingUpdates :
                                     confirmed' = pendingUpdates[n].optimisticData
    BY DEF O!confirmUpdate, O!Pending
  <2> QED BY <1>0, <2>1, <2>2 DEF O!TypeOK, O!Update
<1>4. overlap' = (overlap \/ ~O!Alone(o))
  BY DEF O!confirmUpdate
<1>5. overlap' \in BOOLEAN
  BY <1>4
<1>6. O!TypeOK'
  BY <1>0, <1>1, <1>2, <1>3, <1>5 DEF O!TypeOK
<1>7. ASSUME ~overlap' PROVE Apart'
  <2>1. ~overlap /\ O!Alone(o)
    BY <1>4, <1>7
  <2>2. Apart /\ UnderWay(o)
    BY <1>0, <2>1 DEF OInv, UnderWay
  <2>3. /\ pendingUpdates[1].id = o /\ Len(pendingUpdates) = 1
        /\ O!Pending(o) = {1} /\ O!Without(o) = << >>
    BY <2>1, <2>2, AloneOnly
  <2>4. confirmed' = pendingUpdates[1].optimisticData
    BY <2>3 DEF O!confirmUpdate
  <2>5. pendingUpdates # << >>
    BY <2>3
  <2>6. confirmed' = O!Change(confirmed, opt[o])
    BY <2>2, <2>3, <2>4, <2>5 DEF Apart, FirstCopy
  <2>7. stored = O!Change(confirmed, opt[o])
    BY <1>0, <2>1, <2>2 DEF Apart, StoredAlone
  <2> QED BY <1>0, <1>1, <2>1, <2>3, <2>6, <2>7, AllSettled
<1> QED BY <1>2, <1>6, <1>7 DEF OInv

LEMMA RevertStep ==
    ASSUME OInv, NEW o \in Ops, O!revertUpdate(o) PROVE OInv'
<1>0. /\ O!TypeOK /\ opt[o].pc \in {"calling", "stored"} /\ O!Settle(o)
      /\ pendingUpdates' = O!Without(o) /\ stored' = stored /\ confirmed' = confirmed
  BY DEF OInv, O!revertUpdate
<1>1. /\ opt' \in [Ops -> O!Op] /\ opt'[o].pc = "settled"
      /\ \A p \in Ops \ {o} : opt'[p] = opt[p]
  BY <1>0, Settled
<1>2. Copies' /\ pendingUpdates' \in Seq(O!Update)
  BY <1>0, <1>1, WithoutKeeps
<1>4. overlap' = (overlap \/ opt[o].pc = "stored" \/ ~O!Alone(o))
  BY DEF O!revertUpdate
<1>5. overlap' \in BOOLEAN
  BY <1>4
<1>6. O!TypeOK'
  BY <1>0, <1>1, <1>2, <1>5 DEF O!TypeOK
<1>7. ASSUME ~overlap' PROVE Apart'
  <2>1. ~overlap /\ opt[o].pc # "stored" /\ O!Alone(o)
    BY <1>4, <1>7
  <2>2. Apart /\ UnderWay(o)
    BY <1>0, <2>1 DEF OInv, UnderWay
  <2>3. O!Without(o) = << >>
    BY <2>1, <2>2, AloneOnly
  <2>4. stored = confirmed
    BY <2>1, <2>2 DEF Apart, InSync, O!Alone
  <2> QED BY <1>0, <1>1, <2>1, <2>3, <2>4, AllSettled
<1> QED BY <1>2, <1>6, <1>7 DEF OInv

LEMMA TimeoutStep ==
    ASSUME OInv, NEW o \in Ops, O!timeout(o) PROVE OInv'
<1>1. /\ pendingUpdates' = O!Without(o) /\ opt' = opt /\ overlap' = TRUE
      /\ confirmed' = confirmed /\ stored' = stored
  BY DEF O!timeout
<1>2. Copies' /\ pendingUpdates' \in Seq(O!Update)
  BY <1>1, WithoutKeeps
<1> QED BY <1>1, <1>2 DEF OInv, O!TypeOK

\* The last word on an item is that of the copy after which no other names it.
LEMMA OptimisticShows == OInv => O!ShowsWhatIsAsked
<1> SUFFICES ASSUME OInv, ~overlap PROVE O!ShowsWhatIsAsked
  BY DEF O!ShowsWhatIsAsked
<1>0. Apart /\ pendingUpdates \in Seq(O!Update)
  BY DEF OInv, O!TypeOK
<1>1. ASSUME NEW o \in Ops, O!Pending(o) # {}
      PROVE  \/ opt[o].item \in O!data <=> opt[o].add
             \/ \E p \in Ops \ {o} : O!Pending(p) # {} /\ opt[p].item = opt[o].item
  <2>1. PICK i \in DOMAIN pendingUpdates : pendingUpdates[i].id = o
    BY <1>1 DEF O!Pending
  <2>2. CASE SaidLast(i)
    BY <1>0, <2>1, <2>2 DEF Apart, LastWords
  <2>3. CASE ~SaidLast(i)
    <3>1. PICK n \in DOMAIN pendingUpdates :
             n > i /\ opt[pendingUpdates[n].id].item = opt[o].item
      BY <2>1, <2>3 DEF SaidLast
    <3>2. pendingUpdates[n].id # o
      BY <1>0, <2>1, <3>1 DEF OInv, Copies
    <3>3. pendingUpdates[n] \in O!Update
      BY <1>0
    <3>4. pendingUpdates[n].id \in Ops
      BY <3>3 DEF O!Update
    <3> QED BY <3>1, <3>2, <3>4 DEF O!Pending
  <2> QED BY <2>2, <2>3
<1>2. ASSUME \A o \in Ops : opt[o].pc \in {"unused", "settled"} PROVE O!data = stored
  <2>1. \A i \in DOMAIN pendingUpdates : pendingUpdates[i] \in O!Update
    BY <1>0
  <2>2. DOMAIN pendingUpdates = {}
    BY <1>2, <2>1 DEF OInv, Copies, UnderWay, O!Update
  <2>3. pendingUpdates = << >>
    BY <1>0, <2>2
  <2>4. stored = confirmed
    BY <1>0, <1>2 DEF Apart, InSync
  <2> QED BY <2>3, <2>4 DEF O!data
<1> QED BY <1>1, <1>2 DEF O!ShowsWhatIsAsked

LEMMA OptimisticInductive == O!Spec => []OInv
<1>1. O!Init => OInv
  <2> SUFFICES ASSUME O!Init PROVE OInv
    OBVIOUS
  <2>1. PICK i \in Items : opt = [o \in Ops |-> [pc |-> "unused", add |-> TRUE, item |-> i]]
    BY DEF O!Init
  <2>2. opt \in [Ops -> O!Op] /\ \A o \in Ops : opt[o].pc = "unused"
    BY <2>1 DEF O!Op
  <2>3. /\ confirmed \subseteq Items /\ stored = confirmed /\ pendingUpdates = << >>
        /\ overlap = FALSE
    BY DEF O!Init
  <2>4. O!TypeOK
    <3>1. pendingUpdates \in Seq(O!Update)
      BY <2>3
    <3>2. overlap \in BOOLEAN
      BY <2>3
    <3>3. stored \subseteq Items
      BY <2>3
    <3> QED BY <2>2, <2>3, <3>1, <3>2, <3>3 DEF O!TypeOK
  <2>5. Copies
    BY <2>3 DEF Copies
  <2>6. Apart
    BY <2>2, <2>3 DEF Apart, Copied, UnderWay, LastWords, FirstCopy, InSync, StoredAlone
  <2> QED BY <2>4, <2>5, <2>6 DEF OInv
<1>2. OInv /\ [O!Next]_O!vars => OInv'
  <2> SUFFICES ASSUME OInv, [O!Next]_O!vars PROVE OInv'
    OBVIOUS
  <2>1. CASE UNCHANGED O!vars
    BY <2>1 DEF O!vars, OInv, O!TypeOK, Copies, UnderWay, Apart, Copied, LastWords, SaidLast,
                FirstCopy, InSync, StoredAlone, O!Alone, O!data
  <2>2. CASE O!Next
    BY <2>2, ApplyStep, StoreStep, ConfirmStep, RevertStep, TimeoutStep DEF O!Next
  <2> QED BY <2>1, <2>2
<1> QED BY <1>1, <1>2, PTL DEF O!Spec
-----------------------------------------------------------------------------
(* The chat page.  Of each send there is one message that the stream did    *)
(* not add (OneEach); and while no other send has its millisecond the       *)
(* message has the status of the send, and the id that the answer, if one   *)
(* is to come, will look for (Told).                                        *)

Sent(s)  == send[s].pc # "unsent"
Lone(s)  == Sent(s) /\ \A t \in Sends \ {s} : Sent(t) => send[t].at # send[s].at
OneEach  == /\ \A i \in DOMAIN messages : ~messages[i].appended => Sent(messages[i].of)
            /\ \A s \in Sends : Sent(s) => \E i \in DOMAIN messages : C!Own(s) = {i}
IdOf(s)  == IF send[s].pc = "ok" /\ ~Demo THEN s ELSE send[s].at
Told     == \A s \in Sends : Lone(s) => \A i \in C!Own(s) :
              messages[i].id = IdOf(s) /\ messages[i].status = C!Status(send[s].pc)
NoneYet  == cloading => \A s \in Sends : ~Sent(s)

CInv == C!TypeOK /\ OneEach /\ Told /\ NoneYet

LEMMA ChatShows == CInv => C!OwnOutcome
<1> SUFFICES ASSUME CInv, NEW s \in Sends, Lone(s)
             PROVE  \E i \in C!Own(s) : C!Own(s) = {i}
                                        /\ messages[i].status = C!Status(send[s].pc)
  BY DEF C!OwnOutcome, Lone, Sent
<1>1. PICK i \in DOMAIN messages : C!Own(s) = {i}
  BY DEF CInv, OneEach, Lone
<1> QED BY <1>1 DEF CInv, Told

LEMMA ChatTypes ==
    ASSUME CInv
    PROVE  /\ messages \in Seq(C!Message) /\ DOMAIN messages = 1..Len(messages)
           /\ \A i \in DOMAIN messages : messages[i] \in C!Message
           /\ \A i \in DOMAIN messages : messages[i].of \in Sends
           /\ \A s \in Sends : send[s] \in C!Send
<1>1. messages \in Seq(C!Message)
  BY DEF CInv, C!TypeOK
<1>2. \A i \in DOMAIN messages : messages[i] \in C!Message
  BY <1>1
<1> QED BY <1>1, <1>2 DEF CInv, C!TypeOK, C!Message

\* A message added after those there are.
LEMMA Added ==
    ASSUME CInv, NEW m \in C!Message, messages' = Append(messages, m)
    PROVE  /\ messages' \in Seq(C!Message)
           /\ DOMAIN messages' = DOMAIN messages \cup {Len(messages) + 1}
           /\ Len(messages) + 1 \notin DOMAIN messages
           /\ messages'[Len(messages) + 1] = m
           /\ \A i \in DOMAIN messages : messages'[i] = messages[i]
<1>1. messages \in Seq(C!Message)
  BY ChatTypes
<1>2. /\ messages' \in Seq(C!Message) /\ Len(messages') = Len(messages) + 1
      /\ messages'[Len(messages) + 1] = m
      /\ \A i \in 1..Len(messages) : messages'[i] = messages[i]
  BY <1>1
<1>3. /\ DOMAIN messages = 1..Len(messages) /\ DOMAIN messages' = 1..Len(messages')
      /\ Len(messages) \in Nat
  BY <1>1, <1>2
<1>4. ASSUME NEW n \in Nat PROVE 1..(n + 1) = 1..n \cup {n + 1} /\ n + 1 \notin 1..n
  BY <1>4
<1> QED BY <1>2, <1>3, <1>4

LEMMA SendStep ==
    ASSUME C!ChatAssumption, CInv, NEW s \in Sends, C!handleSendMessage(s)
    PROVE  CInv'
<1>0. /\ C!TypeOK /\ ~cloading /\ send[s].pc = "unsent" /\ cloading' = cloading
      /\ cnow' = cnow /\ route' = route /\ cfirst' = cfirst /\ log' = log
      /\ direct' = direct /\ making' = making
  BY DEF CInv, C!handleSendMessage
<1>1. PICK m : m = [id |-> cnow, of |-> s, status |-> "pending", appended |-> FALSE]
  OBVIOUS
<1>2. m \in C!Message /\ m.id = cnow /\ m.of = s /\ m.status = "pending" /\ ~m.appended
  BY <1>0, <1>1 DEF C!Message, C!Ids, C!Statuses, C!TypeOK
<1>3. messages' = Append(messages, m)
  BY <1>1 DEF C!handleSendMessage, C!Shown
<1>4. PICK g : g = [pc |-> "calling", at |-> cnow, conv |-> route]
  OBVIOUS
<1>5. g \in C!Send /\ g.pc = "calling" /\ g.at = cnow
  BY <1>0, <1>4 DEF C!Send, C!TypeOK
<1>6. send' = [send EXCEPT ![s] = g]
  BY <1>4 DEF C!handleSendMessage
<1>7. send' \in [Sends -> C!Send] /\ send'[s] = g /\ \A t \in Sends \ {s} : send'[t] = send[t]
  BY <1>0, <1>5, <1>6 DEF C!TypeOK
<1>8. C!TypeOK'
  BY <1>0, <1>2, <1>3, <1>7, Added DEF C!TypeOK
<1>9. C!Own(s)' = {Len(messages) + 1}
  <2>1. \A i \in DOMAIN messages : ~(messages[i].of = s /\ ~messages[i].appended)
    BY <1>0 DEF CInv, OneEach, Sent
  <2> QED BY <1>2, <1>3, <2>1, Added DEF C!Own
<1>10. \A t \in Sends \ {s} : C!Own(t)' = C!Own(t)
  BY <1>2, <1>3, Added DEF C!Own
<1>11. OneEach'
  <2>1. \A i \in DOMAIN messages' : ~messages'[i].appended => send'[messages'[i].of].pc # "unsent"
    BY <1>2, <1>3, <1>5, <1>7, Added, ChatTypes DEF CInv, OneEach, Sent
  <2>2. \A t \in Sends : send'[t].pc # "unsent" => \E i \in DOMAIN messages' : C!Own(t)' = {i}
    BY <1>2, <1>3, <1>7, <1>9, <1>10, Added DEF CInv, OneEach, Sent
  <2> QED BY <2>1, <2>2 DEF OneEach, Sent
<1>12. ASSUME NEW t \in Sends, Lone(t)', NEW i \in C!Own(t)'
       PROVE  messages'[i].id = IdOf(t)' /\ messages'[i].status = C!Status(send'[t].pc)
  <2>1. CASE t = s
    BY <1>2, <1>3, <1>5, <1>7, <1>9, <1>12, <2>1, Added DEF IdOf, C!Status
  <2>2. CASE t # s
    <3>1. Lone(t) /\ i \in C!Own(t)
      BY <1>0, <1>7, <1>10, <1>12, <2>2 DEF Lone, Sent
    <3>2. messages'[i] = messages[i] /\ send'[t] = send[t]
      BY <1>2, <1>3, <1>7, <2>2, <3>1, Added DEF C!Own
    <3> QED BY <3>1, <3>2 DEF CInv, Told, IdOf
  <2> QED BY <2>1, <2>2
<1>13. NoneYet'
  BY <1>0 DEF NoneYet
<1> QED BY <1>8, <1>11, <1>12, <1>13 DEF CInv, Told

\* An answer changes, of the messages that are not added by the stream, those
\* with the id of its optimistic one, and neither whose they are nor how many.
LEMMA AnswerKeeps ==
    ASSUME C!ChatAssumption, CInv, NEW s \in Sends, send[s].pc = "calling",
           NEW pc \in {"ok", "failed"}, NEW status \in C!Statuses, NEW new \in C!Ids,
           pc = "ok" => status = "sent" /\ new = (IF Demo THEN send[s].at ELSE s),
           pc = "failed" => status = "failed" /\ new = send[s].at,
           send' = [send EXCEPT ![s].pc = pc],
           DOMAIN messages' = DOMAIN messages,
           messages' \in Seq(C!Message),
           \A i \in DOMAIN messages : messages[i].id # send[s].at => messages'[i] = messages[i],
           \A i \in DOMAIN messages : messages[i].id = send[s].at =>
               /\ messages'[i].id = new /\ messages'[i].status = status
               /\ messages'[i].of = messages[i].of
               /\ messages'[i].appended = messages[i].appended,
           UNCHANGED <<cnow, cloading, route, cfirst, log, direct, making>>
    PROVE  CInv'
<1>0. send \in [Sends -> C!Send] /\ C!TypeOK
  BY DEF CInv, C!TypeOK
<1>1. /\ send' \in [Sends -> C!Send] /\ send'[s].pc = pc /\ send'[s].at = send[s].at
      /\ \A t \in Sends \ {s} : send'[t] = send[t]
  BY <1>0 DEF C!Send
<1>2. \A t \in Sends : Sent(t)' <=> Sent(t)
  BY <1>0, <1>1 DEF Sent
<1>3. \A t \in Sends : Lone(t)' <=> Lone(t)
  <2>1. \A t \in Sends : send'[t].at = send[t].at
    BY <1>1
  <2> QED BY <1>2, <2>1 DEF Lone
<1>4. \A i \in DOMAIN messages : /\ messages'[i].of = messages[i].of
                                 /\ messages'[i].appended = messages[i].appended
  OBVIOUS
<1>5. \A t \in Sends : C!Own(t)' = C!Own(t)
  BY <1>4 DEF C!Own
<1>6. C!TypeOK'
  BY <1>0, <1>1 DEF C!TypeOK
<1>7. OneEach'
  <2>1. \A i \in DOMAIN messages' : ~messages'[i].appended => send'[messages'[i].of].pc # "unsent"
    BY <1>2, <1>4, ChatTypes DEF CInv, OneEach, Sent
  <2>2. \A t \in Sends : send'[t].pc # "unsent" => \E i \in DOMAIN messages' : C!Own(t)' = {i}
    BY <1>2, <1>5 DEF CInv, OneEach, Sent
  <2> QED BY <2>1, <2>2 DEF OneEach, Sent
<1>8. ASSUME NEW t \in Sends, Lone(t)', NEW i \in C!Own(t)'
      PROVE  messages'[i].id = IdOf(t)' /\ messages'[i].status = C!Status(send'[t].pc)
  <2>1. Lone(t) /\ i \in C!Own(t) /\ i \in DOMAIN messages
    BY <1>3, <1>5, <1>8 DEF C!Own
  <2>2. messages[i].id = IdOf(t) /\ messages[i].status = C!Status(send[t].pc)
    BY <2>1 DEF CInv, Told
  <2>3. CASE t = s
    <3>1. messages[i].id = send[s].at
      BY <2>2, <2>3 DEF IdOf
    <3>2. messages'[i].id = new /\ messages'[i].status = status
      BY <2>1, <3>1
    <3> QED BY <1>1, <2>3, <3>2 DEF IdOf, C!Status
  <2>4. CASE t # s
    <3>1. send[s].at # send[t].at
      BY <2>1, <2>4 DEF Lone, Sent
    <3>2. send[s].at \in 0..MaxMs
      BY <1>0 DEF C!Send
    <3>3. messages[i].id # send[s].at
      BY <2>2, <3>1, <3>2 DEF IdOf, C!ChatAssumption
    <3>4. messages'[i] = messages[i] /\ send'[t] = send[t]
      BY <1>1, <2>1, <2>4, <3>3
    <3> QED BY <2>2, <3>4 DEF IdOf
  <2> QED BY <2>3, <2>4
<1>9. NoneYet'
  BY <1>2 DEF CInv, NoneYet
<1> QED BY <1>6, <1>7, <1>8, <1>9 DEF CInv, Told

LEMMA AnsweredStep ==
    ASSUME C!ChatAssumption, CInv, NEW s \in Sends, C!answered(s) PROVE CInv'
<1>0. /\ send[s].pc = "calling" /\ send' = [send EXCEPT ![s].pc = "ok"]
      /\ UNCHANGED <<cnow, cloading, route, cfirst, log, direct, making>>
  BY DEF C!answered
<1>1. PICK new : new = IF Demo THEN send[s].at ELSE s
  OBVIOUS
<1>2. new \in C!Ids
  BY <1>1, ChatTypes DEF C!Ids, C!Send
<1>3. messages' = [i \in DOMAIN messages |->
                     IF messages[i].id = send[s].at
                     THEN [messages[i] EXCEPT !.id = IF Demo THEN @ ELSE s, !.status = "sent"]
                     ELSE messages[i]]
  BY DEF C!answered, C!Replace
<1>4. ASSUME NEW i \in DOMAIN messages, messages[i].id = send[s].at
      PROVE  /\ messages'[i] \in C!Message
             /\ messages'[i].id = new /\ messages'[i].status = "sent"
             /\ messages'[i].of = messages[i].of
             /\ messages'[i].appended = messages[i].appended
  <2>1. messages[i] \in C!Message
    BY ChatTypes
  <2>2. messages'[i] = [messages[i] EXCEPT !.id = IF Demo THEN messages[i].id ELSE s,
                                           !.status = "sent"]
    BY <1>3, <1>4
  <2>3. messages'[i] = [messages[i] EXCEPT !.id = new, !.status = "sent"]
    BY <1>1, <1>4, <2>2
  <2> QED BY <1>2, <2>1, <2>3 DEF C!Message, C!Statuses
<1>5. \A i \in DOMAIN messages : messages[i].id # send[s].at => messages'[i] = messages[i]
  BY <1>3
<1>6. DOMAIN messages' = DOMAIN messages
  BY <1>3
<1>7. messages' \in Seq(C!Message)
  <2>1. \A i \in DOMAIN messages : messages'[i] \in C!Message
    BY <1>4, <1>5, ChatTypes
  <2>2. DOMAIN messages = 1..Len(messages) /\ Len(messages) \in Nat
    BY ChatTypes
  <2>3. messages' = [i \in 1..Len(messages) |-> messages'[i]]
    BY <1>3, <2>2
  <2>4. PICK n \in Nat : n = Len(messages)
    BY <2>2
  <2>5. \A i \in 1..n : messages'[i] \in C!Message
    BY <2>1, <2>2, <2>4
  <2>6. messages' = [i \in 1..n |-> messages'[i]]
    BY <2>3, <2>4
  <2>7. messages' \in [1..n -> C!Message]
    BY <2>5, <2>6
  <2> QED BY <2>7
<1>8. PICK pc \in {"ok", "failed"}, status \in C!Statuses : pc = "ok" /\ status = "sent"
  BY DEF C!Statuses
<1>9. send[s].pc = "calling" /\ send' = [send EXCEPT ![s].pc = pc]
      /\ UNCHANGED <<cnow, cloading, route, cfirst, log, direct, making>>
  BY <1>0, <1>8
<1>10. \A i \in DOMAIN messages : messages[i].id = send[s].at =>
          /\ messages'[i].id = new /\ messages'[i].status = status
          /\ messages'[i].of = messages[i].of
          /\ messages'[i].appended = messages[i].appended
  BY <1>4, <1>8
<1>11. /\ pc = "ok" => status = "sent" /\ new = (IF Demo THEN send[s].at ELSE s)
       /\ pc = "failed" => status = "failed" /\ new = send[s].at
  BY <1>1, <1>8
<1> QED BY <1>2, <1>5, <1>6, <1>7, <1>9, <1>10, <1>11, AnswerKeeps

LEMMA RefuseStep ==
    ASSUME C!ChatAssumption, CInv, NEW s \in Sends, C!refused(s) PROVE CInv'
<1>0. /\ send[s].pc = "calling" /\ send' = [send EXCEPT ![s].pc = "failed"]
      /\ UNCHANGED <<cnow, cloading, route, cfirst, log, direct, making>>
  BY DEF C!refused
<1>2. send[s].at \in C!Ids
  BY ChatTypes DEF C!Ids, C!Send
<1>3. messages' = [i \in DOMAIN messages |->
                     IF messages[i].id = send[s].at
                     THEN [messages[i] EXCEPT !.status = "failed"] ELSE messages[i]]
  BY DEF C!refused, C!Replace
<1>4. ASSUME NEW i \in DOMAIN messages, messages[i].id = send[s].at
      PROVE  /\ messages'[i] \in C!Message
             /\ messages'[i].id = send[s].at /\ messages'[i].status = "failed"
             /\ messages'[i].of = messages[i].of
             /\ messages'[i].appended = messages[i].appended
  <2>1. messages[i] \in C!Message
    BY ChatTypes
  <2>2. messages'[i] = [messages[i] EXCEPT !.status = "failed"]
    BY <1>3, <1>4
  <2> QED BY <1>4, <2>1, <2>2 DEF C!Message, C!Statuses
<1>5. \A i \in DOMAIN messages : messages[i].id # send[s].at => messages'[i] = messages[i]
  BY <1>3
<1>6. DOMAIN messages' = DOMAIN messages
  BY <1>3
<1>7. messages' \in Seq(C!Message)
  <2>1. \A i \in DOMAIN messages : messages'[i] \in C!Message
    BY <1>4, <1>5, ChatTypes
  <2>2. DOMAIN messages = 1..Len(messages) /\ Len(messages) \in Nat
    BY ChatTypes
  <2>3. messages' = [i \in 1..Len(messages) |-> messages'[i]]
    BY <1>3, <2>2
  <2> QED BY <2>1, <2>2, <2>3
<1>8. PICK pc \in {"ok", "failed"}, status \in C!Statuses, new \in C!Ids :
         pc = "failed" /\ status = "failed" /\ new = send[s].at
  BY <1>2 DEF C!Statuses
<1>9. send[s].pc = "calling" /\ send' = [send EXCEPT ![s].pc = pc]
      /\ UNCHANGED <<cnow, cloading, route, cfirst, log, direct, making>>
  BY <1>0, <1>8
<1>10. \A i \in DOMAIN messages : messages[i].id = send[s].at =>
          /\ messages'[i].id = new /\ messages'[i].status = status
          /\ messages'[i].of = messages[i].of
          /\ messages'[i].appended = messages[i].appended
  BY <1>4, <1>8
<1>11. /\ pc = "ok" => status = "sent" /\ new = (IF Demo THEN send[s].at ELSE s)
       /\ pc = "failed" => status = "failed" /\ new = send[s].at
  BY <1>8
<1> QED BY <1>5, <1>6, <1>7, <1>9, <1>10, <1>11, AnswerKeeps

\* What the stream adds is nobody's optimistic message.
LEMMA TimelineStep ==
    ASSUME C!ChatAssumption, CInv, NEW s \in Sends, C!timelineAppend(s) PROVE CInv'
<1>0. /\ C!TypeOK /\ UNCHANGED <<cnow, cloading, route, cfirst, send, log, direct, making>>
  BY DEF CInv, C!timelineAppend
<1>1. PICK m : m = [id |-> s, of |-> s, status |-> "sent", appended |-> TRUE]
  OBVIOUS
<1>2. m \in C!Message /\ m.appended
  BY <1>1 DEF C!Message, C!Ids, C!Statuses
<1>3. messages' = Append(messages, m)
  BY <1>1 DEF C!timelineAppend, C!Shown
<1>4. \A t \in Sends : C!Own(t)' = C!Own(t) /\ C!Own(t) \subseteq DOMAIN messages
  BY <1>2, <1>3, Added DEF C!Own
<1>5. C!TypeOK'
  BY <1>0, <1>2, <1>3, Added DEF C!TypeOK
<1>6. OneEach'
  <2>1. \A i \in DOMAIN messages' : ~messages'[i].appended => send'[messages'[i].of].pc # "unsent"
    BY <1>0, <1>2, <1>3, Added DEF CInv, OneEach, Sent
  <2>2. \A t \in Sends : send'[t].pc # "unsent" => \E i \in DOMAIN messages' : C!Own(t)' = {i}
    BY <1>0, <1>2, <1>3, <1>4, Added DEF CInv, OneEach, Sent
  <2> QED BY <2>1, <2>2 DEF OneEach, Sent
<1>7. Told'
  <2>1. \A t \in Sends : (Lone(t)' <=> Lone(t)) /\ IdOf(t)' = IdOf(t)
    BY <1>0 DEF Lone, Sent, IdOf
  <2>2. \A i \in DOMAIN messages : messages'[i] = messages[i]
    BY <1>2, <1>3, Added
  <2> QED BY <1>0, <1>4, <2>1, <2>2 DEF CInv, Told
<1>8. NoneYet'
  BY <1>0 DEF CInv, NoneYet, Sent
<1> QED BY <1>5, <1>6, <1>7, <1>8 DEF CInv

\* The bootstrap's answer comes before anything is sent.
LEMMA BootstrapStep ==
    ASSUME CInv, C!loadData PROVE CInv'
<1>0. /\ C!TypeOK /\ cloading' = FALSE /\ \A s \in Sends : ~Sent(s)
      /\ messages' = messages \/ messages' = << >>
      /\ UNCHANGED <<cnow, route, cfirst, send, log, direct, making>>
  BY DEF CInv, NoneYet, C!loadData
<1>1. messages' \in Seq(C!Message)
  <2>1. << >> \in Seq(C!Message)
    OBVIOUS
  <2>2. messages \in Seq(C!Message)
    BY <1>0 DEF C!TypeOK
  <2> QED BY <1>0, <2>1, <2>2
<1>2. C!TypeOK'
  BY <1>0, <1>1 DEF C!TypeOK
<1>3. OneEach'
  BY <1>0 DEF CInv, OneEach, Sent
<1>4. Told' /\ NoneYet'
  BY <1>0 DEF Told, NoneYet, Lone, Sent
<1> QED BY <1>2, <1>3, <1>4 DEF CInv

\* Steps that leave the messages and the sends alone.
LEMMA ElsewhereStep ==
    ASSUME CInv, C!TypeOK', UNCHANGED <<cloading, messages, send>> PROVE CInv'
BY DEF CInv, OneEach, Told, NoneYet, Lone, Sent, IdOf, C!Own

LEMMA ChatOtherSteps ==
    ASSUME C!ChatAssumption, CInv
    PROVE  /\ C!Tick => CInv'
           /\ \A c \in Convs : C!handleSelectConversation(c) => CInv'
           /\ \A s \in Sends : C!store(s) => CInv'
           /\ \A p \in People : C!handleStartChatFromProfile(p) => CInv'
           /\ \A p \in People, ok \in BOOLEAN : C!handleCreateWorkstream(p, ok) => CInv'
           /\ UNCHANGED C!vars => CInv'
<1>0. C!TypeOK
  BY DEF CInv
<1>1. ASSUME C!Tick PROVE CInv'
  <2>1. cnow' \in 0..MaxMs
    BY <1>0, <1>1 DEF C!TypeOK, C!Tick, C!ChatAssumption
  <2>2. C!TypeOK'
    BY <1>0, <1>1, <2>1 DEF C!TypeOK, C!Tick
  <2> QED BY <1>1, <2>2, ElsewhereStep DEF C!Tick
<1>2. ASSUME NEW c \in Convs, C!handleSelectConversation(c) PROVE CInv'
  <2>1. C!TypeOK'
    BY <1>0, <1>2 DEF C!TypeOK, C!handleSelectConversation
  <2> QED BY <1>2, <2>1, ElsewhereStep DEF C!handleSelectConversation
<1>3. ASSUME NEW s \in Sends, C!store(s) PROVE CInv'
  <2>1. C!TypeOK'
    BY <1>0, <1>3 DEF C!TypeOK, C!store
  <2> QED BY <1>3, <2>1, ElsewhereStep DEF C!store
<1>4. ASSUME NEW p \in People, C!handleStartChatFromProfile(p) PROVE CInv'
  <2>1. making' \in [People -> 0..2]
    BY <1>0, <1>4 DEF C!TypeOK, C!handleStartChatFromProfile
  <2>2. C!TypeOK'
    BY <1>0, <1>4, <2>1 DEF C!TypeOK, C!handleStartChatFromProfile
  <2> QED BY <1>4, <2>2, ElsewhereStep DEF C!handleStartChatFromProfile
<1>5. ASSUME NEW p \in People, NEW ok \in BOOLEAN, C!handleCreateWorkstream(p, ok) PROVE CInv'
  <2>1. making' \in [People -> 0..2]
    BY <1>0, <1>5 DEF C!TypeOK, C!handleCreateWorkstream
  <2>2. direct' \in Seq(People)
    <3>1. <<p>> \in Seq(People) /\ direct \in Seq(People)
      BY <1>0 DEF C!TypeOK
    <3>2. <<p>> \o direct \in Seq(People)
      BY <3>1, ConcatProperties
    <3> QED BY <1>5, <3>1, <3>2 DEF C!handleCreateWorkstream
  <2>3. C!TypeOK'
    BY <1>0, <1>5, <2>1, <2>2 DEF C!TypeOK, C!handleCreateWorkstream
  <2> QED BY <1>5, <2>3, ElsewhereStep DEF C!handleCreateWorkstream
<1>6. ASSUME UNCHANGED C!vars PROVE CInv'
  <2>1. C!TypeOK'
    BY <1>0, <1>6 DEF C!TypeOK, C!vars
  <2> QED BY <1>6, <2>1, ElsewhereStep DEF C!vars
<1> QED BY <1>1, <1>2, <1>3, <1>4, <1>5, <1>6

LEMMA ChatInductive ==
    ASSUME C!ChatAssumption PROVE C!Spec => []CInv
<1>1. C!Init => CInv
  <2> SUFFICES ASSUME C!Init PROVE CInv
    OBVIOUS
  <2>1. \A s \in Sends : ~Sent(s)
    BY DEF C!Init, Sent
  <2>2. send \in [Sends -> C!Send]
    BY DEF C!Init, C!Send, C!ChatAssumption
  <2>3. messages \in Seq(C!Message) /\ direct \in Seq(People) /\ DOMAIN messages = {}
    BY DEF C!Init
  <2>4. cloading \in BOOLEAN
    BY DEF C!Init
  <2>5. /\ cnow \in 0..MaxMs /\ route \in Convs /\ cfirst \in Convs /\ log \subseteq Sends
        /\ making \in [People -> 0..2]
    BY DEF C!Init, C!ChatAssumption
  <2>6. C!TypeOK
    BY <2>2, <2>3, <2>4, <2>5 DEF C!TypeOK
  <2> QED BY <2>1, <2>3, <2>6 DEF CInv, OneEach, Told, NoneYet, Lone
<1>2. CInv /\ [C!Next]_C!vars => CInv'
  <2> SUFFICES ASSUME CInv, [C!Next]_C!vars PROVE CInv'
    OBVIOUS
  <2>1. CASE UNCHANGED C!vars
    BY <2>1, ChatOtherSteps
  <2>2. CASE C!Next
    BY <2>2, ChatOtherSteps, BootstrapStep, SendStep, AnsweredStep, RefuseStep, TimelineStep
       DEF C!Next
  <2> QED BY <2>1, <2>2
<1> QED BY <1>1, <1>2, PTL DEF C!Spec
-----------------------------------------------------------------------------
(* The jobs a page shows.  A call asked for when nothing else was going on, *)
(* and since which nothing changed at the gateway, holds once answered the  *)
(* list as the gateway has it (Quietly).                                    *)

Answers == \A c \in Calls : call[c].kind # "list" => call[c].answer # << >>
Quietly == \A c \in Calls : quiet = {c} /\ call[c].pc = "done" /\ call[c].kind = "list"
                              => call[c].answer \in B!listed(call[c].conv)

BInv == B!TypeOK /\ Answers /\ Quietly

Entry(j)   == [id |-> j, version |-> server[j]]
JobsOf(b)  == {j \in Jobs : Conv[j] = b /\ server[j] > 0}

\* What the gateway may list of a conversation: entries of its jobs, no job twice,
\* and all of them unless they are more than Limit.
LEMMA ListedIs ==
    ASSUME B!BoardAssumption, server \in [Jobs -> 0..MaxVersion], NEW b \in Convs,
           NEW l \in B!listed(b)
    PROVE  /\ l \in Seq(B!Job)
           /\ \A i \in DOMAIN l : l[i] \in B!Made(b)
           /\ \A i, k \in DOMAIN l : l[i].id = l[k].id => i = k
           /\ B!Cardinality(B!Made(b)) <= Limit =>
                \A m \in B!Made(b) : \E i \in DOMAIN l : l[i] = m
<1> DEFINE Js == JobsOf(b)
           Es == B!Made(b)
           g == [j \in Js |-> Entry(j)]
<1>1. IsFiniteSet(Js)
  <2>1. IsFiniteSet(Jobs)
    BY DEF B!BoardAssumption, B!IsFiniteSet, IsFiniteSet
  <2>2. Js \in SUBSET Jobs
    BY DEF JobsOf
  <2> HIDE DEF Js
  <2> QED BY <2>1, <2>2, FS_Subset
<1>2. Es = {Entry(j) : j \in Js}
  BY DEF B!Made, JobsOf, Entry
<1>3. IsFiniteSet(Es)
  <2>1. g \in [Js -> Es] /\ \A n, m \in Js : g[n] = g[m] => n = m
    BY <1>2 DEF Entry
  <2>2. \A e \in Es : \E j \in Js : g[j] = e
    BY <1>2
  <2>3. g \in Bijection(Js, Es)
    BY <2>1, <2>2, Fun_IsBij
  <2>4. ExistsBijection(Js, Es)
    BY <2>3 DEF ExistsBijection
  <2> QED BY <1>1, <2>4, FS_Bijection
<1>4. PICK t \in SUBSET Es : l = B!SetToSeq(t) /\ (B!Cardinality(Es) <= Limit => t = Es)
  BY DEF B!listed
<1>5. IsFiniteSet(t)
  BY <1>3, FS_Subset
<1>6. PICK n : n = Cardinality(t)
  OBVIOUS
<1>7. n \in Nat /\ ExistsBijection(1..n, t)
  BY <1>5, <1>6, FS_CardinalityType
<1>8. \E f \in [1..n -> t] : B!IsInjective(f)
  BY <1>7 DEF ExistsBijection, Bijection, Injection, IsInjective, B!IsInjective
<1>9. B!Cardinality(t) = n
  BY <1>6 DEF B!Cardinality, Cardinality
<1>10. l = CHOOSE f \in [1..n -> t] : B!IsInjective(f)
  BY <1>4, <1>9 DEF B!SetToSeq
<1>11. l \in [1..n -> t] /\ B!IsInjective(l)
  BY <1>8, <1>10
<1>12. l \in Injection(1..n, t)
  BY <1>11 DEF Injection, IsInjective, B!IsInjective
<1>13. Cardinality(1..n) = n
  BY <1>7, FS_Interval
<1>14. l \in Surjection(1..n, t)
  BY <1>5, <1>6, <1>12, <1>13, FS_Injection
<1>15. \A e \in t : \E i \in 1..n : l[i] = e
  BY <1>14 DEF Surjection
<1>16. Es \subseteq B!Job
  BY DEF B!Made, B!Job, B!BoardAssumption
<1>17. DOMAIN l = 1..n /\ \A i \in 1..n : l[i] \in t /\ l[i] \in Es
  BY <1>4, <1>11
<1>18. l \in Seq(B!Job)
  BY <1>7, <1>11, <1>16, <1>17
<1>19. ASSUME NEW i \in DOMAIN l, NEW k \in DOMAIN l, l[i].id = l[k].id PROVE i = k
  <2>1. PICK p \in Js : l[i] = Entry(p)
    BY <1>2, <1>17, <1>19
  <2>2. PICK q \in Js : l[k] = Entry(q)
    BY <1>2, <1>17, <1>19
  <2>3. l[i] = l[k]
    BY <1>19, <2>1, <2>2 DEF Entry
  <2> QED BY <1>11, <1>17, <2>3 DEF B!IsInjective
<1>20. B!Cardinality(Es) <= Limit => \A m \in Es : \E i \in DOMAIN l : l[i] = m
  BY <1>4, <1>15, <1>17
<1> HIDE DEF Es
<1> QED BY <1>17, <1>18, <1>19, <1>20 DEF Es

LEMMA BoardTypes ==
    ASSUME BInv
    PROVE  /\ server \in [Jobs -> 0..MaxVersion] /\ call \in [Calls -> B!Call]
           /\ jobs \in Seq(B!Job) /\ pushed \in [Channels -> Seq(B!Job)]
           /\ \A c \in Calls : call[c] \in B!Call /\ call[c].answer \in Seq(B!Job)
           /\ B!Free(conv) \in B!Call
BY DEF BInv, B!TypeOK, B!Call, B!Free

\* A call that is asked: of the server nothing changes, or quiet is none.
LEMMA AskKeeps ==
    ASSUME BInv, NEW c \in Calls, NEW kind \in {"list", "create", "act"}, NEW b \in Convs,
           NEW answer \in Seq(B!Job), NEW pc \in {"asked", "done"},
           B!Ask(c, kind, b, answer, pc),
           kind = "list" => pc = "asked" /\ quiet' \in {{c}, {}} /\ server' = server,
           kind # "list" => answer # << >> /\ quiet' = {}
    PROVE  call' \in [Calls -> B!Call] /\ Answers' /\ Quietly'
<1>1. PICK m : m = [pc |-> pc, kind |-> kind, conv |-> b, answer |-> answer]
  OBVIOUS
<1>2. m \in B!Call /\ m.pc = pc /\ m.kind = kind /\ m.answer = answer
  BY <1>1 DEF B!Call
<1>3. call' = [call EXCEPT ![c] = m]
  BY <1>1 DEF B!Ask
<1>4. /\ call' \in [Calls -> B!Call] /\ call'[c] = m
      /\ \A d \in Calls \ {c} : call'[d] = call[d]
  BY <1>2, <1>3, BoardTypes
<1>5. Answers'
  BY <1>2, <1>4 DEF BInv, Answers
<1>6. Quietly'
  BY <1>2, <1>4 DEF Quietly
<1> QED BY <1>4, <1>5, <1>6

\* A call that ends.
LEMMA FreeKeeps ==
    ASSUME BInv, NEW c \in Calls, call' = [call EXCEPT ![c] = B!Free(conv)],
           server' = server, quiet' = quiet
    PROVE  call' \in [Calls -> B!Call] /\ Answers' /\ Quietly'
<1>1. /\ call' \in [Calls -> B!Call] /\ call'[c] = B!Free(conv)
      /\ \A d \in Calls \ {c} : call'[d] = call[d]
  BY BoardTypes
<1>2. Answers'
  BY <1>1 DEF BInv, Answers, B!Free
<1>3. ASSUME NEW b PROVE B!listed(b)' = B!listed(b)
  BY DEF B!listed, B!Made
<1>4. Quietly'
  BY <1>1, <1>3 DEF BInv, Quietly, B!Free
<1> QED BY <1>1, <1>2, <1>4

\* Steps that touch no call.
LEMMA CallsAlone ==
    ASSUME BInv, call' = call, quiet' = {} \/ (quiet' = quiet /\ server' = server)
    PROVE  call' \in [Calls -> B!Call] /\ Answers' /\ Quietly'
<1>1. server' = server => \A b : B!listed(b)' = B!listed(b)
  BY DEF B!listed, B!Made
<1> QED BY <1>1, BoardTypes DEF BInv, Answers, Quietly

LEMMA ListStep ==
    ASSUME B!BoardAssumption, BInv, NEW c \in Calls, B!list(c) PROVE BInv'
<1>0. call[c].kind = "list" /\ UNCHANGED <<server, open, pushed, conv, jobs, quiet>>
  BY DEF B!list
<1>1. call[c] \in B!Call /\ call[c].conv \in Convs
  BY BoardTypes DEF B!Call
<1>2. PICK l \in B!listed(call[c].conv) :
        call' = [call EXCEPT ![c].pc = "done", ![c].answer = l]
  BY DEF B!list
<1>3. l \in Seq(B!Job)
  BY <1>1, <1>2, BoardTypes, ListedIs
<1>4. /\ call' \in [Calls -> B!Call] /\ call'[c].answer = l
      /\ call'[c].kind = "list" /\ call'[c].conv = call[c].conv
      /\ \A d \in Calls \ {c} : call'[d] = call[d]
  <2>1. call' = [call EXCEPT ![c] = [call[c] EXCEPT !.pc = "done", !.answer = l]]
    BY <1>2
  <2>2. PICK m : m = [call[c] EXCEPT !.pc = "done", !.answer = l]
    OBVIOUS
  <2>3. m \in B!Call /\ m.answer = l /\ m.kind = "list" /\ m.conv = call[c].conv
    BY <1>0, <1>1, <1>3, <2>2 DEF B!Call
  <2> QED BY <2>1, <2>2, <2>3, BoardTypes
<1>5. Answers'
  BY <1>4 DEF BInv, Answers
<1>6. ASSUME NEW b PROVE B!listed(b)' = B!listed(b)
  BY <1>0 DEF B!listed, B!Made
<1>7. Quietly'
  BY <1>0, <1>2, <1>4, <1>6 DEF BInv, Quietly
<1>8. B!TypeOK'
  BY <1>0, <1>4 DEF BInv, B!TypeOK
<1> QED BY <1>5, <1>7, <1>8 DEF BInv

LEMMA RefreshSteps ==
    ASSUME BInv, NEW c \in Calls,
           B!refresh(c) \/ \E b \in Convs : B!setConversation(b, c)
    PROVE  BInv'
<1>1. PICK b \in Convs : B!Loading(c, b) /\ conv' \in Convs
  BY DEF BInv, B!TypeOK, B!refresh, B!setConversation
<1>2. UNCHANGED <<server, open, pushed, jobs>>
  BY DEF B!refresh, B!setConversation
<1>3. << >> \in Seq(B!Job)
  OBVIOUS
<1>4. B!Ask(c, "list", b, << >>, "asked") /\ quiet' \in {{c}, {}}
  BY <1>1 DEF B!Loading, B!NoCall
<1>5. call' \in [Calls -> B!Call] /\ Answers' /\ Quietly'
  BY <1>2, <1>3, <1>4, AskKeeps
<1>6. B!TypeOK'
  BY <1>1, <1>2, <1>4, <1>5 DEF BInv, B!TypeOK
<1> QED BY <1>5, <1>6 DEF BInv

\* A change at the gateway, and what is told of it.
LEMMA StepKeeps ==
    ASSUME B!BoardAssumption, BInv, NEW j \in Jobs, B!Step(j)
    PROVE  /\ server' \in [Jobs -> 0..MaxVersion] /\ quiet' = {}
           /\ server'[j] = server[j] + 1 /\ server'[j] \in 1..MaxVersion
           /\ [id |-> j, version |-> server'[j]] \in B!Job
           /\ B!Push(j) \in [Channels -> Seq(B!Job)]
<1>1. /\ server' \in [Jobs -> 0..MaxVersion] /\ quiet' = {}
      /\ server'[j] = server[j] + 1 /\ server'[j] \in 1..MaxVersion
  BY BoardTypes DEF B!Step, B!NoCall, B!BoardAssumption
<1>2. PICK m : m = [id |-> j, version |-> server'[j]]
  OBVIOUS
<1>3. m \in B!Job
  BY <1>1, <1>2 DEF B!Job
<1>4. \A ch \in Channels : pushed[ch] \in Seq(B!Job) /\ Append(pushed[ch], m) \in Seq(B!Job)
  BY <1>3, BoardTypes
<1>5. B!Push(j) = [ch \in Channels |-> IF ch \in open THEN Append(pushed[ch], m) ELSE pushed[ch]]
  BY <1>2 DEF B!Push
<1> QED BY <1>1, <1>2, <1>3, <1>4, <1>5

LEMMA JobSteps ==
    ASSUME B!BoardAssumption, BInv, NEW j \in Jobs, B!JobStep(j) PROVE BInv'
<1>1. B!Step(j) /\ pushed' = B!Push(j) /\ UNCHANGED <<open, call, conv, jobs>>
  BY DEF B!JobStep
<1>2. /\ server' \in [Jobs -> 0..MaxVersion] /\ quiet' = {}
      /\ pushed' \in [Channels -> Seq(B!Job)]
  BY <1>1, StepKeeps
<1>3. Answers' /\ Quietly'
  BY <1>1, <1>2, CallsAlone
<1>4. B!TypeOK'
  BY <1>1, <1>2 DEF BInv, B!TypeOK
<1> QED BY <1>3, <1>4 DEF BInv

LEMMA CreateJobStep ==
    ASSUME B!BoardAssumption, BInv, NEW j \in Jobs, NEW c \in Calls, B!createJob(j, c)
    PROVE  BInv'
<1>1. /\ B!Step(j) /\ server[j] = 0 /\ UNCHANGED <<open, pushed, conv, jobs>>
      /\ B!Ask(c, "create", conv, <<[id |-> j, version |-> 1]>>, "done")
  BY DEF B!createJob
<1>2. /\ server' \in [Jobs -> 0..MaxVersion] /\ quiet' = {} /\ server'[j] = 1
      /\ [id |-> j, version |-> server'[j]] \in B!Job
  BY <1>1, StepKeeps
<1>3. <<[id |-> j, version |-> 1]>> \in Seq(B!Job) /\ <<[id |-> j, version |-> 1]>> # << >>
  BY <1>2
<1>4. conv \in Convs
  BY DEF BInv, B!TypeOK
<1>5. call' \in [Calls -> B!Call] /\ Answers' /\ Quietly'
  BY <1>1, <1>2, <1>3, <1>4, AskKeeps
<1>6. B!TypeOK'
  BY <1>1, <1>2, <1>5 DEF BInv, B!TypeOK
<1> QED BY <1>5, <1>6 DEF BInv

LEMMA ActStep ==
    ASSUME B!BoardAssumption, BInv, NEW j \in Jobs, NEW c \in Calls, B!act(j, c)
    PROVE  BInv'
<1>1. /\ B!Step(j) /\ pushed' = B!Push(j) /\ UNCHANGED <<open, conv, jobs>>
      /\ B!Ask(c, "act", conv, <<[id |-> j, version |-> server'[j]]>>, "done")
  BY DEF B!act
<1>2. /\ server' \in [Jobs -> 0..MaxVersion] /\ quiet' = {}
      /\ [id |-> j, version |-> server'[j]] \in B!Job
      /\ pushed' \in [Channels -> Seq(B!Job)]
  BY <1>1, StepKeeps
<1>3. PICK m : m = [id |-> j, version |-> server'[j]]
  OBVIOUS
<1>4. <<m>> \in Seq(B!Job) /\ <<m>> # << >>
  BY <1>2, <1>3
<1>5. conv \in Convs
  BY DEF BInv, B!TypeOK
<1>6. B!Ask(c, "act", conv, <<m>>, "done")
  BY <1>1, <1>3
<1>7. call' \in [Calls -> B!Call] /\ Answers' /\ Quietly'
  BY <1>2, <1>4, <1>5, <1>6, AskKeeps
<1>8. B!TypeOK'
  BY <1>1, <1>2, <1>7 DEF BInv, B!TypeOK
<1> QED BY <1>7, <1>8 DEF BInv

\* A call of the page comes back, or fails.
LEMMA EndSteps ==
    ASSUME BInv, NEW c \in Calls, B!refreshed(c) \/ B!answered(c) \/ B!failed(c)
    PROVE  BInv'
<1>1. /\ call' = [call EXCEPT ![c] = B!Free(conv)]
      /\ UNCHANGED <<server, open, pushed, conv, quiet>>
  BY DEF B!refreshed, B!answered, B!failed
<1>2. call' \in [Calls -> B!Call] /\ Answers' /\ Quietly'
  BY <1>1, FreeKeeps
<1>3. call[c].answer \in Seq(B!Job) /\ jobs \in Seq(B!Job)
  BY BoardTypes
<1>4. jobs' \in Seq(B!Job)
  <2>1. CASE B!refreshed(c) \/ B!failed(c)
    BY <1>3, <2>1 DEF B!refreshed, B!failed
  <2>2. CASE B!answered(c) /\ call[c].kind = "create"
    <3>1. jobs' = call[c].answer \o jobs
      BY <2>2 DEF B!answered
    <3> QED BY <1>3, <3>1, ConcatProperties
  <2>3. CASE B!answered(c) /\ call[c].kind # "create"
    <3>1. jobs' = B!Update(Head(call[c].answer)) /\ call[c].answer # << >>
      BY <2>3 DEF B!answered, BInv, Answers
    <3>2. PICK m : m = Head(call[c].answer)
      OBVIOUS
    <3>3. m \in B!Job
      BY <1>3, <3>1, <3>2
    <3>4. jobs' = [i \in 1..Len(jobs) |-> IF jobs[i].id = m.id THEN m ELSE jobs[i]]
      BY <1>3, <3>1, <3>2 DEF B!Update
    <3>5. \A i \in 1..Len(jobs) : jobs[i] \in B!Job
      BY <1>3
    <3>6. Len(jobs) \in Nat
      BY <1>3
    <3> QED BY <3>3, <3>4, <3>5, <3>6
  <2> QED BY <2>1, <2>2, <2>3
<1>5. B!TypeOK'
  BY <1>1, <1>2, <1>4 DEF BInv, B!TypeOK
<1> QED BY <1>2, <1>5 DEF BInv

LEMMA UpdateStep ==
    ASSUME BInv, NEW ch \in Channels, B!handleJobUpdate(ch) PROVE BInv'
<1>1. /\ pushed[ch] # << >> /\ pushed' = [pushed EXCEPT ![ch] = Tail(@)]
      /\ UNCHANGED <<server, open, call, conv, quiet>>
  BY DEF B!handleJobUpdate
<1>2. pushed[ch] \in Seq(B!Job) /\ jobs \in Seq(B!Job)
  BY BoardTypes
<1>3. PICK m : m = Head(pushed[ch])
  OBVIOUS
<1>4. m \in B!Job /\ Tail(pushed[ch]) \in Seq(B!Job)
  BY <1>1, <1>2, <1>3
<1>5. pushed' \in [Channels -> Seq(B!Job)]
  BY <1>1, <1>4, BoardTypes
<1>6. PICK i : i = B!First(m.id)
  OBVIOUS
<1>7. jobs' = jobs \/ jobs' = [jobs EXCEPT ![i] = m]
  BY <1>3, <1>6 DEF B!handleJobUpdate
<1>8. [jobs EXCEPT ![i] = m] \in Seq(B!Job)
  <2>1. \A n \in 1..Len(jobs) : jobs[n] \in B!Job
    BY <1>2
  <2>2. Len(jobs) \in Nat /\ DOMAIN jobs = 1..Len(jobs)
    BY <1>2
  <2>3. [jobs EXCEPT ![i] = m] = [n \in 1..Len(jobs) |-> IF n = i THEN m ELSE jobs[n]]
    BY <2>2
  <2>4. PICK f : f = [n \in 1..Len(jobs) |-> IF n = i THEN m ELSE jobs[n]]
    OBVIOUS
  <2>5. f \in [1..Len(jobs) -> B!Job]
    BY <1>4, <2>1, <2>4
  <2>6. f \in Seq(B!Job)
    BY <2>2, <2>5
  <2> QED BY <2>3, <2>4, <2>6
<1>9. Answers' /\ Quietly'
  BY <1>1, CallsAlone
<1>10. B!TypeOK'
  BY <1>1, <1>2, <1>5, <1>7, <1>8 DEF BInv, B!TypeOK
<1> QED BY <1>9, <1>10 DEF BInv

LEMMA ChannelSteps ==
    ASSUME BInv, NEW ch \in Channels, B!opens(ch) \/ B!closes(ch) PROVE BInv'
<1>1. /\ open' \subseteq Channels /\ UNCHANGED <<server, call, conv, jobs, quiet>>
      /\ pushed' = pushed \/ pushed' = [pushed EXCEPT ![ch] = << >>]
  BY DEF BInv, B!TypeOK, B!opens, B!closes
<1>2. << >> \in Seq(B!Job)
  OBVIOUS
<1>3. pushed' \in [Channels -> Seq(B!Job)]
  BY <1>1, <1>2, BoardTypes
<1>4. Answers' /\ Quietly'
  BY <1>1, CallsAlone
<1>5. B!TypeOK'
  BY <1>1, <1>3 DEF BInv, B!TypeOK
<1> QED BY <1>4, <1>5 DEF BInv

LEMMA BoardInductive ==
    ASSUME B!BoardAssumption PROVE B!Spec => []BInv
<1>1. B!Init => BInv
  <2> SUFFICES ASSUME B!Init PROVE BInv
    OBVIOUS
  <2>1. server \in [Jobs -> 0..MaxVersion]
    BY DEF B!Init, B!BoardAssumption
  <2>2. << >> \in Seq(B!Job)
    OBVIOUS
  <2>3. pushed \in [Channels -> Seq(B!Job)] /\ jobs \in Seq(B!Job)
    BY <2>2 DEF B!Init
  <2>4. conv \in Convs /\ B!Free(conv) \in B!Call
    BY <2>2 DEF B!Init, B!Free, B!Call
  <2>5. /\ call \in [Calls -> B!Call] /\ open = {} /\ quiet = {}
        /\ \A c \in Calls : call[c] = B!Free(conv)
    BY <2>4 DEF B!Init, B!NoCall
  <2>6. B!TypeOK
    BY <2>1, <2>3, <2>4, <2>5 DEF B!TypeOK
  <2>7. Answers /\ Quietly
    BY <2>5 DEF Answers, Quietly, B!Free
  <2> QED BY <2>6, <2>7 DEF BInv
<1>2. BInv /\ [B!Next]_B!vars => BInv'
  <2> SUFFICES ASSUME BInv, [B!Next]_B!vars PROVE BInv'
    OBVIOUS
  <2>1. CASE UNCHANGED B!vars
    <3>1. UNCHANGED <<server, open, pushed, call, conv, jobs, quiet>>
      BY <2>1 DEF B!vars
    <3>2. B!TypeOK'
      BY <3>1 DEF BInv, B!TypeOK
    <3> QED BY <3>1, <3>2, CallsAlone DEF BInv
  <2>2. CASE B!Next
    BY <2>2, ListStep, RefreshSteps, JobSteps, CreateJobStep, ActStep, EndSteps, UpdateStep,
       ChannelSteps DEF B!Next
  <2> QED BY <2>1, <2>2
<1> QED BY <1>1, <1>2, PTL DEF B!Spec

\* What a quiet list replaces the page's with is the gateway's.
LEMMA BoardMends ==
    ASSUME B!BoardAssumption PROVE B!Spec => B!RefreshMends
<1>1. ASSUME BInv, NEW c \in Calls, quiet = {c}, B!refreshed(c), call[c].conv = conv
      PROVE  /\ \A i \in DOMAIN jobs' : jobs'[i] \in B!Made(conv)
             /\ \A i, k \in DOMAIN jobs' : jobs'[i].id = jobs'[k].id => i = k
             /\ B!Cardinality(B!Made(conv)) <= Limit =>
                  \A m \in B!Made(conv) : \E i \in DOMAIN jobs' : jobs'[i] = m
  <2>1. conv \in Convs /\ server \in [Jobs -> 0..MaxVersion]
    BY <1>1 DEF BInv, B!TypeOK
  <2>2. jobs' \in B!listed(conv)
    BY <1>1 DEF BInv, Quietly, B!refreshed
  <2> QED BY <2>1, <2>2, ListedIs
<1>2. BInv => \A c \in Calls : quiet = {c} /\ B!refreshed(c) /\ call[c].conv = conv
          => /\ \A i \in DOMAIN jobs' : jobs'[i] \in B!Made(conv)
             /\ \A i, k \in DOMAIN jobs' : jobs'[i].id = jobs'[k].id => i = k
             /\ B!Cardinality(B!Made(conv)) <= Limit =>
                  \A m \in B!Made(conv) : \E i \in DOMAIN jobs' : jobs'[i] = m
  BY <1>1
<1> QED BY <1>2, BoardInductive, PTL DEF B!RefreshMends
-----------------------------------------------------------------------------
(* The signature.  Ed25519Proofs has its theorems; KP is that module over   *)
(* the constants and variables of this one, and K the model itself, of      *)
(* which KP has a copy: their definitions agree one by one.                 *)
KP == INSTANCE Ed25519Proofs WITH P <- Prime

LEMMA SameData ==
    /\ KP!Field = K!Field /\ KP!Point = K!Point /\ KP!ZERO = K!ZERO
    /\ KP!Base = K!Base /\ KP!getBasePoint = K!getBasePoint
BY DEF KP!Field, K!Field, KP!Point, K!Point, KP!ZERO, K!ZERO, KP!Base, K!Base,
       KP!getBasePoint, K!getBasePoint, KP!mod, K!mod

LEMMA SamePowers ==
    ASSUME NEW u, NEW n
    PROVE  KP!Power(u, n) = K!Power(u, n) /\ KP!modInverse(u, n) = K!modInverse(u, n)
<1>1. KP!Power(u, n) = K!Power(u, n)
  BY DEF KP!Power, K!Power, KP!mod, K!mod
<1>2. KP!modInverse(u, n) = K!modInverse(u, n)
  BY DEF KP!modInverse, K!modInverse, KP!modPow, K!modPow, KP!powRound, K!powRound,
         KP!mod, K!mod
<1> QED BY <1>1, <1>2

LEMMA SameCurve == KP!D = K!D /\ KP!Curve = K!Curve
<1>1. KP!D = K!D
  BY SamePowers DEF KP!D, K!D
<1> QED BY <1>1, SameData DEF KP!Curve, K!Curve, KP!mod, K!mod

LEMMA SameSums ==
    ASSUME NEW a, NEW b
    PROVE  KP!Sum(a, b) = K!Sum(a, b)
<1>1. ASSUME NEW c PROVE KP!IsSum(c, a, b) = K!IsSum(c, a, b)
  BY SameCurve DEF KP!IsSum, K!IsSum, KP!Cross, K!Cross, KP!mod, K!mod
<1> QED BY <1>1, SameCurve DEF KP!Sum, K!Sum

LEMMA SameTimes == ASSUME NEW n, NEW a PROVE KP!Times(n, a) = K!Times(n, a)
BY SameSums DEF KP!Times, K!Times

LEMMA SameScalarMult ==
    ASSUME NEW s, NEW q PROVE KP!scalarMult(s, q) = K!scalarMult(s, q)
<1>1. ASSUME NEW p, NEW r
      PROVE  KP!pointAdd(p, r) = K!pointAdd(p, r) /\ KP!pointDouble(p) = K!pointDouble(p)
  BY SameCurve DEF KP!pointAdd, K!pointAdd, KP!pointDouble, K!pointDouble, KP!mod, K!mod
<1>2. ASSUME NEW b PROVE KP!round(b) = K!round(b)
  BY <1>1 DEF KP!round, K!round
<1> QED BY <1>2, SameData DEF KP!scalarMult, K!scalarMult

LEMMA SameAffine ==
    ASSUME NEW p PROVE KP!Known(p) = K!Known(p) /\ KP!Affine(p) = K!Affine(p)
<1>1. KP!pointToBytes(p) = K!pointToBytes(p)
  BY SamePowers DEF KP!pointToBytes, K!pointToBytes, KP!mod, K!mod
<1>2. ASSUME NEW c PROVE KP!Bytes(c) = K!Bytes(c)
  BY DEF KP!Bytes, K!Bytes
<1> QED BY <1>1, <1>2, SameCurve DEF KP!Known, K!Known, KP!Affine, K!Affine

LEMMA SameAssumption == K!CurveAssumption => KP!CurveAssumption
<1>1. KP!Multiples = K!Multiples
  BY SameData, SameTimes DEF KP!Multiples, K!Multiples
<1> QED BY <1>1, SameData, SamePowers, SameCurve, SameSums, SameTimes
        DEF KP!CurveAssumption, K!CurveAssumption, KP!mod, K!mod

LEMMA SameSteps == (K!Init => KP!Init) /\ (K!Next => KP!Next)
<1>1. K!Init => KP!Init
  BY SameData DEF K!Init, KP!Init
<1>2. K!deriveKeypair => KP!deriveKeypair
  BY SameData, SameScalarMult DEF K!deriveKeypair, KP!deriveKeypair
<1>3. K!nonce => KP!nonce
  BY SameData, SameScalarMult DEF K!nonce, KP!nonce, K!mod, KP!mod
<1>4. K!ed25519Sign => KP!ed25519Sign
  BY DEF K!ed25519Sign, KP!ed25519Sign, K!mod, KP!mod
<1> QED BY <1>1, <1>2, <1>3, <1>4 DEF K!Next, KP!Next

LEMMA SameProperties ==
    /\ KP!TypeOK => K!TypeOK
    /\ KP!SignatureVerifies => K!SignatureVerifies
<1>1. KP!TypeOK => K!TypeOK
  BY SameData DEF K!TypeOK, KP!TypeOK
<1>2. KP!SignatureVerifies => K!SignatureVerifies
  BY SameData, SameTimes, SameSums, SameAffine
     DEF K!SignatureVerifies, KP!SignatureVerifies, K!mod, KP!mod
<1> QED BY <1>1, <1>2
-----------------------------------------------------------------------------
(* The parts together *)

\* A behaviour of all is one of each: a scene steps its own part only.
LEMMA PartsStart ==
    Init => /\ E!Init /\ C!Init /\ A!Init /\ S!Init /\ B!Init /\ O!Init /\ J!Init
BY DEF Init

LEMMA PartsECA == Spec => E!Spec /\ C!Spec /\ A!Spec
<1>1. [Next]_vars => [E!Next]_E!vars /\ [C!Next]_C!vars /\ [A!Next]_A!vars
  BY DEF Next, vars, evars, cvars, avars, E!vars, C!vars, A!vars
<1> QED BY <1>1, PartsStart, PTL DEF Spec, E!Spec, C!Spec, A!Spec

LEMMA PartsSB == Spec => S!Spec /\ B!Spec
<1>1. [Next]_vars => [S!Next]_S!vars /\ [B!Next]_B!vars
  BY DEF Next, vars, svars, bvars, S!vars, B!vars
<1> QED BY <1>1, PartsStart, PTL DEF Spec, S!Spec, B!Spec

LEMMA PartsOJ == Spec => O!Spec /\ J!Spec
<1>1. [Next]_vars => [O!Next]_O!vars /\ [J!Next]_J!vars
  BY DEF Next, vars, ovars, jvars, O!vars, J!vars
<1> QED BY <1>1, PartsStart, PTL DEF Spec, O!Spec, J!Spec

LEMMA PartsK == Spec => KP!Spec
<1>1. Init => KP!Init
  BY SameSteps DEF Init
<1>2. [Next]_vars => [KP!Next]_KP!vars
  BY SameSteps DEF Next, vars, kvars, KP!vars
<1> QED BY <1>1, <1>2, PTL DEF Spec, KP!Spec

LEMMA SignTyped == Spec => []K!TypeOK
<1>1. KP!CurveAssumption
  BY MessengerAssumption, SameAssumption DEF MessengerAssumption
<1>2. KP!Spec => []KP!TypeOK
  BY <1>1, KP!SignerTypeOK
<1> QED BY <1>2, SameProperties, PartsK, PTL

LEMMA SceneStays == Spec => [](scene \in Scenes)
<1>1. Init => scene \in Scenes
  BY DEF Init
<1>2. scene \in Scenes /\ [Next]_vars => (scene \in Scenes)'
  BY DEF Next, vars, Scenes
<1> QED BY <1>1, <1>2, PTL DEF Spec

\* Whatever is lost, late or answered out of order, the streams, lists, sockets,
\* sessions and signatures of the client keep their types (useSSE.ts, ChatPage.tsx,
\* jobsApi.ts, useJobs.ts, useOptimistic.ts, crypto.ts and the others).
THEOREM TypesOKHolds == Spec => []TypesOK
<1> USE MessengerAssumption DEF MessengerAssumption
<1>1. /\ CInv => C!TypeOK
      /\ SInv => S!TypeOK
      /\ BInv => B!TypeOK
      /\ OInv => O!TypeOK
  BY DEF CInv, SInv, BInv, OInv
<1>2. scene \in Scenes /\ E!TypeOK /\ C!TypeOK /\ A!TypeOK /\ S!TypeOK /\ B!TypeOK /\ O!TypeOK
      /\ J!TypeOK /\ K!TypeOK
      => TypesOK
  BY DEF TypesOK, Scenes
<1>3. Spec => []E!TypeOK /\ []C!TypeOK /\ []A!TypeOK
  BY <1>1, PartsECA, StreamTyped, ChatInductive, SignInTyped, PTL
<1>4. Spec => []S!TypeOK /\ []B!TypeOK
  BY <1>1, PartsSB, SocketsInductive, BoardInductive, PTL
<1>5. Spec => []O!TypeOK /\ []J!TypeOK
  BY <1>1, DrawerShows, PartsOJ, OptimisticInductive, DrawerInductive, PTL
<1>6. Spec => []K!TypeOK
  BY SignTyped
<1> QED BY <1>2, <1>3, <1>4, <1>5, <1>6, SceneStays, PTL

\* Whatever the private scalar and the hashes, what ed25519Sign has signed verifies: the
\* bytes of R and of the public key are those of points of the curve, and S times the base
\* point is R plus the challenge times the key (crypto.ts).
THEOREM SignatureVerifiesHolds == Spec => []SignatureVerifies
<1>1. KP!CurveAssumption
  BY MessengerAssumption, SameAssumption DEF MessengerAssumption
<1>2. KP!Spec => []KP!SignatureVerifies
  BY <1>1, KP!SignerVerifies
<1> QED BY <1>2, SameProperties, PartsK, PTL DEF SignatureVerifies

\* Whatever errors, reconnects and late hellos come between, an open event stream
\* that has caught up has handed over every event since its first hello (useSSE,
\* whose connect takes up at the cursor of that hello).
THEOREM NothingMissedHolds == Spec => []NothingMissed
<1> USE MessengerAssumption DEF MessengerAssumption
<1> QED BY PartsECA, StreamMissesNothing, PTL DEF NothingMissed

\* Whatever logins, logouts, reloads and late answers come between, the token is
\* that of the user shown and a key offered for signing is his.  A key or a tenant of
\* somebody else is there only where it was left: a key by a login refused after
\* PRF or by whoever was there before the demo, a tenant by whoever was signed in
\* before (useAuth, crypto.ts and the pages that store the tenant).
THEOREM OneIdentityHolds == Spec => []OneIdentity
<1> USE MessengerAssumption DEF MessengerAssumption
<1> QED BY PartsECA, SignInOneIdentity, PTL DEF OneIdentity

\* In whatever order the calls are answered, refused or given up: a message shows
\* what became of its own send, a list the last word said on each item by an update
\* under way, a drawer the job it was opened on, and who listens for updates of
\* jobs has a socket or a timer that will make one (ChatPage, optimistic updates,
\* JobDrawer and the job sockets).
THEOREM ShownAsAskedHolds == Spec => []ShownAsAsked
<1> USE MessengerAssumption DEF MessengerAssumption
<1>1. CInv /\ OInv /\ JInv /\ SInv => ShownAsAsked
  BY ChatShows, OptimisticShows, DrawerShows DEF SInv, ShownAsAsked
<1> QED BY <1>1, PartsECA, PartsOJ, PartsSB, ChatInductive, OptimisticInductive,
           DrawerInductive, SocketsInductive, PTL

\* A list of jobs asked for when nothing else is under way, and answered before
\* anything changes, shows jobs of its conversation as the gateway has them, none
\* twice, and all unless they are more than the limit, whatever was lost, came
\* twice or came late before (refresh of useJobs).
THEOREM RefreshMendsHolds == Spec => RefreshMends
<1> USE MessengerAssumption DEF MessengerAssumption
<1> QED BY PartsSB, BoardMends, PTL DEF RefreshMends
=============================================================================
