--------------------------- MODULE AccountsProofs ---------------------------
(***************************************************************************)
(* Proofs about Accounts, for any number of requests, accounts and faults. *)
(***************************************************************************)
EXTENDS Accounts, FiniteSetTheorems, TLAPS

\* Where a session has its account, and where a request has the tenant of its key.
Admitted == {"finalize", "workspaces", "unique", "workspace", "key"}

AccountOK(r) ==
  /\ account[r] \in Owned(ask[r].email)
  /\ ask[r].kind # "google" => /\ ask[account[r]].kind = "sign_up"
                               /\ ask[account[r]].password = ask[r].password

\* What a request may be at a place for.
KindOK(r) ==
  /\ at[r] \in {"account", "name", "tenant", "finalize", "workspaces"} => IsSession(r)
  /\ at[r] \in {"name", "tenant"} => ask[r].kind # "sign_in"
  /\ at[r] = "finalize" => ask[r].kind = "google" /\ account[r] = r
  /\ at[r] \in {"stamp", "row", "rename", "revoke", "subscription"} => ~IsSession(r)
  /\ at[r] = "rename" => ask[r].kind = "rename"
  /\ at[r] = "workspace" => ask[r].kind # "rename"
  /\ ask[r].kind = "revoke" => at[r] \in {"idle", "stamp", "row", "revoke", "done"}
  /\ answer[r] # None => at[r] = "done"

\* A request has no row before the commit that inserts it.
RowsOK(r) ==
  /\ at[r] \in {"idle", "account", "name", "tenant"} => tenantName[r] = None
  /\ at[r] \notin {"key", "done"} => workspaces[r] = None
  /\ at[r] # "done" => keys[r] = None

\* What it found when it arrived, and that it was alone with its address.
BeforeOK(r) ==
  /\ before[r] \subseteq TenantRows \cup WorkspaceRows
  /\ at[r] \in {"name", "tenant"} =>
       \A t \in Owned(ask[r].email) : <<t, "tenant">> \notin before[r]

\* The row of a key as it was read when the key was valid.
ReadValid(r) == chosen[r].was \in Stamps /\ chosen[r].was.revoked_at = None

\* What it has chosen.
ChosenOK(r) ==
  /\ at[r] = "tenant" => chosen[r] \in Names
  /\ ask[r].kind # "rename" /\ at[r] \in {"unique", "workspace"} => chosen[r] \in Names
  /\ ask[r].kind = "rename" /\ at[r] \in {"unique", "rename"} =>
       /\ chosen[r].row \in WorkspacesOf(account[r])
       /\ chosen[r].was.name \in Names /\ chosen[r].was.slug \in Names
  /\ at[r] = "stamp" \/ (at[r] = "row" /\ ask[r].kind = "revoke") =>
       chosen[r].row = with[r] /\ ReadValid(r)
  /\ at[r] = "revoke" =>
       chosen[r].row \in Issued /\ keys[chosen[r].row] = account[r] /\ ReadValid(r)

Lands(r) == chosen[r] \in WorkspacesOf(account[r]) \/ (ask[r].kind = "google" /\ account[r] = r)

SessionOK(r) ==
  IsSession(r) =>
    /\ with[r] = None
    /\ at[r] \in Admitted => AccountOK(r)
    /\ at[r] = "key" => Lands(r)
    /\ at[r] = "done" /\ answer[r] = "answered" =>
         AccountOK(r) /\ Lands(r) /\ keys[r] = account[r]

KeyedOK(r) ==
  /\ at[r] = "idle" => with[r] = None
  /\ ~IsSession(r) /\ at[r] \notin {"idle", "done"} =>
       with[r] \in Issued /\ account[r] = keys[with[r]] /\ account[r] \in Tenants

RequestOK(r) ==
  KindOK(r) /\ RowsOK(r) /\ BeforeOK(r) /\ ChosenOK(r) /\ SessionOK(r) /\ KeyedOK(r)

Types == TypeOK /\ DOMAIN chosen = Requests /\ \A k \in Issued : keys[k] \in Tenants

IInv == Types /\ TwinsRaced /\ \A r \in Requests : RequestOK(r)
\* What a step of request r leaves alone: the other requests, and the rows there are.
Grows ==
  /\ \A t \in Requests : tenantName[t] # None => tenantName'[t] = tenantName[t]
  /\ \A w \in Requests : workspaces[w] # None =>
       workspaces'[w] # None /\ workspaces'[w].tenant = workspaces[w].tenant
  /\ \A k \in Requests : keys[k] # None => keys'[k] = keys[k]

Same(q) ==
  /\ at'[q] = at[q] /\ account'[q] = account[q] /\ chosen'[q] = chosen[q]
  /\ with'[q] = with[q] /\ answer'[q] = answer[q] /\ before'[q] = before[q]
  /\ tenantName'[q] = tenantName[q] /\ keys'[q] = keys[q]
  /\ workspaces[q] = None => workspaces'[q] = None

Frame(r) == ask' = ask /\ Grows /\ \A q \in Requests \ {r} : Same(q)

-----------------------------------------------------------------------------
LEMMA AskFacts ==
  ASSUME Types, NEW r \in Requests
  PROVE  /\ ask[r].kind \in Sessions \cup Keyed
         /\ ask[r].name \in Words /\ ask[r].workspace \in Names /\ ask[r].slug \in Names
         /\ ask[r].patch \subseteq {"name", "slug"}
<1>1. ask[r] \in Asks
  BY ScenariosAssumption DEF Types, TypeOK
<1> QED
  BY <1>1 DEF Asks

LEMMA NoneFacts == None \notin Requests /\ None \notin Names
  BY RequestsAssumption

\* Rows that stay where they are keep what is said about them.
LEMMA GrowthFacts ==
  ASSUME Grows, ask' = ask
  PROVE  /\ Tenants \subseteq Tenants' /\ Issued \subseteq Issued'
         /\ \A q \in Requests : Owned(ask[q].email) \subseteq Owned(ask[q].email)'
         /\ \A t : WorkspacesOf(t) \subseteq {w \in Requests : workspaces'[w] # None
                                                /\ workspaces'[w].tenant = t}
         /\ TenantRows \subseteq TenantRows' /\ WorkspaceRows \subseteq WorkspaceRows'
<1>1. Tenants \subseteq Tenants' /\ Issued \subseteq Issued'
  BY DEF Grows, Tenants, Issued
<1>2. \A q \in Requests : Owned(ask[q].email) \subseteq Owned(ask[q].email)'
  BY <1>1 DEF Owned
<1>3. ASSUME NEW t, NEW w \in WorkspacesOf(t)
      PROVE  w \in Requests /\ workspaces'[w] # None /\ workspaces'[w].tenant = t
  BY <1>3 DEF Grows, WorkspacesOf
<1>4. TenantRows \subseteq TenantRows'
  BY <1>1 DEF TenantRows
<1>5. WorkspaceRows \subseteq WorkspaceRows'
  BY DEF Grows, WorkspaceRows
<1> QED
  BY <1>1, <1>2, <1>3, <1>4, <1>5

\* The invariants of a request are not disturbed by the steps of another.
LEMMA OthersOK ==
  ASSUME IInv, NEW r \in Requests, NEW q \in Requests, q # r, Frame(r), Types'
  PROVE  RequestOK(q)'
<1>1. RequestOK(q) /\ Same(q) /\ Grows /\ ask' = ask
  BY DEF IInv, Frame
<1>2. /\ Tenants \subseteq Tenants' /\ Issued \subseteq Issued'
      /\ Owned(ask[q].email) \subseteq Owned(ask[q].email)'
      /\ \A t : WorkspacesOf(t) \subseteq {w \in Requests : workspaces'[w] # None
                                             /\ workspaces'[w].tenant = t}
      /\ TenantRows \subseteq TenantRows' /\ WorkspaceRows \subseteq WorkspaceRows'
  BY <1>1, GrowthFacts
<1>3. WorkspacesOf(account[q]) \subseteq WorkspacesOf(account[q])'
  BY <1>1, <1>2 DEF WorkspacesOf, Same
<1>4. KindOK(q)' /\ RowsOK(q)'
  BY <1>1 DEF RequestOK, KindOK, RowsOK, Same, IsSession
<1>5. BeforeOK(q)'
  <2>1. before'[q] \subseteq TenantRows' \cup WorkspaceRows'
    BY <1>1, <1>2 DEF RequestOK, BeforeOK, Same
  <2>2. ASSUME at[q] \in {"name", "tenant"}, NEW t \in Owned(ask[q].email)'
        PROVE  <<t, "tenant">> \notin before'[q]
    <3>1. CASE t \in Owned(ask[q].email)
      BY <1>1, <2>2, <3>1 DEF RequestOK, BeforeOK, Same
    <3>2. CASE t \notin Owned(ask[q].email)
      <4>1. t \notin Tenants
        BY <1>1, <2>2, <3>2 DEF Owned, Tenants
      <4>2. <<t, "tenant">> \notin TenantRows \cup WorkspaceRows
        BY <4>1 DEF TenantRows, WorkspaceRows
      <4> QED
        BY <1>1, <4>2 DEF RequestOK, BeforeOK, Same
    <3> QED
      BY <3>1, <3>2
  <2> QED
    BY <1>1, <2>1, <2>2 DEF BeforeOK, Same
<1>6. ChosenOK(q)'
  <2>1. at[q] = "revoke" => chosen[q].row \in Issued /\ keys[chosen[q].row] = account[q]
    BY <1>1 DEF RequestOK, ChosenOK
  <2>2. at[q] = "revoke" => chosen[q].row \in Issued' /\ keys'[chosen[q].row] = account[q]
    BY <1>1, <1>2, <2>1 DEF Issued, Grows
  <2>3. /\ ask[q].kind = "rename" /\ at[q] \in {"unique", "rename"} =>
             /\ chosen[q].row \in WorkspacesOf(account[q])'
             /\ chosen[q].was.name \in Names /\ chosen[q].was.slug \in Names
    BY <1>1, <1>3 DEF RequestOK, ChosenOK
  <2>4. ReadValid(q) => ReadValid(q)'
    BY <1>1 DEF ReadValid, Same
  <2> QED
    BY <1>1, <2>2, <2>3, <2>4 DEF RequestOK, ChosenOK, Same, WorkspacesOf
<1>7. SessionOK(q)'
  <2>1. AccountOK(q) => AccountOK(q)'
    BY <1>1, <1>2 DEF AccountOK, Same
  <2>2. Lands(q) => Lands(q)'
    BY <1>1, <1>3 DEF Lands, Same, WorkspacesOf
  <2> QED
    BY <1>1, <2>1, <2>2 DEF RequestOK, SessionOK, Same, IsSession
<1>8. KeyedOK(q)'
  <2>1. with[q] \in Issued => with[q] \in Issued' /\ keys'[with[q]] = keys[with[q]]
    BY <1>1, <1>2 DEF Issued, Grows
  <2> QED
    BY <1>1, <1>2, <2>1 DEF RequestOK, KeyedOK, Same, IsSession
<1> QED
  BY <1>4, <1>5, <1>6, <1>7, <1>8 DEF RequestOK

LEMMA StepOK ==
  ASSUME IInv, NEW r \in Requests, Frame(r), Types', RequestOK(r)', TwinsRaced'
  PROVE  IInv'
<1>1. \A q \in Requests : RequestOK(q)'
  BY OthersOK
<1> QED
  BY <1>1 DEF IInv

LEMMA TwinsKept ==
  ASSUME IInv, UNCHANGED <<ask, tenantName, before>>
  PROVE  TwinsRaced'
  BY DEF IInv, TwinsRaced, Tenants

\* A request that has its response, other than a session's success.
LEMMA DoneOK ==
  ASSUME IInv, NEW r \in Requests, Grows, ask' = ask,
         at'[r] = "done", with'[r] = with[r], before'[r] = before[r],
         IsSession(r) => answer'[r] # "answered"
  PROVE  RequestOK(r)'
<1>1. RequestOK(r)
  BY DEF IInv
<1>2. before'[r] \subseteq TenantRows' \cup WorkspaceRows'
  BY <1>1, GrowthFacts DEF RequestOK, BeforeOK
<1>3. KindOK(r)' /\ RowsOK(r)' /\ ChosenOK(r)' /\ KeyedOK(r)'
  BY DEF KindOK, RowsOK, ChosenOK, KeyedOK
<1>4. SessionOK(r)'
  BY <1>1 DEF RequestOK, SessionOK, Admitted, IsSession
<1> QED
  BY <1>2, <1>3, <1>4 DEF RequestOK, BeforeOK

-----------------------------------------------------------------------------
LEMMA GoFacts ==
  ASSUME Types, NEW r \in Requests, NEW place \in Places, Go(r, place)
  PROVE  /\ UNCHANGED <<ask, with, answer, before>>
         /\ at' \in [Requests -> Places] /\ at'[r] = place
         /\ \A q \in Requests \ {r} : at'[q] = at[q]
  BY DEF Types, TypeOK, Go

LEMMA RespondFacts ==
  ASSUME Types, NEW r \in Requests, NEW response \in Responses, Respond(r, response)
  PROVE  /\ UNCHANGED <<ask, with, before>>
         /\ at' \in [Requests -> Places] /\ at'[r] = "done"
         /\ answer' \in [Requests -> Responses \cup {None}] /\ answer'[r] = response
         /\ \A q \in Requests \ {r} : at'[q] = at[q] /\ answer'[q] = answer[q]
  BY DEF Types, TypeOK, Respond, Places

LEMMA ChooseFacts ==
  ASSUME DOMAIN chosen = Requests, NEW r \in Requests, NEW c,
         chosen' = [chosen EXCEPT ![r] = c]
  PROVE  /\ DOMAIN chosen' = Requests /\ chosen'[r] = c
         /\ \A q \in Requests \ {r} : chosen'[q] = chosen[q]
  OBVIOUS

\* A step that inserts no row and changes no workspace.
LEMMA QuietFrame ==
  ASSUME UNCHANGED <<ask, tenantName, workspaces, keys>>, NEW r \in Requests,
         \A q \in Requests \ {r} :
           /\ at'[q] = at[q] /\ account'[q] = account[q] /\ chosen'[q] = chosen[q]
           /\ with'[q] = with[q] /\ answer'[q] = answer[q] /\ before'[q] = before[q]
  PROVE  Frame(r) /\ Grows
  BY DEF Frame, Grows, Same

LEMMA InitIInv == Init => IInv
<1> SUFFICES ASSUME Init PROVE IInv
  OBVIOUS
<1>1. ask \in [Requests -> Asks]
  BY ScenariosAssumption DEF Init
<1>2. Tenants = {} /\ Issued = {}
  BY DEF Init, Tenants, Issued
<1>3. Types
  BY <1>2 DEF Init, Types, TypeOK, Places, Issued, Stamps
<1>4. TwinsRaced
  BY <1>2 DEF TwinsRaced
<1>5. ASSUME NEW r \in Requests PROVE RequestOK(r)
  BY DEF Init, RequestOK, KindOK, RowsOK, BeforeOK, ChosenOK, SessionOK, KeyedOK, Admitted
<1> QED
  BY <1>3, <1>4, <1>5 DEF IInv
\* A step that only lets a request fail or refuses it.
LEMMA GivesUp ==
  ASSUME IInv, NEW r \in Requests, NEW response \in {"failed", "refused"},
         Respond(r, response), UNCHANGED rows,
         account' \in [Requests -> Requests \cup {None}],
         \A q \in Requests \ {r} : account'[q] = account[q],
         DOMAIN chosen' = Requests, \A q \in Requests \ {r} : chosen'[q] = chosen[q],
         faulted' \subseteq Requests
  PROVE  IInv'
<1>1. Types
  BY DEF IInv
<1>2. /\ UNCHANGED <<ask, with, before>>
      /\ at' \in [Requests -> Places] /\ at'[r] = "done"
      /\ answer' \in [Requests -> Responses \cup {None}] /\ answer'[r] = response
      /\ \A q \in Requests \ {r} : at'[q] = at[q] /\ answer'[q] = answer[q]
  BY <1>1, RespondFacts DEF Responses
<1>3. Types'
  BY <1>1, <1>2 DEF Types, TypeOK, rows, Issued, Tenants
<1>4. Frame(r) /\ Grows
  BY <1>2, QuietFrame DEF rows
<1>5. RequestOK(r)'
  <2>1. response # "answered"
    OBVIOUS
  <2> QED
    BY <1>2, <1>4, <2>1, DoneOK
<1>6. TwinsRaced'
  BY <1>2, TwinsKept DEF rows
<1> QED
  BY <1>3, <1>4, <1>5, <1>6, StepOK

LEMMA CommitFailsIInv == ASSUME IInv, NEW r \in Requests, CommitFails(r) PROVE IInv'
<1>1. /\ Respond(r, "failed") /\ UNCHANGED <<rows, account, chosen>>
      /\ faulted' = faulted \cup {r}
  BY DEF CommitFails, progress
<1>2. /\ DOMAIN chosen = Requests /\ faulted \subseteq Requests
      /\ account \in [Requests -> Requests \cup {None}]
  BY DEF IInv, Types, TypeOK
<1> QED
  BY <1>1, <1>2, GivesUp

\* A step that lets a request go on and writes no more than when a key was used or revoked.
LEMMA GoesOnStamping ==
  ASSUME IInv, NEW r \in Requests, NEW place \in Places, Go(r, place),
         UNCHANGED <<tenantName, workspaces, keys, subscriptions, faulted>>,
         stamps' \in [Requests -> Stamps],
         account' \in [Requests -> Requests \cup {None}],
         \A q \in Requests \ {r} : account'[q] = account[q],
         DOMAIN chosen' = Requests, \A q \in Requests \ {r} : chosen'[q] = chosen[q],
         at'[r] = place => RequestOK(r)'
  PROVE  IInv'
<1>1. Types
  BY DEF IInv
<1>2. /\ UNCHANGED <<ask, with, answer, before>>
      /\ at' \in [Requests -> Places] /\ at'[r] = place
      /\ \A q \in Requests \ {r} : at'[q] = at[q]
  BY <1>1, GoFacts
<1>3. Types'
  BY <1>1, <1>2 DEF Types, TypeOK, Issued, Tenants
<1>4. Frame(r)
  BY <1>2, QuietFrame
<1>5. TwinsRaced'
  BY <1>2, TwinsKept
<1> QED
  BY <1>2, <1>3, <1>4, <1>5, StepOK

\* A step that writes no row and lets a request go on.
LEMMA GoesOn ==
  ASSUME IInv, NEW r \in Requests, NEW place \in Places, Go(r, place), UNCHANGED <<rows, faulted>>,
         account' \in [Requests -> Requests \cup {None}],
         \A q \in Requests \ {r} : account'[q] = account[q],
         DOMAIN chosen' = Requests, \A q \in Requests \ {r} : chosen'[q] = chosen[q],
         at'[r] = place => RequestOK(r)'
  PROVE  IInv'
<1>1. UNCHANGED <<tenantName, workspaces, keys, subscriptions, faulted>>
  BY DEF rows
<1>2. stamps' \in [Requests -> Stamps]
  BY DEF rows, IInv, Types, TypeOK
<1> QED
  BY <1>1, <1>2, GoesOnStamping

\* An arrival.
LEMMA Arrives ==
  ASSUME IInv, NEW r \in Requests, Arrived(r),
         account' \in [Requests -> Requests \cup {None}],
         with' \in [Requests -> Requests \cup {None}],
         at' \in [Requests -> Places], answer' \in [Requests -> Responses \cup {None}],
         DOMAIN chosen' = Requests,
         \A q \in Requests \ {r} :
           /\ account'[q] = account[q] /\ with'[q] = with[q] /\ chosen'[q] = chosen[q]
           /\ at'[q] = at[q] /\ answer'[q] = answer[q],
         KindOK(r)', ChosenOK(r)', SessionOK(r)', KeyedOK(r)', at'[r] \notin {"name", "tenant"}
  PROVE  IInv'
<1>1. /\ Types /\ RequestOK(r) /\ TwinsRaced
      /\ at[r] = "idle" /\ before' = [before EXCEPT ![r] = TenantRows \cup WorkspaceRows]
      /\ UNCHANGED <<ask, rows, faulted>>
  BY DEF IInv, Arrived
<1>2. TenantRows \cup WorkspaceRows \subseteq Requests \X {"tenant", "workspace"}
  BY DEF TenantRows, WorkspaceRows, Tenants
<1>3. /\ before' \in [Requests -> SUBSET (Requests \X {"tenant", "workspace"})]
      /\ before'[r] = TenantRows \cup WorkspaceRows
      /\ \A q \in Requests \ {r} : before'[q] = before[q]
  BY <1>1, <1>2 DEF Types, TypeOK
<1>4. Types'
  BY <1>1, <1>3 DEF Types, TypeOK, rows, Issued, Tenants
<1>5. Frame(r)
  BY <1>1, <1>3, QuietFrame DEF rows
<1>6. TwinsRaced'
  <2>1. r \notin Tenants
    BY <1>1 DEF RequestOK, RowsOK, Tenants
  <2> QED
    BY <1>1, <1>3, <2>1 DEF TwinsRaced, rows, Tenants
<1>7. BeforeOK(r)'
  BY <1>1, <1>3 DEF BeforeOK, rows, TenantRows, WorkspaceRows, Tenants
<1>8. RowsOK(r)'
  BY <1>1 DEF RequestOK, RowsOK, rows
<1>9. RequestOK(r)'
  BY <1>7, <1>8 DEF RequestOK
<1> QED
  BY <1>4, <1>5, <1>6, <1>9, StepOK

LEMMA ArriveSessionIInv == ASSUME IInv, NEW r \in Requests, ArriveSession(r) PROVE IInv'
<1>1. /\ Types /\ RequestOK(r) /\ IsSession(r) /\ Arrived(r) /\ at[r] = "idle" /\ ask' = ask
      /\ at' = [at EXCEPT ![r] = "account"] /\ UNCHANGED <<account, chosen, with, answer>>
  BY DEF IInv, ArriveSession, Arrived
<1>2. /\ at' \in [Requests -> Places] /\ at'[r] = "account"
      /\ \A q \in Requests \ {r} : at'[q] = at[q]
  BY <1>1 DEF Types, TypeOK, Places
<1>3. KindOK(r)' /\ ChosenOK(r)' /\ SessionOK(r)' /\ KeyedOK(r)'
  BY <1>1, <1>2 DEF RequestOK, KindOK, ChosenOK, SessionOK, KeyedOK, IsSession, Admitted, Sessions
<1> QED
  BY <1>1, <1>2, <1>3, Arrives DEF Types, TypeOK

LEMMA ArriveKeyedIInv == ASSUME IInv, NEW r \in Requests, ArriveKeyed(r) PROVE IInv'
<1>1. /\ Types /\ RequestOK(r) /\ ~IsSession(r) /\ Arrived(r) /\ at[r] = "idle" /\ UNCHANGED <<ask, rows>>
      /\ answer[r] = None
  BY DEF IInv, ArriveKeyed, Arrived, RequestOK, KindOK
<1>2. PICK k \in Requests :
        /\ with' = [with EXCEPT ![r] = k]
        /\ IF k \in Issued /\ ~Revoked(k)
           THEN /\ account' = [account EXCEPT ![r] = keys[k]]
                /\ chosen' = [chosen EXCEPT ![r] = [row |-> k, was |-> stamps[k]]]
                /\ at' = [at EXCEPT ![r] = "stamp"]
                /\ UNCHANGED answer
           ELSE /\ at' = [at EXCEPT ![r] = "done"]
                /\ answer' = [answer EXCEPT ![r] = "refused"]
                /\ UNCHANGED <<account, chosen>>
  BY DEF ArriveKeyed
<1>3. /\ with' \in [Requests -> Requests \cup {None}] /\ with'[r] = k
      /\ \A q \in Requests \ {r} : with'[q] = with[q]
  BY <1>1, <1>2 DEF Types, TypeOK
<1>4. SessionOK(r)'
  BY <1>1 DEF SessionOK, IsSession
<1>5. CASE k \in Issued /\ ~Revoked(k)
  <2>1. keys[k] \in Requests /\ keys[k] \in Tenants
    BY <1>1, <1>5 DEF Types, Tenants
  <2>2. /\ account' \in [Requests -> Requests \cup {None}] /\ account'[r] = keys[k]
        /\ \A q \in Requests \ {r} : account'[q] = account[q]
    BY <1>1, <1>2, <1>5, <2>1 DEF Types, TypeOK
  <2>3. /\ at' \in [Requests -> Places] /\ at'[r] = "stamp" /\ UNCHANGED answer
        /\ \A q \in Requests \ {r} : at'[q] = at[q]
    BY <1>1, <1>2, <1>5 DEF Types, TypeOK, Places, Commits
  <2>4. /\ DOMAIN chosen' = Requests /\ chosen'[r] = [row |-> k, was |-> stamps[k]]
        /\ \A q \in Requests \ {r} : chosen'[q] = chosen[q]
    BY <1>1, <1>2, <1>5, ChooseFacts DEF Types
  <2>5. KindOK(r)' /\ KeyedOK(r)'
    BY <1>1, <1>3, <1>5, <2>1, <2>2, <2>3
       DEF KindOK, KeyedOK, IsSession, rows, Issued, Tenants
  <2>6. ChosenOK(r)'
    <3>1. stamps[k] \in Stamps /\ stamps[k].revoked_at = None
      BY <1>1, <1>5 DEF Types, TypeOK, Revoked
    <3> QED
      BY <1>3, <2>3, <2>4, <3>1 DEF ChosenOK, ReadValid
  <2> QED
    BY <1>1, <1>3, <1>4, <2>2, <2>3, <2>4, <2>5, <2>6, Arrives DEF Types, TypeOK
<1>6. CASE ~(k \in Issued /\ ~Revoked(k))
  <2>1. /\ at' \in [Requests -> Places] /\ at'[r] = "done" /\ UNCHANGED <<account, chosen>>
        /\ \A q \in Requests \ {r} : at'[q] = at[q]
    BY <1>1, <1>2, <1>6 DEF Types, TypeOK, Places
  <2>2. /\ answer' \in [Requests -> Responses \cup {None}]
        /\ \A q \in Requests \ {r} : answer'[q] = answer[q]
    BY <1>1, <1>2, <1>6 DEF Types, TypeOK, Responses
  <2>3. KindOK(r)' /\ ChosenOK(r)' /\ KeyedOK(r)'
    BY <2>1 DEF KindOK, ChosenOK, KeyedOK
  <2> QED
    BY <1>1, <1>3, <1>4, <2>1, <2>2, <2>3, Arrives DEF Types, TypeOK
<1> QED
  BY <1>5, <1>6

-----------------------------------------------------------------------------
LEMMA FindAccountIInv == ASSUME IInv, NEW r \in Requests, FindAccount(r) PROVE IInv'
<1>1. /\ Types /\ RequestOK(r) /\ at[r] = "account" /\ IsSession(r)
      /\ UNCHANGED <<rows, chosen, faulted>>
  BY DEF IInv, FindAccount, Step, RequestOK, KindOK
<1>2. DOMAIN chosen' = Requests /\ (\A q \in Requests \ {r} : chosen'[q] = chosen[q])
      /\ faulted' \subseteq Requests
  BY <1>1 DEF Types, TypeOK
<1>3. CASE Respond(r, "failed") /\ UNCHANGED account
  BY <1>1, <1>2, <1>3, GivesUp DEF Types, TypeOK
<1>4. CASE Respond(r, "refused") /\ UNCHANGED account
  BY <1>1, <1>2, <1>4, GivesUp DEF Types, TypeOK
<1>5. CASE Found(r) = {} /\ ask[r].kind # "sign_in" /\ Go(r, "name") /\ UNCHANGED account
  <2>1. UNCHANGED <<ask, with, answer, before>>
    BY <1>5 DEF Go
  <2>2. Owned(ask[r].email) = {}
    BY <1>5 DEF Found
  <2>3. ASSUME at'[r] = "name" PROVE RequestOK(r)'
    <3>1. KindOK(r)' /\ RowsOK(r)' /\ ChosenOK(r)' /\ SessionOK(r)' /\ KeyedOK(r)'
      BY <1>1, <1>5, <2>1, <2>3
         DEF RequestOK, KindOK, RowsOK, ChosenOK, SessionOK, KeyedOK, IsSession, rows, Admitted
    <3>2. BeforeOK(r)'
      BY <1>1, <2>1, <2>2 DEF RequestOK, BeforeOK, rows, Owned, Tenants, TenantRows, WorkspaceRows
    <3> QED
      BY <3>1, <3>2 DEF RequestOK
  <2> QED
    BY <1>1, <1>2, <1>5, <2>3, GoesOn DEF Places, Types, TypeOK
<1>6. ASSUME NEW t \in Requests, Found(r) = {t}, account' = [account EXCEPT ![r] = t],
             IF \/ ask[r].kind = "google"
                \/ ask[r].kind = "sign_in" /\ PasswordIs(t, r)
             THEN Go(r, "workspaces")
             ELSE Respond(r, "refused")
      PROVE  IInv'
  <2>1. /\ account' \in [Requests -> Requests \cup {None}] /\ account'[r] = t
        /\ \A q \in Requests \ {r} : account'[q] = account[q]
    BY <1>1, <1>6 DEF Types, TypeOK
  <2>2. CASE Respond(r, "refused")
    BY <1>1, <1>2, <2>1, <2>2, GivesUp
  <2>3. CASE /\ Go(r, "workspaces")
             /\ \/ ask[r].kind = "google"
                \/ ask[r].kind = "sign_in" /\ PasswordIs(t, r)
    <3>1. UNCHANGED <<ask, with, answer, before>>
      BY <2>3 DEF Go
    <3>2. t \in Owned(ask[r].email)'
      BY <1>1, <1>6, <3>1 DEF Found, Owned, Tenants, rows
    <3>3. ASSUME at'[r] = "workspaces" PROVE RequestOK(r)'
      <4>1. AccountOK(r)'
        BY <2>1, <2>3, <3>1, <3>2 DEF AccountOK, PasswordIs
      <4>2. KindOK(r)' /\ RowsOK(r)' /\ ChosenOK(r)' /\ SessionOK(r)' /\ KeyedOK(r)'
        BY <1>1, <3>1, <3>3, <4>1
           DEF RequestOK, KindOK, RowsOK, ChosenOK, SessionOK, KeyedOK, IsSession, rows
      <4>3. BeforeOK(r)'
        BY <1>1, <3>1, <3>3 DEF RequestOK, BeforeOK, rows, Tenants, TenantRows, WorkspaceRows
      <4> QED
        BY <4>2, <4>3 DEF RequestOK
    <3> QED
      BY <1>1, <1>2, <2>1, <2>3, <3>3, GoesOn DEF Places
  <2> QED
    BY <1>6, <2>2, <2>3
<1> QED
  BY <1>3, <1>4, <1>5, <1>6 DEF FindAccount
LEMMA NameTenantIInv == ASSUME IInv, NEW r \in Requests, NameTenant(r) PROVE IInv'
<1>1. /\ Types /\ RequestOK(r) /\ at[r] = "name" /\ Go(r, "tenant")
      /\ UNCHANGED <<account, rows, faulted>>
  BY DEF IInv, NameTenant, Step
<1>2. PICK n \in Names : chosen' = [chosen EXCEPT ![r] = n]
  BY DEF NameTenant, FreeNames
<1>3. /\ DOMAIN chosen' = Requests /\ chosen'[r] = n
      /\ \A q \in Requests \ {r} : chosen'[q] = chosen[q]
  BY <1>1, <1>2, ChooseFacts DEF Types
<1>4. UNCHANGED <<ask, with, answer, before>>
  BY <1>1 DEF Go
<1>5. ASSUME at'[r] = "tenant" PROVE RequestOK(r)'
  <2>1. KindOK(r)' /\ RowsOK(r)' /\ ChosenOK(r)' /\ SessionOK(r)' /\ KeyedOK(r)'
    BY <1>1, <1>3, <1>4, <1>5
       DEF RequestOK, KindOK, RowsOK, ChosenOK, SessionOK, KeyedOK, IsSession, rows, Admitted
  <2>2. BeforeOK(r)'
    BY <1>1, <1>4, <1>5
       DEF RequestOK, BeforeOK, rows, Owned, Tenants, TenantRows, WorkspaceRows
  <2> QED
    BY <2>1, <2>2 DEF RequestOK
<1> QED
  BY <1>1, <1>3, <1>5, GoesOn DEF Places, Commits, Types, TypeOK

LEMMA CommitTenantIInv == ASSUME IInv, NEW r \in Requests, CommitTenant(r) PROVE IInv'
<1>1. /\ Types /\ RequestOK(r) /\ TwinsRaced /\ at[r] = "tenant" /\ IsSession(r)
      /\ ask[r].kind # "sign_in" /\ chosen[r] \in Names /\ tenantName[r] = None
      /\ UNCHANGED <<chosen, workspaces, keys, stamps, subscriptions, faulted>>
  BY DEF IInv, CommitTenant, Step, RequestOK, KindOK, ChosenOK, RowsOK
<1>2. CASE chosen[r] \in Taken
  <2>1. Respond(r, "failed") /\ UNCHANGED <<account, tenantName>>
    BY <1>2 DEF CommitTenant
  <2> QED
    BY <1>1, <2>1, GivesUp DEF Types, TypeOK, rows
<1>3. CASE chosen[r] \notin Taken
  <2> DEFINE place == IF ask[r].kind = "google" THEN "finalize" ELSE "workspaces"
  <2>1. /\ tenantName' = [tenantName EXCEPT ![r] = chosen[r]]
        /\ account' = [account EXCEPT ![r] = r] /\ Go(r, place)
    BY <1>3 DEF CommitTenant
  <2>2. /\ UNCHANGED <<ask, with, answer, before>>
        /\ at' \in [Requests -> Places] /\ at'[r] = place
        /\ \A q \in Requests \ {r} : at'[q] = at[q]
    <3>1. place \in Places
      BY DEF Places, Commits
    <3> QED
      BY <1>1, <2>1, <3>1, GoFacts
  <2>3. /\ tenantName' \in [Requests -> Names \cup {None}] /\ tenantName'[r] = chosen[r]
        /\ \A q \in Requests \ {r} : tenantName'[q] = tenantName[q]
    BY <1>1, <2>1 DEF Types, TypeOK
  <2>4. /\ account' \in [Requests -> Requests \cup {None}] /\ account'[r] = r
        /\ \A q \in Requests \ {r} : account'[q] = account[q]
    BY <1>1, <2>1 DEF Types, TypeOK
  <2>5. Tenants' = Tenants \cup {r} /\ r \notin Tenants
    BY <1>1, <2>3, NoneFacts DEF Tenants
  <2>6. Types'
    BY <1>1, <2>2, <2>3, <2>4, <2>5 DEF Types, TypeOK, Issued
  <2>7. Frame(r)
    BY <1>1, <2>2, <2>3, <2>4 DEF Frame, Grows, Same
  <2>8. BeforeOK(r)'
    <3>1. before'[r] \subseteq TenantRows' \cup WorkspaceRows'
      BY <1>1, <2>2, <2>7, GrowthFacts DEF RequestOK, BeforeOK, Frame
    <3> QED
      BY <2>2, <3>1 DEF BeforeOK
  <2>9. r \in Owned(ask[r].email)'
    BY <2>2, <2>5 DEF Owned
  <2>10. AccountOK(r)'
    <3>1. ask[r].kind # "google" => ask[r].kind = "sign_up"
      BY <1>1 DEF IsSession, Sessions
    <3> QED
      BY <2>2, <2>4, <2>9, <3>1 DEF AccountOK
  <2>11. KindOK(r)' /\ RowsOK(r)' /\ ChosenOK(r)' /\ SessionOK(r)' /\ KeyedOK(r)'
    BY <1>1, <2>2, <2>4, <2>10
       DEF RequestOK, KindOK, RowsOK, ChosenOK, SessionOK, KeyedOK, IsSession
  <2>12. TwinsRaced'
    <3> SUFFICES ASSUME NEW t \in Tenants', NEW u \in Tenants', t # u,
                        ask[t].email = ask[u].email
                 PROVE  <<t, "tenant">> \notin before[u]
      BY <2>2 DEF TwinsRaced
    <3>1. CASE t # r /\ u # r
      BY <1>1, <2>5, <3>1 DEF TwinsRaced
    <3>2. CASE t = r
      <4>1. u \in Requests
        BY DEF Tenants
      <4>2. before[u] \subseteq TenantRows \cup WorkspaceRows
        BY <4>1 DEF IInv, RequestOK, BeforeOK
      <4> QED
        BY <2>5, <3>2, <4>2 DEF TenantRows, WorkspaceRows
    <3>3. CASE u = r
      <4>1. t \in Owned(ask[r].email)
        BY <2>5, <3>3 DEF Owned
      <4> QED
        BY <1>1, <3>3, <4>1 DEF RequestOK, BeforeOK
    <3> QED
      BY <3>1, <3>2, <3>3
  <2> QED
    BY <2>6, <2>7, <2>8, <2>11, <2>12, StepOK DEF RequestOK
<1> QED
  BY <1>2, <1>3

LEMMA FinalizeGoogleIInv == ASSUME IInv, NEW r \in Requests, FinalizeGoogle(r) PROVE IInv'
<1>1. /\ Types /\ RequestOK(r) /\ at[r] = "finalize" /\ Go(r, "key")
      /\ chosen' = [chosen EXCEPT ![r] = None]
      /\ ask[r].kind = "google" /\ account[r] = r /\ IsSession(r) /\ AccountOK(r)
      /\ UNCHANGED <<account, rows, faulted>>
  BY DEF IInv, FinalizeGoogle, Step, RequestOK, KindOK, SessionOK, Admitted
<1>2. /\ DOMAIN chosen' = Requests /\ chosen'[r] = None
      /\ \A q \in Requests \ {r} : chosen'[q] = chosen[q]
  BY <1>1, ChooseFacts DEF Types
<1>3. UNCHANGED <<ask, with, answer, before>>
  BY <1>1 DEF Go
<1>4. ASSUME at'[r] = "key" PROVE RequestOK(r)'
  <2>1. AccountOK(r)' /\ Lands(r)'
    BY <1>1, <1>3 DEF AccountOK, Lands, Owned, Tenants, rows
  <2>2. KindOK(r)' /\ RowsOK(r)' /\ ChosenOK(r)' /\ SessionOK(r)' /\ KeyedOK(r)'
    BY <1>1, <1>3, <1>4, <2>1
       DEF RequestOK, KindOK, RowsOK, ChosenOK, SessionOK, KeyedOK, IsSession, rows
  <2>3. BeforeOK(r)'
    BY <1>1, <1>3, <1>4 DEF RequestOK, BeforeOK, rows, Tenants, TenantRows, WorkspaceRows
  <2> QED
    BY <2>2, <2>3 DEF RequestOK
<1> QED
  BY <1>1, <1>2, <1>4, GoesOn DEF Places, Commits, Types, TypeOK

LEMMA GetOrCreateWorkspaceIInv ==
  ASSUME IInv, NEW r \in Requests, GetOrCreateWorkspace(r)
  PROVE  IInv'
<1>1. /\ Types /\ RequestOK(r) /\ at[r] = "workspaces" /\ IsSession(r) /\ AccountOK(r)
      /\ UNCHANGED <<account, rows, faulted>>
  BY DEF IInv, GetOrCreateWorkspace, Step, RequestOK, KindOK, SessionOK, Admitted
<1>2. CASE Respond(r, "failed") /\ UNCHANGED chosen
  BY <1>1, <1>2, GivesUp DEF Types, TypeOK
<1>3. ASSUME NEW w \in WorkspacesOf(account[r]), chosen' = [chosen EXCEPT ![r] = w], Go(r, "key")
      PROVE  IInv'
  <2>1. /\ DOMAIN chosen' = Requests /\ chosen'[r] = w
        /\ \A q \in Requests \ {r} : chosen'[q] = chosen[q]
    BY <1>1, <1>3, ChooseFacts DEF Types
  <2>2. UNCHANGED <<ask, with, answer, before>>
    BY <1>3 DEF Go
  <2>3. ASSUME at'[r] = "key" PROVE RequestOK(r)'
    <3>1. AccountOK(r)' /\ Lands(r)'
      BY <1>1, <1>3, <2>1, <2>2 DEF AccountOK, Lands, Owned, Tenants, WorkspacesOf, rows
    <3>2. KindOK(r)' /\ RowsOK(r)' /\ ChosenOK(r)' /\ SessionOK(r)' /\ KeyedOK(r)'
      BY <1>1, <2>2, <2>3, <3>1
         DEF RequestOK, KindOK, RowsOK, ChosenOK, SessionOK, KeyedOK, IsSession, rows
    <3>3. BeforeOK(r)'
      BY <1>1, <2>2, <2>3 DEF RequestOK, BeforeOK, rows, Tenants, TenantRows, WorkspaceRows
    <3> QED
      BY <3>2, <3>3 DEF RequestOK
  <2> QED
    BY <1>1, <1>3, <2>1, <2>3, GoesOn DEF Places, Commits, Types, TypeOK
<1>4. ASSUME NEW n, chosen' = [chosen EXCEPT ![r] = n], Go(r, "unique"),
             n = IF ask[r].kind = "sign_up" THEN ask[r].workspace ELSE tenantName[account[r]]
      PROVE  IInv'
  <2>1. /\ DOMAIN chosen' = Requests /\ chosen'[r] = n
        /\ \A q \in Requests \ {r} : chosen'[q] = chosen[q]
    BY <1>1, <1>4, ChooseFacts DEF Types
  <2>2. UNCHANGED <<ask, with, answer, before>>
    BY <1>4 DEF Go
  <2>3. n \in Names
    <3>1. account[r] \in Requests /\ tenantName[account[r]] # None
      BY <1>1 DEF AccountOK, Owned, Tenants
    <3>2. tenantName[account[r]] \in Names
      BY <1>1, <3>1 DEF Types, TypeOK
    <3> QED
      BY <1>1, <1>4, <3>2, AskFacts
  <2>4. ask[r].kind # "rename"
    BY <1>1 DEF IsSession, Sessions
  <2>5. ASSUME at'[r] = "unique" PROVE RequestOK(r)'
    <3>1. AccountOK(r)'
      BY <1>1, <2>2 DEF AccountOK, Owned, Tenants, rows
    <3>2. KindOK(r)' /\ RowsOK(r)' /\ ChosenOK(r)' /\ SessionOK(r)' /\ KeyedOK(r)'
      BY <1>1, <2>1, <2>2, <2>3, <2>4, <2>5, <3>1
         DEF RequestOK, KindOK, RowsOK, ChosenOK, SessionOK, KeyedOK, IsSession, rows
    <3>3. BeforeOK(r)'
      BY <1>1, <2>2, <2>5 DEF RequestOK, BeforeOK, rows, Tenants, TenantRows, WorkspaceRows
    <3> QED
      BY <3>2, <3>3 DEF RequestOK
  <2> QED
    BY <1>1, <1>4, <2>1, <2>5, GoesOn DEF Places, Types, TypeOK
<1> QED
  BY <1>2, <1>3, <1>4 DEF GetOrCreateWorkspace

-----------------------------------------------------------------------------
\* What is left of a key's row when it is written.
LEMMA WrittenFacts ==
  ASSUME NEW row \in Stamps, NEW was \in Stamps, NEW wanted \in Stamps
  PROVE  /\ Written(row, was, wanted) \in Stamps
         /\ Written(row, was, wanted).revoked_at =
              IF wanted.revoked_at = was.revoked_at THEN row.revoked_at ELSE wanted.revoked_at
  BY DEF Written, Stamps

\* The stamp of a key that was valid when it was read leaves revoked_at alone.
LEMMA StampFacts ==
  ASSUME IInv, NEW r \in Requests, StampKey(r)
  PROVE  /\ [chosen[r].was EXCEPT !.last_used_at = r] \in Stamps
         /\ [chosen[r].was EXCEPT !.last_used_at = r].revoked_at = None
         /\ stamps' \in [Requests -> Stamps]
         /\ \A k \in Requests : stamps'[k].revoked_at = stamps[k].revoked_at
         /\ \A k \in Requests : k # with[r] => stamps'[k] = stamps[k]
         /\ with[r] \in Issued /\ account[r] = keys[with[r]]
<1> DEFINE k == with[r]
           was == chosen[r].was
           used == [was EXCEPT !.last_used_at = r]
           new == Written(stamps[k], was, used)
<1>1. /\ Types /\ at[r] = "stamp" /\ ~IsSession(r) /\ was \in Stamps /\ was.revoked_at = None
      /\ stamps' = [stamps EXCEPT ![k] = new]
  BY DEF IInv, RequestOK, KindOK, ChosenOK, ReadValid, StampKey, Step
<1>2. k \in Requests /\ k \in Issued /\ account[r] = keys[k]
  BY <1>1 DEF IInv, RequestOK, KeyedOK, Issued
<1>3. stamps[k] \in Stamps
  BY <1>1, <1>2 DEF Types, TypeOK
<1>4. used \in Stamps /\ used.revoked_at = None
  BY <1>1 DEF Stamps
<1> HIDE DEF used, was
<1>5. new \in Stamps /\ new.revoked_at = stamps[k].revoked_at
  BY <1>1, <1>3, <1>4, WrittenFacts
<1> HIDE DEF new, k
<1>6. /\ stamps' \in [Requests -> Stamps]
      /\ \A j \in Requests : stamps'[j] = IF j = k THEN new ELSE stamps[j]
  BY <1>1, <1>2, <1>5 DEF Types, TypeOK
<1> QED
  BY <1>2, <1>4, <1>5, <1>6 DEF used, was, k

LEMMA StampKeyIInv == ASSUME IInv, NEW r \in Requests, StampKey(r) PROVE IInv'
<1>1. /\ Types /\ RequestOK(r) /\ at[r] = "stamp" /\ ~IsSession(r)
      /\ UNCHANGED <<account, tenantName, workspaces, keys, subscriptions, faulted>>
      /\ stamps' \in [Requests -> Stamps]
  BY StampFacts DEF IInv, StampKey, Step, RequestOK, KindOK
<1> DEFINE used == [chosen[r].was EXCEPT !.last_used_at = r]
<1>2. ASSUME NEW place \in {"unique", "key", "row"}, Go(r, place),
             DOMAIN chosen' = Requests, \A q \in Requests \ {r} : chosen'[q] = chosen[q],
             place = "unique" => ask[r].kind # "rename" /\ chosen'[r] \in Names,
             place # "row" => ask[r].kind # "revoke",
             place = "row" => chosen'[r] = [row |-> with[r], was |-> used]
      PROVE  IInv'
  <2>1. UNCHANGED <<ask, with, answer, before>>
    BY <1>2 DEF Go
  <2>2. ASSUME at'[r] = place PROVE RequestOK(r)'
    <3>1. KindOK(r)' /\ RowsOK(r)' /\ SessionOK(r)'
      BY <1>1, <1>2, <2>1, <2>2 DEF RequestOK, KindOK, RowsOK, SessionOK, IsSession
    <3>2. ChosenOK(r)'
      <4>1. used \in Stamps /\ used.revoked_at = None
        BY StampFacts
      <4> HIDE DEF used
      <4> QED
        BY <1>1, <1>2, <2>1, <2>2, <4>1 DEF ChosenOK, ReadValid
    <3>3. KeyedOK(r)'
      BY <1>1, <1>2, <2>1, <2>2 DEF RequestOK, KeyedOK, IsSession, Issued, Tenants
    <3>4. BeforeOK(r)'
      BY <1>1, <1>2, <2>1, <2>2 DEF RequestOK, BeforeOK, Tenants, TenantRows, WorkspaceRows
    <3> QED
      BY <3>1, <3>2, <3>3, <3>4 DEF RequestOK
  <2> QED
    BY <1>1, <1>2, <2>2, GoesOnStamping DEF Places, Commits, Types, TypeOK
<1>3. CASE ask[r].kind = "workspace" /\ chosen' = [chosen EXCEPT ![r] = ask[r].workspace]
           /\ Go(r, "unique")
  <2>1. /\ DOMAIN chosen' = Requests /\ chosen'[r] \in Names
        /\ \A q \in Requests \ {r} : chosen'[q] = chosen[q]
    BY <1>1, <1>3, ChooseFacts, AskFacts DEF Types
  <2> QED
    BY <1>2, <1>3, <2>1
<1>4. CASE ask[r].kind = "key" /\ Go(r, "key") /\ UNCHANGED chosen
  BY <1>1, <1>2, <1>4 DEF Types
<1>5. CASE Go(r, "row") /\ chosen' = [chosen EXCEPT ![r] = [row |-> with[r], was |-> used]]
  <2>1. /\ DOMAIN chosen' = Requests /\ chosen'[r] = [row |-> with[r], was |-> used]
        /\ \A q \in Requests \ {r} : chosen'[q] = chosen[q]
    BY <1>1, <1>5, ChooseFacts DEF Types
  <2> QED
    BY <1>2, <1>5, <2>1
<1> QED
  BY <1>3, <1>4, <1>5 DEF StampKey

LEMMA FindWorkspaceToPatchIInv ==
  ASSUME IInv, NEW r \in Requests, FindWorkspaceToPatch(r)
  PROVE  IInv'
<1>1. /\ Types /\ RequestOK(r) /\ at[r] = "row" /\ ~IsSession(r) /\ ask[r].kind = "rename"
      /\ UNCHANGED <<account, rows, faulted>>
  BY DEF IInv, FindWorkspaceToPatch, Step, RequestOK, KindOK
<1>2. PICK w \in Requests :
        IF workspaces[w] # None /\ Visible(r, workspaces[w].tenant)
        THEN /\ chosen' = [chosen EXCEPT ![r] = [row |-> w, was |-> workspaces[w]]]
             /\ Go(r, "unique")
        ELSE Respond(r, "refused") /\ UNCHANGED chosen
  BY DEF FindWorkspaceToPatch
<1>3. CASE Respond(r, "refused") /\ UNCHANGED chosen
  BY <1>1, <1>3, GivesUp DEF Types, TypeOK
<1>4. CASE /\ workspaces[w] # None /\ workspaces[w].tenant = account[r] /\ Go(r, "unique")
           /\ chosen' = [chosen EXCEPT ![r] = [row |-> w, was |-> workspaces[w]]]
  <2>1. /\ DOMAIN chosen' = Requests /\ chosen'[r] = [row |-> w, was |-> workspaces[w]]
        /\ \A q \in Requests \ {r} : chosen'[q] = chosen[q]
    BY <1>1, <1>4, ChooseFacts DEF Types
  <2>2. UNCHANGED <<ask, with, answer, before>>
    BY <1>4 DEF Go
  <2>3. workspaces[w].name \in Names /\ workspaces[w].slug \in Names
    <3>1. workspaces[w] \in Workspace
      BY <1>1, <1>4 DEF Types, TypeOK
    <3> QED
      BY <3>1 DEF Workspace
  <2>4. w \in WorkspacesOf(account[r])
    BY <1>4 DEF WorkspacesOf
  <2>5. chosen'[r].row = w /\ chosen'[r].was = workspaces[w]
    BY <2>1
  <2>6. ASSUME at'[r] = "unique" PROVE RequestOK(r)'
    <3>1. KindOK(r)' /\ RowsOK(r)' /\ SessionOK(r)'
      BY <1>1, <2>2, <2>6 DEF RequestOK, KindOK, RowsOK, SessionOK, IsSession, rows
    <3>2. ChosenOK(r)'
      BY <1>1, <2>2, <2>3, <2>4, <2>5, <2>6 DEF ChosenOK, rows, WorkspacesOf
    <3>3. KeyedOK(r)'
      BY <1>1, <2>2, <2>6 DEF RequestOK, KeyedOK, IsSession, rows, Issued, Tenants
    <3>4. BeforeOK(r)'
      BY <1>1, <2>2, <2>6 DEF RequestOK, BeforeOK, rows, Tenants, TenantRows, WorkspaceRows
    <3> QED
      BY <3>1, <3>2, <3>3, <3>4 DEF RequestOK
  <2> QED
    BY <1>1, <1>4, <2>1, <2>6, GoesOn DEF Places, Types, TypeOK
<1> QED
  BY <1>2, <1>3, <1>4 DEF Visible

\* A keyed request that has what it asked for, with nothing to write.
LEMMA AnswersQuietly ==
  ASSUME IInv, NEW r \in Requests, ~IsSession(r), Respond(r, "answered"),
         UNCHANGED <<rows, faulted, account>>,
         DOMAIN chosen' = Requests, \A q \in Requests \ {r} : chosen'[q] = chosen[q]
  PROVE  IInv'
<1>1. Types
  BY DEF IInv
<1>2. /\ UNCHANGED <<ask, with, before>>
      /\ at' \in [Requests -> Places] /\ at'[r] = "done"
      /\ answer' \in [Requests -> Responses \cup {None}]
      /\ \A q \in Requests \ {r} : at'[q] = at[q] /\ answer'[q] = answer[q]
  BY <1>1, RespondFacts DEF Responses
<1>3. Types'
  BY <1>1, <1>2 DEF Types, TypeOK, rows, Issued, Tenants
<1>4. Frame(r) /\ Grows
  BY <1>2, QuietFrame DEF rows
<1>5. RequestOK(r)'
  BY <1>2, <1>4, DoneOK
<1>6. TwinsRaced'
  BY <1>2, TwinsKept DEF rows
<1> QED
  BY <1>3, <1>4, <1>5, <1>6, StepOK

LEMMA FindKeyToRevokeIInv == ASSUME IInv, NEW r \in Requests, FindKeyToRevoke(r) PROVE IInv'
<1>1. /\ Types /\ RequestOK(r) /\ at[r] = "row" /\ ~IsSession(r) /\ ask[r].kind = "revoke"
      /\ UNCHANGED <<account, rows, faulted>>
  BY DEF IInv, FindKeyToRevoke, Step, RequestOK, KindOK
<1>2. PICK k \in Requests :
        IF k \in Issued /\ Visible(r, keys[k])
        THEN \E copy \in Copies(r, k) :
               /\ chosen' = [chosen EXCEPT ![r] = [row |-> k, was |-> copy]]
               /\ IF copy.revoked_at # None THEN Respond(r, "answered") ELSE Go(r, "revoke")
        ELSE Respond(r, "refused") /\ UNCHANGED chosen
  BY DEF FindKeyToRevoke
<1>3. CASE Respond(r, "refused") /\ UNCHANGED chosen
  BY <1>1, <1>3, GivesUp DEF Types, TypeOK
<1>4. ASSUME k \in Issued, keys[k] = account[r], NEW copy \in Copies(r, k),
             chosen' = [chosen EXCEPT ![r] = [row |-> k, was |-> copy]],
             IF copy.revoked_at # None THEN Respond(r, "answered") ELSE Go(r, "revoke")
      PROVE  IInv'
  <2>1. /\ DOMAIN chosen' = Requests /\ chosen'[r] = [row |-> k, was |-> copy]
        /\ \A q \in Requests \ {r} : chosen'[q] = chosen[q]
    BY <1>1, <1>4, ChooseFacts DEF Types
  <2>2. CASE Respond(r, "answered")
    BY <1>1, <2>1, <2>2, AnswersQuietly
  <2>3. CASE Go(r, "revoke") /\ copy.revoked_at = None
    <3>1. UNCHANGED <<ask, with, answer, before>>
      BY <2>3 DEF Go
    <3>2. ASSUME at'[r] = "revoke" PROVE RequestOK(r)'
      <4>1. KindOK(r)' /\ RowsOK(r)' /\ SessionOK(r)'
        BY <1>1, <3>1, <3>2 DEF RequestOK, KindOK, RowsOK, SessionOK, IsSession, rows
      <4>2. ChosenOK(r)'
        <5>1. copy \in Stamps
          BY <1>1 DEF Copies, RequestOK, ChosenOK, ReadValid, Types, TypeOK
        <5> QED
          BY <1>1, <1>4, <2>1, <2>3, <3>2, <5>1 DEF ChosenOK, ReadValid, rows, Issued
      <4>3. KeyedOK(r)'
        BY <1>1, <3>1, <3>2 DEF RequestOK, KeyedOK, IsSession, rows, Issued, Tenants
      <4>4. BeforeOK(r)'
        BY <1>1, <3>1, <3>2 DEF RequestOK, BeforeOK, rows, Tenants, TenantRows, WorkspaceRows
      <4> QED
        BY <4>1, <4>2, <4>3, <4>4 DEF RequestOK
    <3> QED
      BY <1>1, <2>1, <2>3, <3>2, GoesOn DEF Places, Commits, Types, TypeOK
  <2> QED
    BY <1>4, <2>2, <2>3
<1> QED
  BY <1>2, <1>3, <1>4 DEF Visible

LEMMA FindSubscriptionIInv == ASSUME IInv, NEW r \in Requests, FindSubscription(r) PROVE IInv'
<1>1. /\ Types /\ RequestOK(r) /\ at[r] = "row" /\ ~IsSession(r) /\ ask[r].kind = "billing"
      /\ UNCHANGED <<account, chosen, rows, faulted>>
  BY DEF IInv, FindSubscription, Step, RequestOK, KindOK, progress
<1>2. CASE Respond(r, "answered")
  BY <1>1, <1>2, AnswersQuietly DEF Types
<1>3. CASE Go(r, "subscription")
  <2>1. UNCHANGED <<ask, with, answer, before>>
    BY <1>3 DEF Go
  <2>2. ASSUME at'[r] = "subscription" PROVE RequestOK(r)'
    <3>1. KindOK(r)' /\ RowsOK(r)' /\ SessionOK(r)' /\ ChosenOK(r)'
      BY <1>1, <2>1, <2>2 DEF RequestOK, KindOK, RowsOK, SessionOK, ChosenOK, IsSession, rows
    <3>2. KeyedOK(r)'
      BY <1>1, <2>1, <2>2 DEF RequestOK, KeyedOK, IsSession, rows, Issued, Tenants
    <3>3. BeforeOK(r)'
      BY <1>1, <2>1, <2>2 DEF RequestOK, BeforeOK, rows, Tenants, TenantRows, WorkspaceRows
    <3> QED
      BY <3>1, <3>2, <3>3 DEF RequestOK
  <2> QED
    BY <1>1, <1>3, <2>2, GoesOn DEF Places, Commits, Types, TypeOK
<1> QED
  BY <1>2, <1>3 DEF FindSubscription

-----------------------------------------------------------------------------
LEMMA CheckWorkspaceIInv == ASSUME IInv, NEW r \in Requests, CheckWorkspace(r) PROVE IInv'
<1>1. /\ Types /\ RequestOK(r) /\ at[r] = "unique"
      /\ UNCHANGED <<account, chosen, rows, faulted>>
  BY DEF IInv, CheckWorkspace, Step, progress
<1>2. CASE Respond(r, IF IsSession(r) THEN "failed" ELSE "refused")
  BY <1>1, <1>2, GivesUp DEF Types, TypeOK
<1>3. ASSUME NEW place \in {"rename", "workspace"}, Go(r, place),
             place = "rename" <=> ask[r].kind = "rename"
      PROVE  IInv'
  <2>1. UNCHANGED <<ask, with, answer, before>>
    BY <1>3 DEF Go
  <2>2. ASSUME at'[r] = place PROVE RequestOK(r)'
    <3>1. KindOK(r)' /\ RowsOK(r)'
      BY <1>1, <1>3, <2>1, <2>2 DEF RequestOK, KindOK, RowsOK, IsSession, rows, Sessions
    <3>2. ChosenOK(r)'
      BY <1>1, <1>3, <2>1, <2>2 DEF RequestOK, ChosenOK, rows, WorkspacesOf
    <3>3. SessionOK(r)'
      <4>1. IsSession(r) => place = "workspace"
        BY <1>3 DEF IsSession, Sessions
      <4>2. IsSession(r) => AccountOK(r)'
        BY <1>1, <2>1 DEF RequestOK, SessionOK, Admitted, AccountOK, Owned, Tenants, rows
      <4> QED
        BY <1>1, <2>1, <2>2, <4>1, <4>2 DEF RequestOK, SessionOK, IsSession
    <3>4. KeyedOK(r)'
      BY <1>1, <1>3, <2>1, <2>2 DEF RequestOK, KeyedOK, IsSession, rows, Issued, Tenants
    <3>5. BeforeOK(r)'
      BY <1>1, <1>3, <2>1, <2>2
         DEF RequestOK, BeforeOK, rows, Tenants, TenantRows, WorkspaceRows
    <3> QED
      BY <3>1, <3>2, <3>3, <3>4, <3>5 DEF RequestOK
  <2> QED
    BY <1>1, <1>3, <2>2, GoesOn DEF Places, Commits, Types, TypeOK
<1>4. CASE Go(r, IF ask[r].kind = "rename" THEN "rename" ELSE "workspace")
  BY <1>3, <1>4
<1> QED
  BY <1>2, <1>4 DEF CheckWorkspace

\* The tenant of a request that has been admitted.
LEMMA AccountFacts ==
  ASSUME IInv, NEW r \in Requests,
         IF IsSession(r) THEN at[r] \in Admitted ELSE at[r] \notin {"idle", "done"}
  PROVE  account[r] \in Requests /\ account[r] \in Tenants
<1>1. account[r] \in Tenants
  BY DEF IInv, RequestOK, SessionOK, KeyedOK, AccountOK, Owned
<1> QED
  BY <1>1 DEF Tenants

LEMMA SlugFacts == ASSUME NEW n \in Names PROVE SlugOf(n) \in Names
<1>1. Cardinality(Requests) \in Nat
  BY RequestsAssumption, FS_CardinalityType
<1>2. n[1] \in Words /\ n[2] \in 1 .. Cardinality(Requests)
  BY DEF Names
<1>3. 1 \in 1 .. Cardinality(Requests)
  BY <1>1, <1>2
<1> QED
  BY <1>2, <1>3 DEF SlugOf, Names

LEMMA CommitWorkspaceIInv == ASSUME IInv, NEW r \in Requests, CommitWorkspace(r) PROVE IInv'
<1>1. /\ Types /\ RequestOK(r) /\ at[r] = "workspace" /\ ask[r].kind # "rename"
      /\ chosen[r] \in Names /\ workspaces[r] = None
      /\ UNCHANGED <<account, tenantName, keys, stamps, subscriptions, faulted>>
  BY DEF IInv, CommitWorkspace, Step, RequestOK, KindOK, ChosenOK, RowsOK
<1>2. CASE Clashes(r)
  <2>1. Respond(r, "failed") /\ UNCHANGED <<chosen, workspaces>>
    BY <1>2 DEF CommitWorkspace
  <2> QED
    BY <1>1, <2>1, GivesUp DEF Types, TypeOK, rows
<1>3. CASE ~Clashes(r)
  <2>1. /\ workspaces' = [workspaces EXCEPT ![r] = Wanted(r)]
        /\ chosen' = [chosen EXCEPT ![r] = r]
        /\ IF IsSession(r) THEN Go(r, "key") ELSE Respond(r, "answered")
    BY <1>3 DEF CommitWorkspace
  <2>2. account[r] \in Requests
    BY <1>1, AccountFacts DEF Admitted
  <2>3. /\ Wanted(r) = [tenant |-> account[r], name |-> chosen[r], slug |-> SlugOf(SlugSource(r))]
        /\ SlugOf(SlugSource(r)) \in Names
    <3>1. SlugSource(r) \in Names
      BY <1>1, AskFacts DEF SlugSource
    <3> QED
      BY <1>1, <3>1, SlugFacts DEF Wanted
  <2>4. /\ Wanted(r) \in Workspace
        /\ Wanted(r) # None /\ Wanted(r).tenant = account[r]
    <3>1. None \notin Workspace
      BY NoneAssumption
    <3> QED
      BY <1>1, <2>2, <2>3, <3>1 DEF Workspace
  <2>5. /\ workspaces' \in [Requests -> Workspace \cup {None}]
        /\ workspaces'[r] = Wanted(r)
        /\ \A q \in Requests \ {r} : workspaces'[q] = workspaces[q]
    BY <1>1, <2>1, <2>4 DEF Types, TypeOK
  <2>6. /\ DOMAIN chosen' = Requests /\ chosen'[r] = r
        /\ \A q \in Requests \ {r} : chosen'[q] = chosen[q]
    BY <1>1, <2>1, ChooseFacts DEF Types
  <2>7. /\ UNCHANGED <<ask, with, before>>
        /\ at' \in [Requests -> Places]
        /\ answer' \in [Requests -> Responses \cup {None}]
        /\ \A q \in Requests \ {r} : at'[q] = at[q] /\ answer'[q] = answer[q]
        /\ IF IsSession(r) THEN at'[r] = "key" /\ answer' = answer ELSE at'[r] = "done"
    <3>1. CASE IsSession(r)
      <4>1. "key" \in Places
        BY DEF Places, Commits
      <4> QED
        BY <1>1, <2>1, <3>1, <4>1, GoFacts DEF Types, TypeOK
    <3>2. CASE ~IsSession(r)
      BY <1>1, <2>1, <3>2, RespondFacts DEF Responses
    <3> QED
      BY <3>1, <3>2
  <2>8. Types'
    BY <1>1, <2>5, <2>6, <2>7 DEF Types, TypeOK, Issued, Tenants
  <2>9. Frame(r) /\ Grows
    BY <1>1, <2>5, <2>6, <2>7 DEF Frame, Grows, Same
  <2>10. RequestOK(r)'
    <3>1. CASE ~IsSession(r)
      BY <2>7, <2>9, <3>1, DoneOK
    <3>2. CASE IsSession(r)
      <4>1. AccountOK(r)'
        BY <1>1, <2>7, <3>2
           DEF RequestOK, SessionOK, Admitted, AccountOK, Owned, Tenants
      <4>2. Lands(r)'
        BY <1>1, <2>4, <2>5, <2>6 DEF Lands, WorkspacesOf
      <4>3. BeforeOK(r)'
        <5>1. before'[r] \subseteq TenantRows' \cup WorkspaceRows'
          BY <1>1, <2>7, <2>9, GrowthFacts DEF RequestOK, BeforeOK
        <5> QED
          BY <2>7, <3>2, <5>1 DEF BeforeOK
      <4>4. KindOK(r)' /\ RowsOK(r)' /\ ChosenOK(r)' /\ SessionOK(r)' /\ KeyedOK(r)'
        BY <1>1, <2>7, <3>2, <4>1, <4>2
           DEF RequestOK, KindOK, RowsOK, ChosenOK, SessionOK, KeyedOK, IsSession
      <4> QED
        BY <4>3, <4>4 DEF RequestOK
    <3> QED
      BY <3>1, <3>2
  <2>11. TwinsRaced'
    BY <1>1, <2>7, TwinsKept
  <2> QED
    BY <2>8, <2>9, <2>10, <2>11, StepOK
<1> QED
  BY <1>2, <1>3

\* A keyed request that has what it asked for, with rows to write.
LEMMA Answers ==
  ASSUME IInv, NEW r \in Requests, ~IsSession(r), Respond(r, "answered"),
         UNCHANGED <<faulted, account, chosen, tenantName>>, Types', Grows,
         \A q \in Requests \ {r} :
           keys'[q] = keys[q] /\ (workspaces[q] = None => workspaces'[q] = None)
  PROVE  IInv'
<1>1. Types
  BY DEF IInv
<1>2. /\ UNCHANGED <<ask, with, before>> /\ at'[r] = "done"
      /\ \A q \in Requests \ {r} : at'[q] = at[q] /\ answer'[q] = answer[q]
  BY <1>1, RespondFacts DEF Responses
<1>3. Frame(r)
  BY <1>2 DEF Frame, Same
<1>4. RequestOK(r)'
  BY <1>2, DoneOK
<1>5. TwinsRaced'
  BY <1>2, TwinsKept
<1> QED
  BY <1>3, <1>4, <1>5, StepOK

\* What a rename makes of the row it has read.
Updated(r) == Written(workspaces[chosen[r].row], chosen[r].was, Wanted(r))

LEMMA UpdatedFacts ==
  ASSUME IInv, NEW r \in Requests, at[r] = "rename"
  PROVE  /\ chosen[r].row \in Requests /\ workspaces[chosen[r].row] # None
         /\ workspaces[chosen[r].row].tenant = account[r]
         /\ Updated(r) \in Workspace
         /\ Updated(r).tenant = account[r]
<1> DEFINE row == workspaces[chosen[r].row]
<1>1. Types /\ ask[r].kind = "rename" /\ chosen[r].row \in WorkspacesOf(account[r])
      /\ chosen[r].was.name \in Names /\ chosen[r].was.slug \in Names
  BY DEF IInv, RequestOK, KindOK, ChosenOK
<1>2. chosen[r].row \in Requests /\ row # None /\ row.tenant = account[r]
  BY <1>1 DEF WorkspacesOf
<1>3. row \in Workspace
  BY <1>1, <1>2 DEF Types, TypeOK
<1> DEFINE wanted == Wanted(r)
           was == chosen[r].was
<1>4. wanted \in Workspace /\ wanted.tenant = row.tenant
  <2> DEFINE name == IF "name" \in ask[r].patch THEN ask[r].workspace ELSE was.name
             slug == IF GivesSlug(r) THEN SlugOf(ask[r].slug) ELSE was.slug
  <2>1. wanted = [tenant |-> account[r], name |-> name, slug |-> slug]
    BY <1>1 DEF Wanted
  <2>2. SlugOf(ask[r].slug) \in Names
    BY <1>1, AskFacts, SlugFacts
  <2>3. name \in Names /\ slug \in Names
    BY <1>1, <2>2, AskFacts
  <2>4. account[r] \in Requests
    BY <1>2, <1>3 DEF Workspace
  <2> HIDE DEF wanted, name, slug
  <2> QED
    BY <1>2, <2>1, <2>3, <2>4 DEF Workspace
<1>5. Updated(r) = Written(row, was, wanted)
  BY DEF Updated
<1> HIDE DEF row, wanted, was
<1>6. Written(row, was, wanted) \in Workspace /\ Written(row, was, wanted).tenant = row.tenant
  BY <1>3, <1>4 DEF Workspace, Written
<1> QED
  BY <1>2, <1>5, <1>6 DEF row

LEMMA CommitRenameIInv == ASSUME IInv, NEW r \in Requests, CommitRename(r) PROVE IInv'
<1>1. /\ Types /\ at[r] = "rename" /\ ~IsSession(r)
      /\ UNCHANGED <<account, chosen, tenantName, keys, stamps, subscriptions, faulted>>
  BY DEF IInv, CommitRename, Step, RequestOK, KindOK, progress
<1>2. CASE Respond(r, "failed") /\ UNCHANGED workspaces
  BY <1>1, <1>2, GivesUp DEF Types, TypeOK, rows
<1>3. CASE workspaces' = [workspaces EXCEPT ![chosen[r].row] = Updated(r)] /\ Respond(r, "answered")
  <2> DEFINE w == chosen[r].row
  <2>1. /\ w \in Requests /\ workspaces[w] # None /\ workspaces[w].tenant = account[r]
        /\ Updated(r) \in Workspace
        /\ Updated(r).tenant = account[r]
    BY <1>1, UpdatedFacts
  <2>2. Updated(r) # None
    BY <2>1, NoneAssumption
  <2> HIDE DEF w
  <2>3. workspaces' = [workspaces EXCEPT ![w] = Updated(r)]
    BY <1>3 DEF w
  <2>4. /\ workspaces' \in [Requests -> Workspace \cup {None}]
        /\ workspaces'[w] = Updated(r)
        /\ \A q \in Requests \ {w} : workspaces'[q] = workspaces[q]
    BY <1>1, <2>1, <2>3 DEF Types, TypeOK
  <2>5. Grows
    BY <1>1, <2>1, <2>2, <2>4 DEF Grows
  <2>6. Types'
    <3>1. /\ UNCHANGED <<ask, with, before>>
          /\ at' \in [Requests -> Places] /\ answer' \in [Requests -> Responses \cup {None}]
      BY <1>1, <1>3, RespondFacts DEF Responses
    <3> QED
      BY <1>1, <2>4, <3>1 DEF Types, TypeOK, Issued, Tenants
  <2>7. \A q \in Requests \ {r} :
          keys'[q] = keys[q] /\ (workspaces[q] = None => workspaces'[q] = None)
    BY <1>1, <2>1, <2>4
  <2> QED
    BY <1>1, <1>3, <2>5, <2>6, <2>7, Answers
<1> QED
  BY <1>2, <1>3 DEF CommitRename, Updated

LEMMA CommitKeyIInv == ASSUME IInv, NEW r \in Requests, CommitKey(r) PROVE IInv'
<1> SUFFICES ASSUME keys' = [keys EXCEPT ![r] = account[r]], Respond(r, "answered")
             PROVE  IInv'
  <2>1. /\ Types /\ UNCHANGED <<account, chosen, tenantName, workspaces, stamps, subscriptions, faulted>>
    BY DEF IInv, CommitKey, Step, progress
  <2>2. CASE Respond(r, "failed") /\ UNCHANGED keys
    BY <2>1, <2>2, GivesUp DEF Types, TypeOK, rows
  <2> QED
    BY <2>2 DEF CommitKey
<1>1. /\ Types /\ RequestOK(r) /\ at[r] = "key" /\ keys[r] = None
      /\ UNCHANGED <<account, chosen, tenantName, workspaces, stamps, subscriptions, faulted>>
  BY DEF IInv, CommitKey, Step, progress, RequestOK, RowsOK
<1>2. account[r] \in Requests /\ account[r] \in Tenants
  BY <1>1, AccountFacts DEF Admitted
<1>3. /\ keys' \in [Requests -> Requests \cup {None}] /\ keys'[r] = account[r]
      /\ \A q \in Requests \ {r} : keys'[q] = keys[q]
  BY <1>1, <1>2 DEF Types, TypeOK
<1>4. /\ UNCHANGED <<ask, with, before>>
      /\ at' \in [Requests -> Places] /\ at'[r] = "done"
      /\ answer' \in [Requests -> Responses \cup {None}] /\ answer'[r] = "answered"
      /\ \A q \in Requests \ {r} : at'[q] = at[q] /\ answer'[q] = answer[q]
  BY <1>1, RespondFacts DEF Responses
<1>5. Grows
  BY <1>1, <1>3 DEF Grows
<1>6. Types'
  <2>1. Tenants' = Tenants
    BY <1>1 DEF Tenants
  <2>2. Issued \subseteq Issued'
    BY <1>1, <1>3 DEF Issued
  <2>3. ASSUME NEW k \in Issued' PROVE keys'[k] \in Tenants
    BY <1>1, <1>2, <1>3 DEF Types, Issued
  <2>4. TypeOK'
    BY <1>1, <1>3, <1>4, <2>1, <2>2 DEF Types, TypeOK
  <2> QED
    BY <1>1, <2>1, <2>3, <2>4 DEF Types
<1>7. CASE ~IsSession(r)
  BY <1>1, <1>3, <1>5, <1>6, <1>7, Answers
<1>8. CASE IsSession(r)
  <2>1. Frame(r)
    BY <1>1, <1>3, <1>4, <1>5 DEF Frame, Same
  <2>2. AccountOK(r)' /\ Lands(r)'
    BY <1>1, <1>4, <1>8
       DEF RequestOK, SessionOK, Admitted, AccountOK, Lands, Owned, Tenants, WorkspacesOf
  <2>3. BeforeOK(r)'
    BY <1>1, <1>4, <1>5, GrowthFacts DEF RequestOK, BeforeOK
  <2>4. KindOK(r)' /\ RowsOK(r)' /\ ChosenOK(r)' /\ SessionOK(r)' /\ KeyedOK(r)'
    BY <1>1, <1>3, <1>4, <1>8, <2>2
       DEF RequestOK, KindOK, RowsOK, ChosenOK, SessionOK, KeyedOK, IsSession, Admitted
  <2>5. TwinsRaced'
    BY <1>1, <1>4, TwinsKept
  <2> QED
    BY <1>6, <2>1, <2>3, <2>4, <2>5, StepOK DEF RequestOK
<1> QED
  BY <1>7, <1>8

\* A revocation writes revoked_at of a row that had none when it was read.
LEMMA RevokeFacts ==
  ASSUME IInv, NEW r \in Requests, CommitRevoke(r)
  PROVE  /\ stamps' \in [Requests -> Stamps]
         /\ chosen[r].row \in Requests /\ stamps'[chosen[r].row].revoked_at = r
         /\ \A k \in Requests : k # chosen[r].row => stamps'[k] = stamps[k]
         /\ keys[chosen[r].row] = account[r]
<1> DEFINE k == chosen[r].row
           was == chosen[r].was
           wanted == [was EXCEPT !.revoked_at = r]
           new == Written(stamps[k], was, wanted)
<1>1. /\ Types /\ k \in Issued /\ keys[k] = account[r] /\ was \in Stamps /\ was.revoked_at = None
      /\ stamps' = [stamps EXCEPT ![k] = new]
  BY DEF IInv, RequestOK, ChosenOK, ReadValid, CommitRevoke, Step
<1>2. k \in Requests /\ stamps[k] \in Stamps
  BY <1>1 DEF Types, TypeOK, Issued
<1>3. wanted \in Stamps /\ wanted.revoked_at = r /\ r # None
  BY <1>1, NoneFacts DEF Stamps
<1> HIDE DEF wanted, was
<1>4. new \in Stamps /\ new.revoked_at = r
  BY <1>1, <1>2, <1>3, WrittenFacts
<1> HIDE DEF new, k
<1>5. /\ stamps' \in [Requests -> Stamps]
      /\ \A j \in Requests : stamps'[j] = IF j = k THEN new ELSE stamps[j]
  BY <1>1, <1>2, <1>4 DEF Types, TypeOK
<1> QED
  BY <1>1, <1>2, <1>4, <1>5 DEF k

LEMMA CommitRevokeIInv == ASSUME IInv, NEW r \in Requests, CommitRevoke(r) PROVE IInv'
<1>1. /\ Types /\ RequestOK(r) /\ at[r] = "revoke" /\ ~IsSession(r) /\ Respond(r, "answered")
      /\ UNCHANGED <<account, chosen, tenantName, workspaces, keys, subscriptions, faulted>>
  BY DEF IInv, CommitRevoke, Step, progress, RequestOK, KindOK
<1>2. /\ UNCHANGED <<ask, with, before>>
      /\ at' \in [Requests -> Places] /\ answer' \in [Requests -> Responses \cup {None}]
  BY <1>1, RespondFacts DEF Responses
<1>3. Types'
  BY <1>1, <1>2, RevokeFacts DEF Types, TypeOK, Issued, Tenants
<1>4. Grows
  BY <1>1 DEF Grows
<1> QED
  BY <1>1, <1>3, <1>4, Answers

LEMMA CommitSubscriptionIInv ==
  ASSUME IInv, NEW r \in Requests, CommitSubscription(r)
  PROVE  IInv'
<1>1. /\ Types /\ RequestOK(r) /\ at[r] = "subscription" /\ ~IsSession(r)
      /\ UNCHANGED <<account, chosen, tenantName, workspaces, keys, stamps, faulted>>
  BY DEF IInv, CommitSubscription, Step, progress, RequestOK, KindOK
<1>2. CASE Respond(r, "failed") /\ UNCHANGED subscriptions
  BY <1>1, <1>2, GivesUp DEF Types, TypeOK, rows
<1>3. CASE subscriptions' = subscriptions \cup {account[r]} /\ Respond(r, "answered")
  <2>1. account[r] \in Tenants
    BY <1>1, AccountFacts
  <2>2. /\ UNCHANGED <<ask, with, before>>
        /\ at' \in [Requests -> Places] /\ answer' \in [Requests -> Responses \cup {None}]
    BY <1>1, <1>3, RespondFacts DEF Responses
  <2>3. Types'
    BY <1>1, <1>3, <2>1, <2>2 DEF Types, TypeOK, Issued, Tenants
  <2>4. Grows
    BY <1>1 DEF Grows
  <2> QED
    BY <1>1, <1>3, <2>3, <2>4, Answers
<1> QED
  BY <1>2, <1>3 DEF CommitSubscription

LEMMA StutterIInv == IInv /\ UNCHANGED vars => IInv'
<1> SUFFICES ASSUME IInv, UNCHANGED vars PROVE IInv'
  OBVIOUS
<1>1. Types' /\ TwinsRaced'
  BY TwinsKept DEF IInv, vars, rows, progress, Types, TypeOK, Issued, Tenants
<1>2. ASSUME NEW r \in Requests PROVE RequestOK(r)'
  <2>1. RequestOK(r)
    BY DEF IInv
  <2>2. KindOK(r)' /\ RowsOK(r)' /\ ChosenOK(r)' /\ KeyedOK(r)'
    BY <2>1 DEF vars, rows, progress, RequestOK, KindOK, RowsOK, ChosenOK, KeyedOK, IsSession,
       WorkspacesOf, Issued, Tenants, ReadValid
  <2>3. BeforeOK(r)'
    BY <2>1 DEF vars, rows, progress, RequestOK, BeforeOK, Owned, Tenants, TenantRows, WorkspaceRows
  <2>4. SessionOK(r)'
    BY <2>1 DEF vars, rows, progress, RequestOK, SessionOK, IsSession, AccountOK, Lands, Owned,
       Tenants, WorkspacesOf
  <2> QED
    BY <2>2, <2>3, <2>4 DEF RequestOK
<1> QED
  BY <1>1, <1>2 DEF IInv

LEMMA NextIInv == IInv /\ [Next]_vars => IInv'
  BY ArriveSessionIInv, ArriveKeyedIInv, StampKeyIInv, FindAccountIInv, NameTenantIInv,
     CommitTenantIInv, FinalizeGoogleIInv, GetOrCreateWorkspaceIInv, CheckWorkspaceIInv,
     CommitWorkspaceIInv, CommitRenameIInv, FindWorkspaceToPatchIInv, FindKeyToRevokeIInv,
     FindSubscriptionIInv, CommitKeyIInv, CommitRevokeIInv, CommitSubscriptionIInv,
     CommitFailsIInv, StutterIInv DEF Next

-----------------------------------------------------------------------------
\* The inductive invariant: for each request what it is, has found and has chosen where
\* it stands, and the rows it has inserted.
THEOREM Invariance == Spec => []IInv
  BY InitIInv, NextIInv, PTL DEF Spec

\* Whatever the requests and the faults, an answered session is complete.
THEOREM SessionsAreComplete == Spec => []AnsweredIsComplete
<1>1. ASSUME IInv, NEW r \in Requests, IsSession(r), answer[r] = "answered"
      PROVE  AccountOK(r) /\ Lands(r) /\ keys[r] = account[r]
  <2>1. answer[r] # None
    BY <1>1, NoneAssumption DEF Responses
  <2> QED
    BY <1>1, <2>1 DEF IInv, RequestOK, KindOK, SessionOK
<1>2. IInv => AnsweredIsComplete
  BY <1>1 DEF AnsweredIsComplete, AccountOK, Lands
<1> QED
  BY <1>2, Invariance, PTL

\* Whatever the requests, twin accounts were made by requests that overlapped.
THEOREM TwinsOnlyByRacing == Spec => []TwinsRaced
<1>1. IInv => TwinsRaced
  BY DEF IInv
<1> QED
  BY <1>1, Invariance, PTL

-----------------------------------------------------------------------------
LEMMA QuietlyOwn ==
  ASSUME UNCHANGED <<workspaces, keys, stamps, subscriptions>>, NEW q
  PROVE  WritesOwn(q)
  BY DEF WritesOwn

\* A request that responds and came with a key has the tenant of that key.
LEMMA OnlyItself ==
  ASSUME IInv, NEW r \in Requests, NEW q \in Requests, NEW response \in Responses,
         Respond(r, response), at'[q] # at[q], with[q] # None, at[r] \notin {"idle", "done"}
  PROVE  /\ q = r /\ ~IsSession(r)
         /\ with[r] \in Issued /\ account[r] = keys[with[r]] /\ account[r] \in Tenants
<1>1. q = r
  BY RespondFacts DEF IInv
<1>2. ~IsSession(r)
  BY <1>1 DEF IInv, RequestOK, SessionOK
<1> QED
  BY <1>1, <1>2 DEF IInv, RequestOK, KeyedOK

LEMMA CommitsAreOwn ==
  ASSUME IInv, NEW r \in Requests, NEW q \in Requests, at'[q] # at[q], with[q] # None,
         \/ CommitWorkspace(r) \/ CommitRename(r) \/ CommitKey(r) \/ CommitRevoke(r)
         \/ CommitSubscription(r) \/ StampKey(r)
  PROVE  WritesOwn(q)
<1>1. Types
  BY DEF IInv
<1>2. CASE CommitWorkspace(r)
  <2>1. at[r] = "workspace" /\ UNCHANGED <<keys, stamps, subscriptions>>
        /\ ask[r].kind # "rename" /\ workspaces[r] = None
    BY <1>2 DEF CommitWorkspace, Step, IInv, RequestOK, KindOK, RowsOK
  <2>2. CASE UNCHANGED workspaces
    BY <2>1, <2>2, QuietlyOwn
  <2>3. CASE /\ workspaces' = [workspaces EXCEPT ![r] = Wanted(r)]
             /\ IF IsSession(r) THEN Go(r, "key") ELSE Respond(r, "answered")
    <3>1. ~IsSession(r)
      <4>1. SUFFICES ASSUME IsSession(r), Go(r, "key") PROVE FALSE
        BY <2>3
      <4>2. q = r
        BY <1>1, <4>1, GoFacts DEF Places, Commits
      <4> QED
        BY <4>1, <4>2 DEF IInv, RequestOK, SessionOK
    <3>2. q = r /\ account[r] = keys[with[r]] /\ account[r] \in Requests
      BY <2>1, <2>3, <3>1, OnlyItself DEF Responses, Tenants
    <3>3. Wanted(r).tenant = account[r]
      BY <2>1 DEF Wanted
    <3> QED
      BY <1>1, <2>1, <2>3, <3>2, <3>3 DEF WritesOwn, Types, TypeOK
  <2> QED
    BY <1>2, <2>2, <2>3 DEF CommitWorkspace
<1>3. CASE CommitRename(r)
  <2>1. at[r] = "rename" /\ UNCHANGED <<keys, stamps, subscriptions>>
    BY <1>3 DEF CommitRename, Step
  <2>2. CASE UNCHANGED workspaces
    BY <2>1, <2>2, QuietlyOwn
  <2>3. CASE workspaces' = [workspaces EXCEPT ![chosen[r].row] = Updated(r)] /\ Respond(r, "answered")
    <3>1. q = r /\ account[r] = keys[with[r]]
      BY <2>1, <2>3, OnlyItself DEF Responses
    <3>2. /\ chosen[r].row \in Requests /\ workspaces[chosen[r].row].tenant = account[r]
          /\ Updated(r).tenant = account[r]
      BY <2>1, UpdatedFacts
    <3> QED
      BY <1>1, <2>1, <2>3, <3>1, <3>2 DEF WritesOwn, Types, TypeOK
  <2> QED
    BY <1>3, <2>2, <2>3 DEF CommitRename, Updated
<1>4. CASE CommitKey(r)
  <2>1. at[r] = "key" /\ UNCHANGED <<workspaces, stamps, subscriptions>>
    BY <1>4 DEF CommitKey, Step
  <2>2. CASE UNCHANGED keys
    BY <2>1, <2>2, QuietlyOwn
  <2>3. CASE keys' = [keys EXCEPT ![r] = account[r]] /\ Respond(r, "answered")
    <3>1. q = r /\ account[r] = keys[with[r]]
      BY <2>1, <2>3, OnlyItself DEF Responses
    <3> QED
      BY <1>1, <2>1, <2>3, <3>1 DEF WritesOwn, Types, TypeOK
  <2> QED
    BY <1>4, <2>2, <2>3 DEF CommitKey
<1>5. CASE CommitRevoke(r)
  <2>1. /\ at[r] = "revoke" /\ UNCHANGED <<workspaces, keys, subscriptions>> /\ Respond(r, "answered")
    BY <1>5 DEF CommitRevoke, Step
  <2>2. q = r /\ account[r] = keys[with[r]]
    BY <2>1, OnlyItself DEF Responses
  <2>3. \A k \in Requests : stamps'[k] # stamps[k] => keys[k] = account[r]
    BY <1>5, RevokeFacts
  <2> QED
    BY <2>1, <2>2, <2>3 DEF WritesOwn
<1>6. CASE StampKey(r)
  <2>1. UNCHANGED <<workspaces, keys, subscriptions>>
    BY <1>6 DEF StampKey
  <2>2. q = r
    <3>1. \E place \in {"unique", "key", "row"} : Go(r, place)
      BY <1>6 DEF StampKey
    <3> QED
      BY <1>1, <3>1, GoFacts DEF Places, Commits
  <2>3. \A k \in Requests : stamps'[k] # stamps[k] => keys[k] = keys[with[r]]
    BY <1>6, StampFacts
  <2> QED
    BY <2>1, <2>2, <2>3 DEF WritesOwn
<1>7. CASE CommitSubscription(r)
  <2>1. at[r] = "subscription" /\ UNCHANGED <<workspaces, keys, stamps>>
    BY <1>7 DEF CommitSubscription, Step
  <2>2. CASE UNCHANGED subscriptions
    BY <2>1, <2>2, QuietlyOwn
  <2>3. CASE subscriptions' = subscriptions \cup {account[r]} /\ Respond(r, "answered")
    <3>1. q = r /\ account[r] = keys[with[r]]
      BY <2>1, <2>3, OnlyItself DEF Responses
    <3> QED
      BY <2>1, <2>3, <3>1 DEF WritesOwn
  <2> QED
    BY <1>7, <2>2, <2>3 DEF CommitSubscription
<1> QED
  BY <1>2, <1>3, <1>4, <1>5, <1>6, <1>7

\* Whatever the requests, a key reaches the rows of its own tenant only.
THEOREM TenantsAreIsolated == Spec => OwnTenantOnly
<1>1. ASSUME IInv, [Next]_vars, NEW q \in Requests, at'[q] # at[q], with[q] # None
      PROVE  WritesOwn(q)
  <2>1. CASE UNCHANGED vars
    BY <1>1, <2>1 DEF vars
  <2>2. ASSUME NEW r \in Requests,
               \/ CommitWorkspace(r) \/ CommitRename(r) \/ CommitKey(r) \/ CommitRevoke(r)
               \/ CommitSubscription(r) \/ StampKey(r)
        PROVE  WritesOwn(q)
    BY <1>1, <2>2, CommitsAreOwn
  <2>3. ASSUME NEW r \in Requests,
               \/ ArriveSession(r) \/ ArriveKeyed(r)
               \/ FindAccount(r) \/ NameTenant(r) \/ CommitTenant(r) \/ FinalizeGoogle(r)
               \/ GetOrCreateWorkspace(r) \/ CheckWorkspace(r)
               \/ FindWorkspaceToPatch(r) \/ FindKeyToRevoke(r) \/ FindSubscription(r)
               \/ CommitFails(r)
        PROVE  WritesOwn(q)
    <3>1. UNCHANGED <<workspaces, keys, stamps, subscriptions>>
      BY <2>3 DEF rows, progress, ArriveSession, ArriveKeyed, Arrived,
         FindAccount, NameTenant, CommitTenant, FinalizeGoogle, GetOrCreateWorkspace,
         CheckWorkspace, FindWorkspaceToPatch, FindKeyToRevoke, FindSubscription, CommitFails
    <3> QED
      BY <3>1, QuietlyOwn
  <2> QED
    BY <1>1, <2>1, <2>2, <2>3 DEF Next
<1>2. IInv /\ [Next]_vars =>
        [\A r \in Requests : at'[r] # at[r] /\ with[r] # None => WritesOwn(r)]_vars
  BY <1>1
<1> QED
  BY <1>2, Invariance, PTL DEF Spec, OwnTenantOnly, WritesOwn

-----------------------------------------------------------------------------
(***************************************************************************)
(* Why a session fails.  A name or a place that was free when the request  *)
(* looked can only be lost to a row that was not there when it arrived.    *)
(***************************************************************************)

\* No row that was there when it arrived has the tenant name it is about to write.
FreshName(r) ==
  at[r] = "tenant" =>
    \A t \in Requests : <<t, "tenant">> \in before[r] => tenantName[t] # chosen[r]

\* No workspace that was there when it arrived is its tenant's, if it is about to write one.
FreshPlace(r) ==
  IsSession(r) /\ at[r] \in {"unique", "workspace"} =>
    \A w \in Requests : <<w, "workspace">> \in before[r] => workspaces[w].tenant # account[r]

Cause(r) ==
  \/ Cardinality(Owned(ask[r].email)) > 1
  \/ Cardinality(WorkspacesOf(account[r])) > 1
  \/ account[r] # None /\ ask[r].email \in LongEmails
  \/ account[r] # None /\ chosen[r] \in Names /\ (LacksSlug(chosen[r]) \/ TooLong(chosen[r]))
  \/ \E t \in Requests : <<t, "tenant">> \in TenantRows \ before[r] /\ tenantName[t] = chosen[r]
  \/ \E w \in WorkspacesOf(account[r]) : <<w, "workspace">> \notin before[r]

FailureOK(r) == IsSession(r) /\ answer[r] = "failed" /\ r \notin faulted => Cause(r)

Explained == \A r \in Requests : FreshName(r) /\ FreshPlace(r) /\ FailureOK(r)

\* Of a step of r, the rest keeps its place, its choices and its rows.
LEMMA QuietSteps ==
  ASSUME IInv, NEW r \in Requests,
         \/ ArriveSession(r) \/ ArriveKeyed(r) \/ FindAccount(r)
         \/ NameTenant(r) \/ FinalizeGoogle(r) \/ GetOrCreateWorkspace(r) \/ CheckWorkspace(r)
         \/ FindWorkspaceToPatch(r) \/ FindKeyToRevoke(r) \/ FindSubscription(r)
         \/ CommitFails(r)
  PROVE  Frame(r) /\ faulted \subseteq faulted'
<1>1. DOMAIN chosen = Requests /\ Types
  BY DEF IInv, Types
<1>2. UNCHANGED <<ask, rows>> /\ faulted \subseteq faulted'
  BY DEF rows, progress, ArriveSession, ArriveKeyed, Arrived, FindAccount,
     NameTenant, FinalizeGoogle, GetOrCreateWorkspace, CheckWorkspace, FindWorkspaceToPatch,
     FindKeyToRevoke, FindSubscription, CommitFails, Step, Go, Respond
<1>3. ASSUME NEW q \in Requests \ {r} PROVE at'[q] = at[q] /\ answer'[q] = answer[q]
  BY <1>1 DEF Types, TypeOK, ArriveSession, ArriveKeyed, FindAccount, NameTenant,
     FinalizeGoogle, GetOrCreateWorkspace, CheckWorkspace, FindWorkspaceToPatch,
     FindKeyToRevoke, FindSubscription, CommitFails, Go, Respond
<1>4. ASSUME NEW q \in Requests \ {r} PROVE account'[q] = account[q] /\ chosen'[q] = chosen[q]
  BY <1>1 DEF Types, TypeOK, progress, ArriveSession, ArriveKeyed, Arrived, FindAccount,
     NameTenant, FinalizeGoogle, GetOrCreateWorkspace, CheckWorkspace, FindWorkspaceToPatch,
     FindKeyToRevoke, FindSubscription, CommitFails
<1>5. ASSUME NEW q \in Requests \ {r} PROVE with'[q] = with[q] /\ before'[q] = before[q]
  BY <1>1 DEF Types, TypeOK, ArriveSession, ArriveKeyed, Arrived, FindAccount,
     NameTenant, FinalizeGoogle, GetOrCreateWorkspace, CheckWorkspace, FindWorkspaceToPatch,
     FindKeyToRevoke, FindSubscription, CommitFails, Go, Respond
<1> QED
  BY <1>2, <1>3, <1>4, <1>5, QuietFrame DEF rows

LEMMA CommitSteps ==
  ASSUME IInv, NEW r \in Requests,
         \/ CommitTenant(r) \/ CommitWorkspace(r) \/ CommitRename(r) \/ CommitKey(r)
         \/ CommitRevoke(r) \/ CommitSubscription(r) \/ StampKey(r)
  PROVE  Frame(r) /\ faulted' = faulted
<1>1. /\ Types /\ DOMAIN chosen = Requests
      /\ at[r] = "tenant" => tenantName[r] = None
      /\ at[r] = "workspace" => workspaces[r] = None /\ ask[r].kind # "rename"
      /\ at[r] = "key" => keys[r] = None
  BY DEF IInv, Types, RequestOK, RowsOK, KindOK
<1>2. UNCHANGED <<ask, with, before, faulted>>
  BY DEF CommitTenant, CommitWorkspace, CommitRename, CommitKey, CommitRevoke, CommitSubscription,
     StampKey, Step, Go, Respond
<1>3. ASSUME NEW q \in Requests \ {r} PROVE at'[q] = at[q] /\ answer'[q] = answer[q]
  BY <1>1 DEF Types, TypeOK, CommitTenant, CommitWorkspace, CommitRename, CommitKey, CommitRevoke,
     CommitSubscription, StampKey, Go, Respond
<1>4. ASSUME NEW q \in Requests \ {r} PROVE account'[q] = account[q] /\ chosen'[q] = chosen[q]
  BY <1>1 DEF Types, TypeOK, progress, CommitTenant, CommitWorkspace, CommitRename, CommitKey,
     CommitRevoke, CommitSubscription, StampKey
<1>5. /\ \A t \in Requests : tenantName[t] # None => tenantName'[t] = tenantName[t]
      /\ \A q \in Requests \ {r} : tenantName'[q] = tenantName[q]
  BY <1>1 DEF Types, TypeOK, CommitTenant, CommitWorkspace, CommitRename, CommitKey, CommitRevoke,
     CommitSubscription, StampKey, Step
<1>6. /\ \A k \in Requests : keys[k] # None => keys'[k] = keys[k]
      /\ \A q \in Requests \ {r} : keys'[q] = keys[q]
  BY <1>1 DEF Types, TypeOK, CommitTenant, CommitWorkspace, CommitRename, CommitKey, CommitRevoke,
     CommitSubscription, StampKey, Step
<1>7. /\ \A w \in Requests : workspaces[w] # None =>
           workspaces'[w] # None /\ workspaces'[w].tenant = workspaces[w].tenant
      /\ \A q \in Requests \ {r} : workspaces[q] = None => workspaces'[q] = None
  <2>1. CASE CommitRename(r)
    <3>1. /\ chosen[r].row \in Requests /\ workspaces[chosen[r].row] # None
          /\ workspaces[chosen[r].row].tenant = account[r]
          /\ Updated(r) # None /\ Updated(r).tenant = account[r]
      BY <2>1, UpdatedFacts, NoneAssumption DEF CommitRename, Step
    <3>2. UNCHANGED workspaces \/ workspaces' = [workspaces EXCEPT ![chosen[r].row] = Updated(r)]
      BY <2>1 DEF CommitRename, Updated
    <3> QED
      BY <1>1, <3>1, <3>2 DEF Types, TypeOK
  <2>2. CASE CommitWorkspace(r)
    BY <1>1, <2>2 DEF Types, TypeOK, CommitWorkspace, Step
  <2>3. CASE CommitTenant(r) \/ CommitKey(r) \/ CommitRevoke(r)
             \/ CommitSubscription(r) \/ StampKey(r)
    BY <2>3 DEF CommitTenant, CommitKey, CommitRevoke, CommitSubscription, StampKey
  <2> QED
    BY <2>1, <2>2, <2>3
<1> QED
  BY <1>2, <1>3, <1>4, <1>5, <1>6, <1>7 DEF Frame, Grows, Same

\* A set that grows keeps its two elements.
LEMMA LargerSets ==
  ASSUME NEW S, NEW T, S \subseteq T, T \subseteq Requests, Cardinality(S) > 1
  PROVE  Cardinality(T) > 1
<1>1. IsFiniteSet(T)
  BY RequestsAssumption, FS_Subset
<1>2. /\ IsFiniteSet(S) /\ Cardinality(S) <= Cardinality(T)
      /\ Cardinality(S) \in Nat /\ Cardinality(T) \in Nat
  BY <1>1, FS_Subset, FS_CardinalityType
<1> QED
  BY <1>2

\* More rows take no cause away.
LEMMA CausesStay ==
  ASSUME IInv, NEW q \in Requests, Grows, ask' = ask, Cause(q),
         account'[q] = account[q], chosen'[q] = chosen[q], before'[q] = before[q]
  PROVE  Cause(q)'
<1>1. /\ Owned(ask[q].email) \subseteq Owned(ask[q].email)'
      /\ \A t : WorkspacesOf(t) \subseteq {w \in Requests : workspaces'[w] # None
                                             /\ workspaces'[w].tenant = t}
      /\ TenantRows \subseteq TenantRows'
  BY GrowthFacts
<1>2. WorkspacesOf(account[q]) \subseteq WorkspacesOf(account[q])'
  BY <1>1 DEF WorkspacesOf
<1>3. CASE Cardinality(Owned(ask[q].email)) > 1
  BY <1>1, <1>3, LargerSets DEF Owned, Tenants, Cause
<1>4. CASE Cardinality(WorkspacesOf(account[q])) > 1
  BY <1>2, <1>4, LargerSets DEF WorkspacesOf, Cause
<1>5. CASE \/ account[q] # None /\ ask[q].email \in LongEmails
           \/ /\ account[q] # None /\ chosen[q] \in Names
              /\ LacksSlug(chosen[q]) \/ TooLong(chosen[q])
  BY <1>5 DEF Cause, LacksSlug, TooLong
<1>6. ASSUME NEW t \in Requests, <<t, "tenant">> \in TenantRows \ before[q],
             tenantName[t] = chosen[q]
      PROVE  Cause(q)'
  <2>1. tenantName'[t] = tenantName[t]
    BY <1>6 DEF Grows, TenantRows, Tenants
  <2> QED
    BY <1>1, <1>6, <2>1 DEF Cause
<1>7. ASSUME NEW w \in WorkspacesOf(account[q]), <<w, "workspace">> \notin before[q]
      PROVE  Cause(q)'
  BY <1>2, <1>7 DEF Cause
<1> QED
  BY <1>3, <1>4, <1>5, <1>6, <1>7 DEF Cause

\* What is there when a request arrives keeps its name and its tenant.
LEMMA OldRowsStay ==
  ASSUME IInv, NEW q \in Requests, Grows
  PROVE  /\ \A t \in Requests : <<t, "tenant">> \in before[q] =>
              tenantName[t] # None /\ tenantName'[t] = tenantName[t]
         /\ \A w \in Requests : <<w, "workspace">> \in before[q] =>
              workspaces[w] # None /\ workspaces'[w].tenant = workspaces[w].tenant
<1>1. before[q] \subseteq TenantRows \cup WorkspaceRows
  BY DEF IInv, RequestOK, BeforeOK
<1>2. \A t \in Requests : <<t, "tenant">> \in before[q] => tenantName[t] # None
  BY <1>1 DEF TenantRows, WorkspaceRows, Tenants
<1>3. \A w \in Requests : <<w, "workspace">> \in before[q] => workspaces[w] # None
  BY <1>1 DEF TenantRows, WorkspaceRows, Tenants
<1> QED
  BY <1>2, <1>3 DEF Grows

LEMMA OthersExplained ==
  ASSUME IInv, Explained, NEW r \in Requests, NEW q \in Requests \ {r}, Frame(r),
         faulted \subseteq faulted'
  PROVE  FreshName(q)' /\ FreshPlace(q)' /\ FailureOK(q)'
<1>1. FreshName(q) /\ FreshPlace(q) /\ FailureOK(q) /\ Same(q) /\ Grows /\ ask' = ask
  BY DEF Explained, Frame
<1>2. FreshName(q)' /\ FreshPlace(q)'
  BY <1>1, OldRowsStay DEF FreshName, FreshPlace, Same, IsSession
<1>3. FailureOK(q)'
  BY <1>1, CausesStay DEF FailureOK, Same, IsSession
<1> QED
  BY <1>2, <1>3

\* A session that has its response takes no step.
LEMMA Unanswered ==
  ASSUME IInv, NEW r \in Requests, at[r] # "done"
  PROVE  IsSession(r) => answer[r] # "failed"
<1>1. "failed" # None
  BY NoneAssumption DEF Responses
<1> QED
  BY <1>1 DEF IInv, RequestOK, KindOK

\* A step after which the request is not about to write, and has not failed.
LEMMA ExplainedElsewhere ==
  ASSUME NEW r \in Requests, ask' = ask,
         IsSession(r) => at'[r] \notin {"tenant", "unique", "workspace"} /\ answer'[r] # "failed",
         at'[r] # "tenant"
  PROVE  FreshName(r)' /\ FreshPlace(r)' /\ FailureOK(r)'
  BY DEF FreshName, FreshPlace, FailureOK, IsSession

\* A step by which a request learns something, or commits what nothing can refuse.
LEMMA OtherStepsExplained ==
  ASSUME IInv, Explained, NEW r \in Requests,
         \/ ArriveSession(r) \/ ArriveKeyed(r) \/ StampKey(r) \/ FinalizeGoogle(r)
         \/ FindWorkspaceToPatch(r) \/ FindKeyToRevoke(r) \/ FindSubscription(r)
         \/ CommitRevoke(r) \/ CommitSubscription(r) \/ CommitRename(r)
  PROVE  FreshName(r)' /\ FreshPlace(r)' /\ FailureOK(r)'
<1>1. /\ at[r] # "done" /\ ask' = ask /\ Types
      /\ at[r] \in {"stamp", "row", "rename", "revoke", "subscription"} => ~IsSession(r)
  BY DEF ArriveSession, ArriveKeyed, Arrived, StampKey, FinalizeGoogle, FindWorkspaceToPatch,
     FindKeyToRevoke, FindSubscription, CommitRevoke, CommitSubscription, CommitRename,
     Step, Go, Respond, IInv, RequestOK, KindOK
<1>2. IsSession(r) => answer[r] # "failed"
  BY <1>1, Unanswered
<1>3. at'[r] # "tenant"
  BY <1>1 DEF ArriveSession, ArriveKeyed, StampKey, FinalizeGoogle, FindWorkspaceToPatch,
     FindKeyToRevoke, FindSubscription, CommitRevoke, CommitSubscription, CommitRename,
     Go, Respond, Types, TypeOK
<1>4. IsSession(r) => at'[r] \notin {"tenant", "unique", "workspace"} /\ answer'[r] # "failed"
  BY <1>1, <1>2 DEF ArriveSession, ArriveKeyed, StampKey, FinalizeGoogle, FindWorkspaceToPatch,
     FindKeyToRevoke, FindSubscription, CommitRevoke, CommitSubscription, CommitRename,
     Step, Go, Respond, Types, TypeOK
<1> QED
  BY <1>1, <1>3, <1>4, ExplainedElsewhere

LEMMA CommitFailsExplained ==
  ASSUME IInv, NEW r \in Requests, CommitFails(r)
  PROVE  FreshName(r)' /\ FreshPlace(r)' /\ FailureOK(r)'
<1>1. at'[r] = "done" /\ r \in faulted'
  BY DEF CommitFails, Respond, IInv, Types, TypeOK
<1> QED
  BY <1>1 DEF FreshName, FreshPlace, FailureOK

\* A session that fails where it stands, without having written.
LEMMA FailsExplained ==
  ASSUME IInv, NEW r \in Requests, Respond(r, "failed"), UNCHANGED <<rows, chosen, account>>,
         Cause(r)
  PROVE  FreshName(r)' /\ FreshPlace(r)' /\ FailureOK(r)'
<1>1. /\ at'[r] = "done" /\ UNCHANGED <<ask, before>>
  BY DEF Respond, IInv, Types, TypeOK
<1>2. Grows
  BY DEF Grows, rows
<1>3. Cause(r)'
  BY <1>1, <1>2, CausesStay
<1> QED
  BY <1>1, <1>3 DEF FreshName, FreshPlace, FailureOK

LEMMA CommitKeyExplained ==
  ASSUME IInv, NEW r \in Requests, CommitKey(r)
  PROVE  FreshName(r)' /\ FreshPlace(r)' /\ FailureOK(r)'
<1>1. /\ at[r] = "key" /\ Types /\ ask' = ask
      /\ UNCHANGED <<account, chosen, tenantName, workspaces, stamps, subscriptions>>
  BY DEF CommitKey, Step, Go, Respond, progress, IInv
<1>2. CASE IsSession(r) /\ ask[r].email \in LongEmails
  <2>1. Respond(r, "failed") /\ UNCHANGED keys
    BY <1>2 DEF CommitKey
  <2>2. account[r] # None
    BY <1>1, <1>2, AccountFacts, NoneFacts DEF Admitted
  <2>3. Cause(r)
    BY <1>2, <2>2 DEF Cause
  <2> QED
    BY <1>1, <2>1, <2>3, FailsExplained DEF rows
<1>3. CASE ~(IsSession(r) /\ ask[r].email \in LongEmails)
  <2>1. Respond(r, "answered")
    BY <1>3 DEF CommitKey
  <2>2. at'[r] = "done" /\ answer'[r] # "failed"
    BY <1>1, <2>1 DEF Respond, Types, TypeOK
  <2> QED
    BY <1>1, <2>2, ExplainedElsewhere
<1> QED
  BY <1>2, <1>3

LEMMA FindAccountExplained ==
  ASSUME IInv, NEW r \in Requests, FindAccount(r)
  PROVE  FreshName(r)' /\ FreshPlace(r)' /\ FailureOK(r)'
<1>1. at[r] = "account" /\ UNCHANGED <<ask, rows, chosen>> /\ Types
  BY DEF FindAccount, Step, Go, Respond, IInv
<1>2. CASE Cardinality(Found(r)) > 1 /\ Respond(r, "failed") /\ UNCHANGED account
  BY <1>1, <1>2, FailsExplained DEF Found, Cause
<1>3. CASE ~(Cardinality(Found(r)) > 1 /\ Respond(r, "failed") /\ UNCHANGED account)
  <2>1. IsSession(r) => answer[r] # "failed"
    BY <1>1, Unanswered
  <2>2. \/ \E place \in {"name", "workspaces"} : Go(r, place)
        \/ Respond(r, "refused")
    BY <1>3 DEF FindAccount
  <2>3. at'[r] \notin {"tenant", "unique", "workspace"}
    BY <1>1, <2>2 DEF Go, Respond, Types, TypeOK
  <2>4. IsSession(r) => answer'[r] # "failed"
    BY <1>1, <2>1, <2>2 DEF Go, Respond, Types, TypeOK
  <2> QED
    BY <1>1, <2>3, <2>4, ExplainedElsewhere
<1> QED
  BY <1>2, <1>3

\* The name is free when it is chosen, so no tenant there was has it.
LEMMA NameTenantExplained ==
  ASSUME IInv, NEW r \in Requests, NameTenant(r)
  PROVE  FreshName(r)' /\ FreshPlace(r)' /\ FailureOK(r)'
<1>1. /\ at[r] = "name" /\ Go(r, "tenant") /\ UNCHANGED <<ask, answer, before, rows>>
      /\ Types /\ DOMAIN chosen = Requests
  BY DEF NameTenant, Step, Go, IInv, Types
<1>2. PICK n \in Names : n \notin Taken /\ chosen' = [chosen EXCEPT ![r] = n]
  BY DEF NameTenant, FreeNames
<1>3. chosen'[r] = n /\ at'[r] = "tenant"
  BY <1>1, <1>2 DEF Go, Types, TypeOK
<1>4. Grows
  BY <1>1 DEF Grows, rows
<1>5. ASSUME NEW t \in Requests, <<t, "tenant">> \in before[r] PROVE tenantName'[t] # n
  <2>1. t \in Tenants /\ tenantName'[t] = tenantName[t]
    BY <1>4, <1>5, OldRowsStay DEF Tenants
  <2> QED
    BY <1>2, <2>1 DEF Taken
<1>6. IsSession(r) => answer[r] # "failed"
  BY <1>1, Unanswered
<1> QED
  BY <1>1, <1>3, <1>5, <1>6 DEF FreshName, FreshPlace, FailureOK, IsSession

LEMMA CommitTenantExplained ==
  ASSUME IInv, Explained, NEW r \in Requests, CommitTenant(r)
  PROVE  FreshName(r)' /\ FreshPlace(r)' /\ FailureOK(r)'
<1>1. /\ at[r] = "tenant" /\ FreshName(r) /\ Types
      /\ UNCHANGED <<ask, chosen, workspaces, keys, stamps, subscriptions>>
  BY DEF CommitTenant, Step, Go, Respond, Explained, IInv
<1>2. CASE chosen[r] \in Taken
  <2>1. Respond(r, "failed") /\ UNCHANGED <<account, tenantName>>
    BY <1>2 DEF CommitTenant
  <2>2. PICK t \in Tenants : tenantName[t] = chosen[r]
    BY <1>2 DEF Taken
  <2>3. t \in Requests /\ <<t, "tenant">> \in TenantRows \ before[r]
    BY <1>1, <2>2 DEF FreshName, TenantRows, Tenants
  <2>4. Cause(r)
    BY <2>2, <2>3 DEF Cause
  <2> QED
    BY <1>1, <2>1, <2>4, FailsExplained DEF rows
<1>3. CASE chosen[r] \notin Taken
  <2>1. \E place \in {"finalize", "workspaces"} : Go(r, place)
    BY <1>3 DEF CommitTenant
  <2>2. at'[r] \in {"finalize", "workspaces"} /\ answer' = answer
    BY <1>1, <2>1 DEF Go, Types, TypeOK
  <2>3. IsSession(r) => answer[r] # "failed"
    BY <1>1, Unanswered
  <2> QED
    BY <1>1, <2>2, <2>3, ExplainedElsewhere
<1> QED
  BY <1>2, <1>3

\* A session makes a workspace only in a tenant that has none.
LEMMA GetOrCreateWorkspaceExplained ==
  ASSUME IInv, NEW r \in Requests, GetOrCreateWorkspace(r)
  PROVE  FreshName(r)' /\ FreshPlace(r)' /\ FailureOK(r)'
<1>1. at[r] = "workspaces" /\ UNCHANGED <<ask, account, rows>> /\ Types
  BY DEF GetOrCreateWorkspace, Step, Go, Respond, IInv
<1>2. IsSession(r) => answer[r] # "failed"
  BY <1>1, Unanswered
<1>3. CASE /\ Cardinality(WorkspacesOf(account[r])) > 1
           /\ Respond(r, "failed") /\ UNCHANGED chosen
  BY <1>1, <1>3, FailsExplained DEF Cause
<1>4. CASE Go(r, "key")
  <2>1. at'[r] = "key" /\ answer' = answer
    BY <1>1, <1>4 DEF Go, Types, TypeOK
  <2> QED
    BY <1>1, <1>2, <2>1, ExplainedElsewhere
<1>5. CASE WorkspacesOf(account[r]) = {} /\ Go(r, "unique")
  <2>1. at'[r] = "unique" /\ UNCHANGED <<answer, before>>
    BY <1>1, <1>5 DEF Go, Types, TypeOK
  <2>2. Grows
    BY <1>1 DEF Grows, rows
  <2>3. ASSUME NEW w \in Requests, <<w, "workspace">> \in before[r]
        PROVE  workspaces[w].tenant # account[r]
    <3>1. workspaces[w] # None
      BY <2>2, <2>3, OldRowsStay
    <3> QED
      BY <1>5, <3>1 DEF WorkspacesOf
  <2> QED
    BY <1>1, <1>2, <2>1, <2>3 DEF FreshName, FreshPlace, FailureOK, IsSession, rows
<1> QED
  BY <1>3, <1>4, <1>5 DEF GetOrCreateWorkspace

\* A workspace that is in the way was not there when the session arrived.
LEMMA ClashesAreNew ==
  ASSUME IInv, NEW r \in Requests, FreshPlace(r), IsSession(r),
         at[r] \in {"unique", "workspace"}, Clashes(r)
  PROVE  Cause(r)
<1>1. PICK w \in WorkspacesOf(account[r]) : TRUE
  BY DEF Clashes
<1>2. <<w, "workspace">> \notin before[r]
  BY <1>1 DEF FreshPlace, WorkspacesOf
<1> QED
  BY <1>1, <1>2 DEF Cause

LEMMA CheckWorkspaceExplained ==
  ASSUME IInv, Explained, NEW r \in Requests, CheckWorkspace(r)
  PROVE  FreshName(r)' /\ FreshPlace(r)' /\ FailureOK(r)'
<1>1. /\ at[r] = "unique" /\ UNCHANGED <<ask, before, rows, chosen, account>> /\ Types
      /\ FreshPlace(r)
  BY DEF CheckWorkspace, Step, Go, Respond, progress, IInv, Explained
<1> DEFINE refused == SlugRefused(r) \/ (Compared(r) /\ Clashes(r))
<1>2. CASE IsSession(r) /\ refused
  <2>1. ask[r].kind # "rename" /\ chosen[r] \in Names
    BY <1>1, <1>2 DEF IInv, RequestOK, ChosenOK, IsSession, Sessions
  <2>2. SlugRefused(r) => LacksSlug(chosen[r]) \/ TooLong(chosen[r])
    BY <1>2 DEF SlugRefused, SlugSource, GivesSlug
  <2>3. account[r] # None
    BY <1>1, <1>2, AccountFacts, NoneFacts DEF Admitted
  <2>4. Cause(r)
    BY <1>1, <1>2, <2>1, <2>2, <2>3, ClashesAreNew DEF Cause
  <2>5. Respond(r, "failed")
    BY <1>2 DEF CheckWorkspace
  <2> QED
    BY <1>1, <2>4, <2>5, FailsExplained
<1>3. CASE ~IsSession(r) /\ refused
  <2>1. Respond(r, "refused")
    BY <1>3 DEF CheckWorkspace
  <2>2. at'[r] = "done"
    BY <1>1, <2>1 DEF Respond, Types, TypeOK
  <2> QED
    BY <1>1, <1>3, <2>2, ExplainedElsewhere
<1>4. CASE ~refused
  <2>1. \E place \in {"rename", "workspace"} : Go(r, place)
    BY <1>4 DEF CheckWorkspace
  <2>2. at'[r] \in {"rename", "workspace"} /\ answer' = answer
    BY <1>1, <2>1 DEF Go, Types, TypeOK
  <2>3. IsSession(r) => answer[r] # "failed"
    BY <1>1, Unanswered
  <2> QED
    BY <1>1, <2>2, <2>3 DEF FreshName, FreshPlace, FailureOK, IsSession, rows
<1> QED
  BY <1>2, <1>3, <1>4

LEMMA CommitWorkspaceExplained ==
  ASSUME IInv, Explained, NEW r \in Requests, CommitWorkspace(r)
  PROVE  FreshName(r)' /\ FreshPlace(r)' /\ FailureOK(r)'
<1>1. /\ at[r] = "workspace" /\ Types /\ FreshPlace(r) /\ ask' = ask
      /\ UNCHANGED <<account, tenantName, keys, stamps, subscriptions>>
  BY DEF CommitWorkspace, Step, Go, Respond, IInv, Explained
<1>2. CASE IsSession(r) /\ Clashes(r)
  <2>1. Respond(r, "failed") /\ UNCHANGED <<chosen, workspaces>>
    BY <1>2 DEF CommitWorkspace
  <2> QED
    BY <1>1, <1>2, <2>1, ClashesAreNew, FailsExplained DEF rows
<1>3. CASE ~(IsSession(r) /\ Clashes(r))
  <2>1. IF IsSession(r) THEN Go(r, "key") ELSE \E a \in Responses : Respond(r, a)
    BY <1>3 DEF CommitWorkspace, Responses
  <2>2. at'[r] \in {"key", "done"} /\ (IsSession(r) => answer' = answer)
    BY <1>1, <2>1 DEF Go, Respond, Types, TypeOK
  <2>3. IsSession(r) => answer[r] # "failed"
    BY <1>1, Unanswered
  <2>4. IsSession(r) => at'[r] = "key"
    BY <1>1, <2>1 DEF Go, Types, TypeOK
  <2> QED
    BY <1>1, <2>2, <2>3, <2>4, ExplainedElsewhere
<1> QED
  BY <1>2, <1>3

LEMMA NextExplained == IInv /\ Explained /\ [Next]_vars => Explained'
<1> SUFFICES ASSUME IInv, Explained, [Next]_vars PROVE Explained'
  OBVIOUS
<1>1. ASSUME NEW r \in Requests, Frame(r), faulted \subseteq faulted',
             FreshName(r)' /\ FreshPlace(r)' /\ FailureOK(r)'
      PROVE  Explained'
  BY <1>1, OthersExplained DEF Explained
<1>2. CASE UNCHANGED vars
  BY <1>2 DEF Explained, FreshName, FreshPlace, FailureOK, Cause, IsSession, Owned, Tenants,
     WorkspacesOf, TenantRows, LacksSlug, TooLong, vars, rows, progress
<1>3. ASSUME NEW r \in Requests, FindAccount(r) PROVE Explained'
  BY <1>1, <1>3, QuietSteps, FindAccountExplained
<1>4. ASSUME NEW r \in Requests, NameTenant(r) PROVE Explained'
  BY <1>1, <1>4, QuietSteps, NameTenantExplained
<1>5. ASSUME NEW r \in Requests, CommitTenant(r) PROVE Explained'
  BY <1>1, <1>5, CommitSteps, CommitTenantExplained
<1>6. ASSUME NEW r \in Requests, GetOrCreateWorkspace(r) PROVE Explained'
  BY <1>1, <1>6, QuietSteps, GetOrCreateWorkspaceExplained
<1>7. ASSUME NEW r \in Requests, CheckWorkspace(r) PROVE Explained'
  BY <1>1, <1>7, QuietSteps, CheckWorkspaceExplained
<1>8. ASSUME NEW r \in Requests, CommitWorkspace(r) PROVE Explained'
  BY <1>1, <1>8, CommitSteps, CommitWorkspaceExplained
<1>9. ASSUME NEW r \in Requests, CommitFails(r) PROVE Explained'
  BY <1>1, <1>9, QuietSteps, CommitFailsExplained
<1>10. ASSUME NEW r \in Requests,
              \/ ArriveSession(r) \/ ArriveKeyed(r) \/ FinalizeGoogle(r)
              \/ FindWorkspaceToPatch(r) \/ FindKeyToRevoke(r) \/ FindSubscription(r)
       PROVE  Explained'
  BY <1>1, <1>10, QuietSteps, OtherStepsExplained
<1>11. ASSUME NEW r \in Requests,
              StampKey(r) \/ CommitRevoke(r) \/ CommitSubscription(r) \/ CommitRename(r)
       PROVE  Explained'
  BY <1>1, <1>11, CommitSteps, OtherStepsExplained
<1>12. ASSUME NEW r \in Requests, CommitKey(r) PROVE Explained'
  BY <1>1, <1>12, CommitSteps, CommitKeyExplained
<1> QED
  BY <1>2, <1>3, <1>4, <1>5, <1>6, <1>7, <1>8, <1>9, <1>10, <1>11, <1>12 DEF Next

LEMMA InitExplained == Init => Explained
<1> SUFFICES ASSUME Init PROVE Explained
  OBVIOUS
<1>1. "failed" # None
  BY NoneAssumption DEF Responses
<1> QED
  BY <1>1 DEF Init, Explained, FreshName, FreshPlace, FailureOK

\* Whatever the requests, a session that fails with the database at work has one of the
\* seven causes: no other failure is waiting in the order of its statements.
THEOREM FailuresHaveACause == Spec => []FailsForACause
<1>1. Explained => FailsForACause
  BY DEF Explained, FailureOK, Cause, FailsForACause
<1> QED
  BY <1>1, InitExplained, NextExplained, Invariance, PTL DEF Spec

-----------------------------------------------------------------------------
(***************************************************************************)
(* A revocation holds.  No step takes revoked_at away: a key is stamped by *)
(* requests whose copy of its row has none, and those write last_used_at   *)
(* only; a revocation sets it, whatever its copy.                          *)
(***************************************************************************)
Held(r) ==
  ask[r].kind = "revoke" /\ answer[r] = "answered" =>
    chosen[r].row \in Requests /\ Revoked(chosen[r].row)

\* What a step does to the times of keys.
LEMMA RevokedStays ==
  ASSUME IInv, [Next]_vars
  PROVE  \A k \in Requests : Revoked(k) => Revoked(k)'
<1>1. CASE UNCHANGED stamps
  BY <1>1 DEF Revoked
<1>2. ASSUME NEW r \in Requests, StampKey(r)
      PROVE  \A k \in Requests : Revoked(k) => Revoked(k)'
  BY <1>2, StampFacts DEF Revoked
<1>3. ASSUME NEW r \in Requests, CommitRevoke(r)
      PROVE  \A k \in Requests : Revoked(k) => Revoked(k)'
  BY <1>3, RevokeFacts, NoneFacts DEF Revoked
<1>4. ASSUME NEW r \in Requests,
             \/ ArriveSession(r) \/ ArriveKeyed(r)
             \/ FindAccount(r) \/ NameTenant(r) \/ CommitTenant(r) \/ FinalizeGoogle(r)
             \/ GetOrCreateWorkspace(r) \/ CheckWorkspace(r) \/ CommitWorkspace(r)
             \/ CommitRename(r) \/ FindWorkspaceToPatch(r) \/ FindKeyToRevoke(r)
             \/ FindSubscription(r) \/ CommitKey(r) \/ CommitSubscription(r) \/ CommitFails(r)
      PROVE  UNCHANGED stamps
  BY <1>4 DEF rows, ArriveSession, ArriveKeyed, Arrived, FindAccount, NameTenant, CommitTenant,
     FinalizeGoogle, GetOrCreateWorkspace, CheckWorkspace, CommitWorkspace, CommitRename,
     FindWorkspaceToPatch, FindKeyToRevoke, FindSubscription, CommitKey, CommitSubscription,
     CommitFails
<1>5. CASE UNCHANGED vars
  BY <1>1, <1>5 DEF vars, rows
<1> QED
  BY <1>1, <1>2, <1>3, <1>4, <1>5 DEF Next

\* A request that revokes is answered by its commit, or by a row that is revoked already.
LEMMA RevokerHeld ==
  ASSUME IInv, NEW r \in Requests, ask[r].kind = "revoke", at[r] # "done",
         ArriveKeyed(r) \/ StampKey(r) \/ FindKeyToRevoke(r) \/ CommitRevoke(r) \/ CommitFails(r)
  PROVE  Held(r)'
<1>1. Types /\ RequestOK(r) /\ answer[r] # "answered"
  <2>1. "answered" # None
    BY NoneAssumption DEF Responses
  <2> QED
    BY <2>1 DEF IInv, RequestOK, KindOK
<1>2. CASE ArriveKeyed(r) \/ StampKey(r) \/ CommitFails(r)
  <2>1. answer'[r] # "answered"
    BY <1>1, <1>2 DEF ArriveKeyed, StampKey, CommitFails, Go, Respond, Types, TypeOK
  <2> QED
    BY <2>1 DEF Held
<1>3. CASE CommitRevoke(r)
  <2>1. chosen' = chosen
    BY <1>3 DEF CommitRevoke, progress
  <2> QED
    BY <1>3, <2>1, RevokeFacts, NoneFacts DEF Held, Revoked
<1>4. CASE FindKeyToRevoke(r)
  <2>1. at[r] = "row" /\ UNCHANGED rows /\ chosen[r].was.revoked_at = None
    BY <1>1, <1>4 DEF FindKeyToRevoke, Step, RequestOK, ChosenOK, ReadValid
  <2>2. PICK k \in Requests :
          IF k \in Issued /\ Visible(r, keys[k])
          THEN \E copy \in Copies(r, k) :
                 /\ chosen' = [chosen EXCEPT ![r] = [row |-> k, was |-> copy]]
                 /\ IF copy.revoked_at # None THEN Respond(r, "answered") ELSE Go(r, "revoke")
          ELSE Respond(r, "refused") /\ UNCHANGED chosen
    BY <1>4 DEF FindKeyToRevoke
  <2>3. CASE Respond(r, "refused") \/ Go(r, "revoke")
    <3>1. answer'[r] # "answered"
      BY <1>1, <2>3 DEF Go, Respond, Types, TypeOK
    <3> QED
      BY <3>1 DEF Held
  <2>4. ASSUME NEW copy \in Copies(r, k), copy.revoked_at # None,
               chosen' = [chosen EXCEPT ![r] = [row |-> k, was |-> copy]]
        PROVE  Held(r)'
    <3>1. copy = stamps[k]
      BY <2>1, <2>4 DEF Copies
    <3>2. chosen'[r] = [row |-> k, was |-> copy]
      BY <1>1, <2>4, ChooseFacts DEF Types
    <3>3. Revoked(k)'
      BY <2>1, <2>4, <3>1 DEF Revoked, rows
    <3> QED
      BY <3>2, <3>3 DEF Held, Revoked
  <2> QED
    BY <2>2, <2>3, <2>4
<1> QED
  BY <1>2, <1>3, <1>4

LEMMA NextHeld ==
  ASSUME IInv, [Next]_vars, NEW q \in Requests, Held(q)
  PROVE  Held(q)'
<1>1. CASE ask' = ask /\ chosen'[q] = chosen[q] /\ answer'[q] = answer[q]
  BY <1>1, RevokedStays DEF Held, Revoked
<1>2. CASE UNCHANGED vars
  BY <1>1, <1>2 DEF vars, progress
<1>3. CASE ask[q].kind # "revoke"
  <2>1. ask' = ask
    BY DEF Next, vars, ArriveSession, ArriveKeyed, Arrived, StampKey, FindAccount, NameTenant,
       CommitTenant, FinalizeGoogle, GetOrCreateWorkspace, CheckWorkspace, CommitWorkspace,
       CommitRename, FindWorkspaceToPatch, FindKeyToRevoke, FindSubscription, CommitKey,
       CommitRevoke, CommitSubscription, CommitFails, Go, Respond
  <2> QED
    BY <1>3, <2>1 DEF Held
<1>4. ASSUME ask[q].kind = "revoke", NEW r \in Requests,
             \/ ArriveSession(r) \/ ArriveKeyed(r) \/ FindAccount(r)
             \/ NameTenant(r) \/ FinalizeGoogle(r) \/ GetOrCreateWorkspace(r) \/ CheckWorkspace(r)
             \/ FindWorkspaceToPatch(r) \/ FindKeyToRevoke(r) \/ FindSubscription(r)
             \/ CommitFails(r) \/ CommitTenant(r) \/ CommitWorkspace(r) \/ CommitRename(r)
             \/ CommitKey(r) \/ CommitRevoke(r) \/ CommitSubscription(r) \/ StampKey(r)
      PROVE  Held(q)'
  <2>1. Frame(r)
    BY <1>4, QuietSteps, CommitSteps
  <2>2. CASE q # r
    BY <1>1, <2>1, <2>2 DEF Frame, Same
  <2>3. CASE /\ q = r
             /\ ArriveKeyed(r) \/ StampKey(r) \/ FindKeyToRevoke(r) \/ CommitRevoke(r) \/ CommitFails(r)
    <3>1. at[r] # "done"
      BY <2>3 DEF ArriveKeyed, Arrived, StampKey, FindKeyToRevoke, CommitRevoke, CommitFails, Step,
         Commits
    <3> QED
      BY <1>4, <2>3, <3>1, RevokerHeld
  <2>4. ASSUME q = r,
               ~(ArriveKeyed(r) \/ StampKey(r) \/ FindKeyToRevoke(r) \/ CommitRevoke(r) \/ CommitFails(r))
        PROVE  FALSE
    <3>1. ~IsSession(r) /\ at[r] \in {"idle", "stamp", "row", "revoke", "done"}
      BY <1>4, <2>4 DEF IInv, RequestOK, KindOK, IsSession, Sessions
    <3> QED
      BY <1>4, <2>4, <3>1
         DEF ArriveSession, FindAccount, NameTenant, FinalizeGoogle, GetOrCreateWorkspace,
             CheckWorkspace, FindWorkspaceToPatch, FindSubscription, CommitTenant,
             CommitWorkspace, CommitRename, CommitKey, CommitSubscription, Step
  <2> QED
    BY <2>2, <2>3, <2>4
<1> QED
  BY <1>2, <1>3, <1>4 DEF Next

\* Whatever the requests, and whatever copies of the key's row their sessions hold, a
\* revocation that was answered holds.
THEOREM RevocationIsFinal == Spec => []RevocationHolds
<1>1. Init => \A r \in Requests : Held(r)
  <2>1. "answered" # None
    BY NoneAssumption DEF Responses
  <2> QED
    BY <2>1 DEF Init, Held
<1>2. IInv /\ (\A r \in Requests : Held(r)) /\ [Next]_vars => (\A r \in Requests : Held(r))'
  BY NextHeld
<1>3. (\A r \in Requests : Held(r)) => RevocationHolds
  BY DEF Held, RevocationHolds
<1> QED
  BY <1>1, <1>2, <1>3, Invariance, PTL DEF Spec
=============================================================================
