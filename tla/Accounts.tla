------------------------------ MODULE Accounts ------------------------------
(***************************************************************************)
(* Accounts (services/auth.py), their workspaces (services/workspaces.py), *)
(* API keys (services/api_keys.py, api/deps.py) and subscriptions          *)
(* (services/billing.py).  Every step is one database statement that a     *)
(* decision rests on, or one commit; requests interleave between them.     *)
(*                                                                         *)
(* A row is named by the request that inserts it, for no request inserts   *)
(* two rows of a kind.  Rows of these kinds are never deleted.             *)
(***************************************************************************)
EXTENDS Naturals, FiniteSets

CONSTANTS
  Requests,   \* the requests of a behaviour
  Emails, Passwords,
  Words,      \* what people call an organization
  Slugless,   \* the words without an ASCII letter or digit
  Long,       \* the words that make a slug of more than 120 characters
  LongEmails, \* the addresses that make a key's label of more than 255 characters
  Scenarios,  \* what the requests may ask for: functions to Asks
  None,
  MaxFaults   \* bound: commits that fail in one behaviour

Sessions == {"sign_up", "sign_in", "google"}
Keyed == {"workspace", "rename", "key", "revoke", "billing"}

\* The second organization of a name is called "name 2", and so on.
Names == Words \X (1 .. Cardinality(Requests))

\* name: the organization's word; workspace, slug: the name of a workspace and the text
\* of its slug; patch: which of the two a PATCH sets, and whether a POST brings a slug.
Asks ==
  [kind : Sessions \cup Keyed, email : Emails, password : Passwords, name : Words,
   workspace : Names, slug : Names, patch : SUBSET {"name", "slug"}]

ASSUME RequestsAssumption == IsFiniteSet(Requests) /\ None \notin Requests \cup Names
ASSUME WordsAssumption == Slugless \cup Long \subseteq Words /\ LongEmails \subseteq Emails
ASSUME ScenariosAssumption == Scenarios \subseteq [Requests -> Asks]
ASSUME MaxFaultsAssumption == MaxFaults \in Nat

VARIABLES
  ask,            \* request -> what it asks for
  at,             \* request -> where its handler is
  account,        \* request -> its tenant
  chosen,         \* request -> the tenant name or the workspace it has chosen, or a row
                  \* and what its session has read of it
  with,           \* request -> the API key it came with
  answer,         \* request -> its response
  tenantName,     \* tenant -> tenants.name
  workspaces,     \* workspace -> its tenant, name and slug
  keys,           \* API key -> its tenant
  stamps,         \* API key -> its revoked_at and its last_used_at
  subscriptions,  \* the tenants with a subscription
  before,         \* request -> the rows committed when it arrived
  faulted         \* the requests of which a commit failed

rows == <<tenantName, workspaces, keys, stamps, subscriptions>>
progress == <<account, chosen>>
vars == <<ask, at, progress, with, answer, rows, before, faulted>>

IsSession(r) == ask[r].kind \in Sessions

Tenants == {t \in Requests : tenantName[t] # None}
Owned(email) == {t \in Tenants : ask[t].email = email}
WorkspacesOf(t) == {w \in Requests : workspaces[w] # None /\ workspaces[w].tenant = t}
Issued == {k \in Requests : keys[k] # None}
Revoked(k) == stamps[k].revoked_at # None

TenantRows == Tenants \X {"tenant"}
WorkspaceRows == {w \in Requests : workspaces[w] # None} \X {"workspace"}

\* refused: a 4xx response; failed: a 500.
Responses == {"answered", "refused", "failed"}

Workspace == [tenant : Requests, name : Names, slug : Names]

\* A time is named by the request that wrote it.
Stamps == [revoked_at : Requests \cup {None}, last_used_at : Requests \cup {None}]

ASSUME NoneAssumption == None \notin Responses \cup Workspace

Commits ==
  {"tenant", "finalize", "workspace", "stamp", "rename", "key", "revoke", "subscription"}
Places == {"idle", "account", "name", "workspaces", "row", "unique", "done"} \cup Commits

Init ==
  /\ ask \in Scenarios
  /\ at = [r \in Requests |-> "idle"]
  /\ account = [r \in Requests |-> None]
  /\ chosen = [r \in Requests |-> None]
  /\ with = [r \in Requests |-> None]
  /\ answer = [r \in Requests |-> None]
  /\ tenantName = [t \in Requests |-> None]
  /\ workspaces = [w \in Requests |-> None]
  /\ keys = [k \in Requests |-> None]
  /\ stamps = [k \in Requests |-> [revoked_at |-> None, last_used_at |-> None]]
  /\ subscriptions = {}
  /\ before = [r \in Requests |-> {}]
  /\ faulted = {}

-----------------------------------------------------------------------------
\* What a handler does next: it goes on, or it responds.
Go(r, place) ==
  /\ at' = [at EXCEPT ![r] = place]
  /\ UNCHANGED <<ask, with, answer, before>>

Respond(r, response) ==
  /\ at' = [at EXCEPT ![r] = "done"]
  /\ answer' = [answer EXCEPT ![r] = response]
  /\ UNCHANGED <<ask, with, before>>

\* A commit that fails is rolled back; every handler turns it into a 500.  So does
\* get_tenant_context, which ignores the failure: the rollback has expired the key's
\* record, and an async session does not load its attributes again when they are read.
CommitFails(r) ==
  /\ at[r] \in Commits
  /\ Cardinality(faulted) < MaxFaults
  /\ faulted' = faulted \cup {r}
  /\ Respond(r, "failed")
  /\ UNCHANGED <<progress, rows>>

Step(r, place) == at[r] = place /\ UNCHANGED faulted

Arrived(r) ==
  /\ at[r] = "idle"
  /\ before' = [before EXCEPT ![r] = TenantRows \cup WorkspaceRows]
  /\ UNCHANGED <<ask, rows, faulted>>

\* Variant for testing RevocationHolds: every column is set.
WrittenWhole(row, was, wanted) == wanted

\* What an UPDATE makes of a row: it sets the columns that differ from what was read.
Written(row, was, wanted) ==
  [c \in DOMAIN row |-> IF wanted[c] = was[c] THEN row[c] ELSE wanted[c]]

-----------------------------------------------------------------------------
\* Sign-up, sign-in and the Google callback.
ArriveSession(r) ==
  /\ IsSession(r)
  /\ Arrived(r)
  /\ at' = [at EXCEPT ![r] = "account"]
  /\ UNCHANGED <<account, chosen, with, answer>>

\* Variant for testing AnsweredIsComplete: any password will do.
PasswordIgnored(t, r) == TRUE

\* Google accounts have a password nobody knows.
PasswordIs(t, r) == ask[t].kind = "sign_up" /\ ask[t].password = ask[r].password

\* Variant for testing TwinsRaced: a sign-up does not look for the account.
FoundBySignIn(r) == IF ask[r].kind = "sign_up" THEN {} ELSE Owned(ask[r].email)

Found(r) == Owned(ask[r].email)

\* scalar_one_or_none raises when there are two.
FindAccount(r) ==
  /\ Step(r, "account")
  /\ UNCHANGED <<rows, chosen>>
  /\ \/ /\ Cardinality(Found(r)) > 1
        /\ Respond(r, "failed")
        /\ UNCHANGED account
     \/ /\ Found(r) = {}
        /\ IF ask[r].kind = "sign_in" THEN Respond(r, "refused") ELSE Go(r, "name")
        /\ UNCHANGED account
     \/ \E t \in Requests :
          /\ Found(r) = {t}
          /\ account' = [account EXCEPT ![r] = t]
          /\ IF \/ ask[r].kind = "google"
                \/ ask[r].kind = "sign_in" /\ PasswordIs(t, r)
             THEN Go(r, "workspaces")
             ELSE Respond(r, "refused")

Taken == {tenantName[t] : t \in Tenants}

\* Variant for testing FailsForACause: the desired name is taken as it is.
DesiredNames(r) == {<<ask[r].name, 1>>}

\* The first free name of desired, desired 2, desired 3, ...
FreeNames(r) ==
  {n \in Names :
     /\ n[1] = ask[r].name
     /\ n \notin Taken
     /\ \A k \in 1 .. (n[2] - 1) : <<n[1], k>> \in Taken}

NameTenant(r) ==
  /\ Step(r, "name")
  /\ \E n \in FreeNames(r) : chosen' = [chosen EXCEPT ![r] = n]
  /\ Go(r, "tenant")
  /\ UNCHANGED <<account, rows>>

\* The names of tenants are unique, their owners' addresses are not.
CommitTenant(r) ==
  /\ Step(r, "tenant")
  /\ UNCHANGED <<chosen, workspaces, keys, stamps, subscriptions>>
  /\ IF chosen[r] \in Taken
     THEN Respond(r, "failed") /\ UNCHANGED <<account, tenantName>>
     ELSE /\ tenantName' = [tenantName EXCEPT ![r] = chosen[r]]
          /\ account' = [account EXCEPT ![r] = r]
          /\ Go(r, IF ask[r].kind = "google" THEN "finalize" ELSE "workspaces")

\* The policy of a new Google account is written again; it starts without a workspace.
FinalizeGoogle(r) ==
  /\ Step(r, "finalize")
  /\ chosen' = [chosen EXCEPT ![r] = None]
  /\ Go(r, "key")
  /\ UNCHANGED <<account, rows>>

\* Two workspaces make scalar_one_or_none raise, one is the session's, and without
\* one it is created: named by the sign-up, or after the tenant by a later session.
GetOrCreateWorkspace(r) ==
  LET mine == WorkspacesOf(account[r]) IN
  /\ Step(r, "workspaces")
  /\ UNCHANGED <<account, rows>>
  /\ \/ /\ Cardinality(mine) > 1
        /\ Respond(r, "failed")
        /\ UNCHANGED chosen
     \/ \E w \in mine :
          /\ mine = {w}
          /\ chosen' = [chosen EXCEPT ![r] = w]
          /\ Go(r, "key")
     \/ /\ mine = {}
        /\ chosen' = [chosen EXCEPT ![r] =
                        IF ask[r].kind = "sign_up" THEN ask[r].workspace
                        ELSE tenantName[account[r]]]
        /\ Go(r, "unique")

-----------------------------------------------------------------------------
\* Requests with an API key: get_tenant_context reads the key's row, then stores when it
\* was used.
ArriveKeyed(r) ==
  /\ ~IsSession(r)
  /\ Arrived(r)
  /\ \E k \in Requests :
       /\ k \in Issued => answer[k] = "answered"
       /\ with' = [with EXCEPT ![r] = k]
       /\ IF k \in Issued /\ ~Revoked(k)
          THEN /\ account' = [account EXCEPT ![r] = keys[k]]
               /\ chosen' = [chosen EXCEPT ![r] = [row |-> k, was |-> stamps[k]]]
               /\ at' = [at EXCEPT ![r] = "stamp"]
               /\ UNCHANGED answer
          ELSE /\ at' = [at EXCEPT ![r] = "done"]
               /\ answer' = [answer EXCEPT ![r] = "refused"]
               /\ UNCHANGED <<account, chosen>>

StampKey(r) ==
  LET used == [chosen[r].was EXCEPT !.last_used_at = r] IN
  /\ Step(r, "stamp")
  /\ stamps' = [stamps EXCEPT ![with[r]] = Written(stamps[with[r]], chosen[r].was, used)]
  /\ UNCHANGED <<account, tenantName, workspaces, keys, subscriptions>>
  /\ \/ /\ ask[r].kind = "workspace"
        /\ chosen' = [chosen EXCEPT ![r] = ask[r].workspace]
        /\ Go(r, "unique")
     \/ /\ ask[r].kind = "key"
        /\ Go(r, "key")
        /\ UNCHANGED chosen
     \/ /\ ask[r].kind \in {"rename", "revoke", "billing"}
        /\ Go(r, "row")
        /\ chosen' = [chosen EXCEPT ![r] = [row |-> with[r], was |-> used]]

\* Variant for testing OwnTenantOnly: rows are found by their key alone.
VisibleToAll(r, tenant) == tenant # None

\* Rows are found within the tenant of the API key.
Visible(r, tenant) == tenant = account[r]

FindWorkspaceToPatch(r) ==
  /\ Step(r, "row") /\ ask[r].kind = "rename"
  /\ UNCHANGED <<account, rows>>
  /\ \E w \in Requests :
       IF workspaces[w] # None /\ Visible(r, workspaces[w].tenant)
       THEN /\ chosen' = [chosen EXCEPT ![r] = [row |-> w, was |-> workspaces[w]]]
            /\ Go(r, "unique")
       ELSE Respond(r, "refused") /\ UNCHANGED chosen

\* The row of the key that the request came with may still be in its session, which
\* keeps what it has read and written.
Copies(r, k) == {stamps[k]} \cup (IF k = chosen[r].row THEN {chosen[r].was} ELSE {})

FindKeyToRevoke(r) ==
  /\ Step(r, "row") /\ ask[r].kind = "revoke"
  /\ UNCHANGED <<account, rows>>
  /\ \E k \in Requests :
       IF k \in Issued /\ Visible(r, keys[k])
       THEN \E copy \in Copies(r, k) :
              /\ chosen' = [chosen EXCEPT ![r] = [row |-> k, was |-> copy]]
              /\ IF copy.revoked_at # None THEN Respond(r, "answered") ELSE Go(r, "revoke")
       ELSE Respond(r, "refused") /\ UNCHANGED chosen

FindSubscription(r) ==
  /\ Step(r, "row") /\ ask[r].kind = "billing"
  /\ UNCHANGED <<progress, rows>>
  /\ IF account[r] \in subscriptions THEN Respond(r, "answered") ELSE Go(r, "subscription")

-----------------------------------------------------------------------------
\* Different names are taken to have different slugs, but for the names of a long word,
\* whose first 120 characters agree.  A number makes a slug of any name.
LacksSlug(name) == name[1] \in Slugless /\ name[2] = 1
TooLong(name) == name[1] \in Long
SlugOf(name) == IF TooLong(name) THEN <<name[1], 1>> ELSE name

\* The slug that a request brings, or the name that one is made from.
GivesSlug(r) == ~IsSession(r) /\ "slug" \in ask[r].patch
SlugSource(r) == IF GivesSlug(r) THEN ask[r].slug ELSE chosen[r]

\* The workspace as the request wants it.
Wanted(r) ==
  IF ask[r].kind = "rename"
  THEN [tenant |-> account[r],
        name |-> IF "name" \in ask[r].patch THEN ask[r].workspace ELSE chosen[r].was.name,
        slug |-> IF GivesSlug(r) THEN SlugOf(ask[r].slug) ELSE chosen[r].was.slug]
  ELSE [tenant |-> account[r], name |-> chosen[r], slug |-> SlugOf(SlugSource(r))]

Itself(r) == IF ask[r].kind = "rename" THEN {chosen[r].row} ELSE {}

Clash(w, wanted) == workspaces[w].name = wanted.name \/ workspaces[w].slug = wanted.slug

Clashes(r) ==
  \E w \in WorkspacesOf(account[r]) \ Itself(r) : Clash(w, Wanted(r))

\* A slug of no characters, or of more than the field of a request holds: a session puts
\* the slug it makes into such a request uncut, a POST without one has it made and cut.
SlugRefused(r) ==
  \/ ask[r].kind # "rename" /\ LacksSlug(SlugSource(r))
  \/ GivesSlug(r) /\ (LacksSlug(ask[r].slug) \/ TooLong(ask[r].slug))
  \/ IsSession(r) /\ TooLong(chosen[r])

\* A PATCH that changes neither name nor slug is not compared with the others.
Compared(r) == ask[r].kind = "rename" => Wanted(r) # chosen[r].was

\* The workspace routes translate the errors of the service, those of the sessions
\* translate only their own.
CheckWorkspace(r) ==
  /\ Step(r, "unique")
  /\ UNCHANGED <<progress, rows>>
  /\ IF SlugRefused(r) \/ (Compared(r) /\ Clashes(r))
     THEN Respond(r, IF IsSession(r) THEN "failed" ELSE "refused")
     ELSE Go(r, IF ask[r].kind = "rename" THEN "rename" ELSE "workspace")

\* Names and slugs are unique within a tenant.
CommitWorkspace(r) ==
  /\ Step(r, "workspace")
  /\ UNCHANGED <<account, tenantName, keys, stamps, subscriptions>>
  /\ IF Clashes(r)
     THEN Respond(r, "failed") /\ UNCHANGED <<chosen, workspaces>>
     ELSE /\ workspaces' = [workspaces EXCEPT ![r] = Wanted(r)]
          /\ chosen' = [chosen EXCEPT ![r] = r]
          /\ IF IsSession(r) THEN Go(r, "key") ELSE Respond(r, "answered")

CommitRename(r) ==
  LET w == chosen[r].row
      updated == Written(workspaces[w], chosen[r].was, Wanted(r)) IN
  /\ Step(r, "rename")
  /\ UNCHANGED <<progress, tenantName, keys, stamps, subscriptions>>
  /\ IF \E other \in WorkspacesOf(account[r]) \ {w} : Clash(other, updated)
     THEN Respond(r, "failed") /\ UNCHANGED workspaces
     ELSE workspaces' = [workspaces EXCEPT ![w] = updated] /\ Respond(r, "answered")

\* The label of a session's key holds the address.
CommitKey(r) ==
  /\ Step(r, "key")
  /\ UNCHANGED <<progress, tenantName, workspaces, stamps, subscriptions>>
  /\ IF IsSession(r) /\ ask[r].email \in LongEmails
     THEN Respond(r, "failed") /\ UNCHANGED keys
     ELSE keys' = [keys EXCEPT ![r] = account[r]] /\ Respond(r, "answered")

CommitRevoke(r) ==
  LET k == chosen[r].row
      revoked == [chosen[r].was EXCEPT !.revoked_at = r] IN
  /\ Step(r, "revoke")
  /\ stamps' = [stamps EXCEPT ![k] = Written(stamps[k], chosen[r].was, revoked)]
  /\ Respond(r, "answered")
  /\ UNCHANGED <<progress, tenantName, workspaces, keys, subscriptions>>

\* A tenant has one subscription.
CommitSubscription(r) ==
  /\ Step(r, "subscription")
  /\ IF account[r] \in subscriptions
     THEN Respond(r, "failed") /\ UNCHANGED subscriptions
     ELSE subscriptions' = subscriptions \cup {account[r]} /\ Respond(r, "answered")
  /\ UNCHANGED <<progress, tenantName, workspaces, keys, stamps>>

Next ==
  \E r \in Requests :
    \/ ArriveSession(r) \/ ArriveKeyed(r) \/ StampKey(r)
    \/ FindAccount(r) \/ NameTenant(r) \/ CommitTenant(r) \/ FinalizeGoogle(r)
    \/ GetOrCreateWorkspace(r) \/ CheckWorkspace(r) \/ CommitWorkspace(r) \/ CommitRename(r)
    \/ FindWorkspaceToPatch(r) \/ FindKeyToRevoke(r) \/ FindSubscription(r)
    \/ CommitKey(r) \/ CommitRevoke(r) \/ CommitSubscription(r)
    \/ CommitFails(r)

Spec == Init /\ [][Next]_vars

-----------------------------------------------------------------------------
TypeOK ==
  /\ ask \in Scenarios
  /\ at \in [Requests -> Places]
  /\ account \in [Requests -> Requests \cup {None}]
  /\ with \in [Requests -> Requests \cup {None}]
  /\ answer \in [Requests -> Responses \cup {None}]
  /\ tenantName \in [Requests -> Names \cup {None}]
  /\ workspaces \in [Requests -> Workspace \cup {None}]
  /\ keys \in [Requests -> Requests \cup {None}]
  /\ stamps \in [Requests -> Stamps]
  /\ subscriptions \subseteq Tenants
  /\ before \in [Requests -> SUBSET (Requests \X {"tenant", "workspace"})]
  /\ faulted \subseteq Requests

\* An answered session is complete: its tenant has the address it was asked for, and the
\* password if there was one to check, the key it shows opens that tenant, and it lands
\* in a workspace of it, unless it has just made the account for Google
\* (sign_in_with_email_password, sign_in_with_google).
AnsweredIsComplete ==
  \A r \in Requests :
    IsSession(r) /\ answer[r] = "answered" =>
      /\ account[r] \in Owned(ask[r].email)
      /\ keys[r] = account[r]
      /\ ask[r].kind # "google" => ask[account[r]].kind = "sign_up"
                                /\ ask[account[r]].password = ask[r].password
      /\ chosen[r] \in WorkspacesOf(account[r]) \/ (ask[r].kind = "google" /\ account[r] = r)

\* Two accounts with one address can only have been made by requests that overlapped:
\* each of the two was under way before the other's tenant was committed
\* (_get_tenant_by_owner_email, without a constraint behind it).
TwinsRaced ==
  \A t, u \in Tenants :
    t # u /\ ask[t].email = ask[u].email => <<t, "tenant">> \notin before[u]

\* A session that fails with the database at work has one of seven causes: twin accounts,
\* a second workspace, a name whose slug is empty or too long, an address too long for a
\* key's label, or a tenant's name or a workspace that another request committed while this
\* one ran (_get_or_create_workspace, _issue_session_api_key, _create_tenant_for_email).
FailsForACause ==
  \A r \in Requests :
    IsSession(r) /\ answer[r] = "failed" /\ r \notin faulted =>
      \/ Cardinality(Owned(ask[r].email)) > 1
      \/ Cardinality(WorkspacesOf(account[r])) > 1
      \/ account[r] # None /\ ask[r].email \in LongEmails
      \/ account[r] # None /\ chosen[r] \in Names /\ (LacksSlug(chosen[r]) \/ TooLong(chosen[r]))
      \/ \E t \in Requests : <<t, "tenant">> \in TenantRows \ before[r] /\ tenantName[t] = chosen[r]
      \/ \E w \in WorkspacesOf(account[r]) : <<w, "workspace">> \notin before[r]

\* Once a revocation is answered its key stays revoked, although requests that were let in
\* with the key before, or that revoke it again, have an older copy of its row and still
\* write it (get_tenant_context, revoke_api_key).
RevocationHolds ==
  \A r \in Requests :
    ask[r].kind = "revoke" /\ answer[r] = "answered" => Revoked(chosen[r].row)

\* What the key that a request came with lets it write.
WritesOwn(r) ==
  LET tenant == keys[with[r]] IN
  /\ \A w \in Requests :
       workspaces'[w] # workspaces[w] =>
         /\ workspaces'[w].tenant = tenant
         /\ workspaces[w] # None => workspaces[w].tenant = tenant
  /\ \A k \in Requests :
       keys'[k] # keys[k] \/ stamps'[k] # stamps[k] => keys'[k] = tenant
  /\ subscriptions' \subseteq subscriptions \cup {tenant}

\* A request with an API key inserts, changes and revokes rows of that key's tenant only
\* (get_tenant_context; the tenant_id in every query of workspaces.py, api_keys.py, billing.py).
OwnTenantOnly ==
  [][\A r \in Requests : at'[r] # at[r] /\ with[r] # None => WritesOwn(r)]_vars

=============================================================================
