----------------------------- MODULE AccountsMC -----------------------------
(***************************************************************************)
(* Instances of Accounts for TLC: who does what is fixed by a scenario,    *)
(* in which order their steps happen is not.                               *)
(***************************************************************************)
EXTENDS Accounts, Sequences

FourRequests == 1 .. 4
Ann == "ann"
Bob == "bob"
Eve == "eve"
People == {Ann, Bob, Eve}
Secrets == {"right", "wrong"}
Organizations == {"acme", "kanji", "long"}
Unslugged == {"kanji"}
LongNames == {"long"}
LongAddresses == {Eve}

Acme == <<"acme", 1>>
Other == <<"acme", 3>>
Lengthy == <<"long", 1>>
Lengthier == <<"long", 2>>

Do(kind, email, password, name, workspace, slug, patch) ==
  [kind |-> kind, email |-> email, password |-> password, name |-> name,
   workspace |-> workspace, slug |-> slug, patch |-> patch]
SignUp(email, name, workspace) == Do("sign_up", email, "right", name, workspace, Acme, {})
SignIn(email, password) == Do("sign_in", email, password, "acme", Acme, Acme, {})
Google(email) == Do("google", email, "wrong", "acme", Acme, Acme, {})
With(kind, workspace, slug, patch) == Do(kind, Ann, "right", "acme", workspace, slug, patch)
Create(name) == With("workspace", name, Acme, {})
Rename(name) == With("rename", name, Acme, {"name"})
Revoke == With("revoke", Acme, Acme, {})
Bill == With("billing", Acme, Acme, {})

AnnSignsUp == SignUp(Ann, "acme", Acme)

\* Sessions of one and of two people, with names without a slug, names and an address that
\* are too long; then an account, and requests with its keys.
Stories ==
  {<<AnnSignsUp, SignUp(Ann, "acme", Other), SignIn(Ann, "right"), Google(Ann)>>,
   <<AnnSignsUp, SignUp(Bob, "acme", Other), SignIn(Ann, "wrong"), Google(Bob)>>,
   <<SignUp(Ann, "kanji", <<"kanji", 1>>), SignIn(Ann, "right"), Google(Ann), Google(Bob)>>,
   <<SignUp(Ann, "long", Acme), SignIn(Ann, "right"), SignUp(Bob, "long", Lengthy), Google(Bob)>>,
   <<SignUp(Eve, "acme", Acme), SignIn(Eve, "right"), Google(Eve), AnnSignsUp>>,
   <<AnnSignsUp, Create(Other), Rename(Other), With("rename", Acme, Acme, {"name", "slug"})>>,
   <<AnnSignsUp, Create(Lengthy), With("workspace", Other, Acme, {"slug"}), Create(Lengthier)>>,
   <<AnnSignsUp, With("key", Acme, Acme, {}), Revoke, Revoke>>,
   <<AnnSignsUp, SignUp(Bob, "acme", Acme), Revoke, With("rename", Acme, Lengthy, {"slug"})>>,
   <<AnnSignsUp, SignIn(Ann, "right"), Bill, Bill>>}

=============================================================================
