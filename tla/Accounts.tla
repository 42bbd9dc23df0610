------------------------------ MODULE Accounts ------------------------------
(***************************************************************************)
(* The users of the panel (auth_routes.py, User and ApiToken in            *)
(* models.py): who administers it, the second factor of each user with its *)
(* recovery codes, and the API tokens.                                     *)
(*                                                                         *)
(* Several requests are served at a time.  Each reads a row, decides, and  *)
(* writes the columns that it has changed, whatever is in the row by then. *)
(* Sessions, names, passwords and permissions of roles are left out: any   *)
(* user may send any request that its row allows.                          *)
(***************************************************************************)
EXTENDS Integers, FiniteSets

CONSTANTS
    Worker,         \* requests served at a time
    User,
    Code,           \* the recovery codes of a user
    MaxTokens,      \* active tokens of a user
    MaxSecret,      \* bound: secrets that are ever made
    MaxRequests,    \* bound: requests
    None

ConstantsAssumption ==
    /\ IsFiniteSet(Worker) /\ Worker # {}
    /\ MaxTokens \in Nat
    /\ None \notin {"super_admin", "other"}

VARIABLES
    role,           \* User.role: "super_admin" or another; None where there is no such user
    active,         \* User.is_active_user
    factor,         \* totp_enabled, totp_secret and recovery_codes of each user
    tokens,         \* how many active tokens each user has
    issued,         \* the users that have had one: its row is never deleted
    req,            \* the request of each worker, with what it has read
    secrets, requests,
    proved,         \* the secret for which the user has last shown a code
    spent,          \* the recovery codes used since they were made
    mixed,          \* users of whom a request has written on top of another one
    ousted          \* a request of an administrator was finished who was none any more

account == <<role, active>>
second == <<factor, secrets, proved, spent, mixed>>
token == <<tokens, issued>>
vars == <<account, second, token, req, requests, ousted>>

NoFactor == [enabled |-> FALSE, secret |-> None, codes |-> {}]

Init ==
    /\ role \in [User -> {"super_admin", "other", None}]
    /\ \E u \in User : role[u] = "super_admin"
    /\ active = [u \in User |-> TRUE]
    /\ factor = [u \in User |-> NoFactor]
    /\ tokens = [u \in User |-> 0] /\ issued = {}
    /\ req = [w \in Worker |-> None]
    /\ secrets = 0 /\ requests = 0
    /\ proved = [u \in User |-> None]
    /\ spent = [u \in User |-> {}]
    /\ mixed = {} /\ ousted = FALSE

-----------------------------------------------------------------------------
Exists(u) == role[u] # None

\* current_user of a session: one that was deactivated is not authenticated.
MayAsk(u) == Exists(u) /\ active[u]

Begin(w, r) ==
    /\ req[w] = None
    /\ requests < MaxRequests /\ requests' = requests + 1
    /\ req' = [req EXCEPT ![w] = r]
    /\ UNCHANGED <<account, second, token, ousted>>

Asks(w, kinds) == req[w] # None /\ req[w].kind \in kinds
End(w) == req' = [req EXCEPT ![w] = None] /\ UNCHANGED requests

Administers(a) == MayAsk(a) /\ role[a] = "super_admin"

\* Mutant of MayChange: one may change oneself.
BugMayChange(a, u) == Administers(a) /\ Exists(u)

\* role_required, and nobody demotes, deactivates or deletes oneself.
MayChange(a, u) == Administers(a) /\ Exists(u) /\ u # a

\* api_update_user, api_toggle_user_active and api_delete_user: what is asked, and what was read.
BeginChange(w, a, u, what) ==
    /\ MayChange(a, u)
    /\ Begin(w, [kind |-> "change", by |-> a, user |-> u, what |-> what, role |-> role[u], active |-> active[u]])

\* A column that is set to what was read is not written.
Changed(column, u, read, new) == IF new = read \/ ~Exists(u) THEN column ELSE [column EXCEPT ![u] = new]

\* Rows that refer to the user and must name one, as those of its tokens, keep it from being deleted.
CommitChange(w) ==
    LET r == req[w]
    IN  /\ Asks(w, {"change"})
        /\ CASE r.what \in {"super_admin", "other"} ->
                    role' = Changed(role, r.user, r.role, r.what) /\ UNCHANGED active
             [] r.what = "toggle" ->
                    active' = Changed(active, r.user, r.active, ~r.active) /\ UNCHANGED role
             [] r.what = "delete" ->
                    /\ role' = IF r.user \in issued THEN role ELSE [role EXCEPT ![r.user] = None]
                    /\ UNCHANGED active
        /\ factor' = IF role'[r.user] = None THEN [factor EXCEPT ![r.user] = NoFactor] ELSE factor
        /\ ousted' = (ousted \/ ~Administers(r.by))
        /\ End(w)
        /\ UNCHANGED <<secrets, proved, spent, mixed, token>>

CreateUser(u, new) ==
    /\ ~Exists(u)
    /\ role' = [role EXCEPT ![u] = new]
    /\ active' = [active EXCEPT ![u] = TRUE]
    /\ factor' = [factor EXCEPT ![u] = NoFactor]
    /\ UNCHANGED <<secrets, proved, spent, mixed, token, req, requests, ousted>>

-----------------------------------------------------------------------------
\* A request of a user about its own second factor, after what it reads.
BeginFactor(w, u, kind) ==
    /\ MayAsk(u)
    /\ CASE kind = "setup" -> ~factor[u].enabled
         [] kind = "enable" -> ~factor[u].enabled /\ factor[u].secret # None
         [] kind = "disable" -> TRUE
    /\ Begin(w, [kind |-> kind, user |-> u, read |-> factor[u]])

\* verify_2fa after a login that has asked for it: a recovery code, of those that are left.
BeginCode(w, u, c) ==
    /\ Exists(u)
    /\ c \in factor[u].codes
    /\ Begin(w, [kind |-> "code", user |-> u, read |-> factor[u], code |-> c])

\* The row as the request would have it.
Written(r) ==
    CASE r.kind = "setup" -> [r.read EXCEPT !.secret = secrets + 1]
      [] r.kind = "enable" -> [r.read EXCEPT !.enabled = TRUE, !.codes = Code]
      [] r.kind = "disable" -> NoFactor
      [] r.kind = "code" -> [r.read EXCEPT !.codes = @ \ {r.code}]

\* Only the columns that differ from what was read are written.
Merged(r) ==
    [f \in DOMAIN NoFactor |-> IF Written(r)[f] = r.read[f] THEN factor[r.user][f] ELSE Written(r)[f]]

CommitFactor(w) ==
    LET r == req[w]
        u == r.user
    IN  /\ Asks(w, {"setup", "enable", "disable", "code"})
        /\ r.kind = "setup" => secrets < MaxSecret
        /\ secrets' = IF r.kind = "setup" THEN secrets + 1 ELSE secrets
        /\ factor' = IF Exists(u) THEN [factor EXCEPT ![u] = Merged(r)] ELSE factor
        /\ proved' = IF r.kind = "enable" THEN [proved EXCEPT ![u] = r.read.secret] ELSE proved
        /\ spent' = CASE r.kind = "enable" -> [spent EXCEPT ![u] = {}]
                      [] r.kind = "code" -> [spent EXCEPT ![u] = @ \cup {r.code}]
                      [] OTHER -> spent
        /\ mixed' = IF factor[u] = r.read THEN mixed ELSE mixed \cup {u}
        /\ End(w)
        /\ UNCHANGED <<account, token, ousted>>

-----------------------------------------------------------------------------
BeginToken(w, u) ==
    /\ MayAsk(u)
    /\ tokens[u] < MaxTokens
    /\ Begin(w, [kind |-> "token", user |-> u])

CommitToken(w) ==
    LET u == req[w].user
    IN  /\ Asks(w, {"token"})
        /\ tokens' = [tokens EXCEPT ![u] = @ + 1]
        /\ issued' = issued \cup {u}
        /\ End(w)
        /\ UNCHANGED <<account, second, ousted>>

\* The row stays, inactive.
DeleteToken(u) ==
    /\ MayAsk(u) /\ tokens[u] > 0
    /\ tokens' = [tokens EXCEPT ![u] = @ - 1]
    /\ UNCHANGED <<account, second, issued, req, requests, ousted>>

Next ==
    \/ \E w \in Worker, u \in User :
        \/ \E a \in User, what \in {"super_admin", "other", "toggle", "delete"} : BeginChange(w, a, u, what)
        \/ \E kind \in {"setup", "enable", "disable"} : BeginFactor(w, u, kind)
        \/ \E c \in Code : BeginCode(w, u, c)
        \/ BeginToken(w, u)
    \/ \E w \in Worker : CommitChange(w) \/ CommitFactor(w) \/ CommitToken(w)
    \/ \E u \in User : DeleteToken(u) \/ \E new \in {"super_admin", "other"} : CreateUser(u, new)

Spec == Init /\ [][Next]_vars

-----------------------------------------------------------------------------
\* There is always an administrator who can come in, whoever demotes, deactivates or deletes
\* whom, as long as no administrator's request ends after its own rights did.
AnAdministratorIsLeft == ousted \/ \E u \in User : Administers(u)

\* A second factor that is asked for is the one the user has shown a code of, and a recovery
\* code that was used is not left, unless requests of the user have overlapped.
FactorIsTheUsers ==
    \A u \in User \ mixed : Exists(u) /\ factor[u].enabled =>
        factor[u].secret = proved[u] /\ factor[u].codes \cap spent[u] = {}

\* However requests for tokens overlap, a user has too many by one for each other request at most.
TokensAreFew == \A u \in User : tokens[u] <= MaxTokens + Cardinality(Worker) - 1

\* Somebody can administer the panel, and a user comes in with what is its own.
AccountsAreSound == AnAdministratorIsLeft /\ FactorIsTheUsers /\ TokensAreFew

\* "2FA'yi dogrulayip aktiflestirir - kurulum kodunu onaylar" (auth_routes.py:514): the secret
\* that is in force is the one that was confirmed, or there is none and the factor is off.
EnabledIsConfirmed ==
    \A u \in User : Exists(u) /\ factor[u].enabled => factor[u].secret = proved[u]

\* "Kullanici basina max 10 aktif token" (auth_routes.py:580)
TokensAreWithinLimit == \A u \in User : tokens[u] <= MaxTokens
=============================================================================
