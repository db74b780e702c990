---------------------------- MODULE TokenRefresh ----------------------------
(***************************************************************************)
(* The identity provider's tokens of one user, kept in one row of          *)
(* PostgreSQL and refreshed when they are about to expire:                 *)
(* enterprise/storage/auth_token_store.py, the part of                     *)
(* enterprise/server/auth/token_manager.py that asks the provider, and     *)
(* get_provider_tokens of enterprise/server/auth/saas_user_auth.py, which  *)
(* deletes the row when that fails.                                        *)
(*                                                                         *)
(* A pair of access and refresh token is a number.  The provider accepts a *)
(* refresh token once.  Requests and logins run on any server; a step ends *)
(* where the code awaits the database or the provider.                     *)
(***************************************************************************)
EXTENDS Naturals

CONSTANTS
    Requests,   \* requests that need the tokens
    Logins,     \* logins that store tokens
    MaxTokens,  \* bound: pairs the provider issues
    MaxLost     \* bound: answers lost, or servers killed, after the provider issued

NoOne == "no one"

ASSUME TokenAssumption ==
    /\ NoOne \notin Requests
    /\ MaxTokens \in Nat \ {0} /\ MaxLost \in Nat

VARIABLES
    row,      \* the row of auth_tokens, as committed
    rows,     \* rows inserted so far, for their ids
    holder,   \* the request that holds the row's lock
    request,  \* per request: where it is, the id and the token it works on
    login,    \* the same per login
    issued,   \* pairs issued so far
    old,      \* pairs whose access token has expired, or will within 15 minutes
    used,     \* pairs whose refresh token was presented and accepted
    lost

tokenVars == <<row, rows, holder, request, login, issued, old, used, lost>>

NoRow == [id |-> 0, tok |-> 0]
Tokens == 1..MaxTokens
Where(pc, id, tok) == [pc |-> pc, id |-> id, tok |-> tok]

TokenInit ==
    /\ row = [id |-> 1, tok |-> 1]     \* the user has logged in
    /\ rows = 1
    /\ holder = NoOne
    /\ request = [q \in Requests |-> Where("idle", 0, 0)]
    /\ login = [l \in Logins |-> Where("idle", 0, 0)]
    /\ issued = 1
    /\ old = {}
    /\ used = {}
    /\ lost = 0

Goes(q, pc, id, tok) == request' = [request EXCEPT ![q] = Where(pc, id, tok)]
Ends(q, pc) == Goes(q, pc, request[q].id, request[q].tok)

AgeToken(t) ==
    /\ t \in 1..issued
    /\ old' = old \cup {t}
    /\ UNCHANGED <<row, rows, holder, request, login, issued, used, lost>>
-----------------------------------------------------------------------------
(* get_provider_tokens: the user's rows; none, no tokens.                  *)
ListTokens(q) ==
    /\ request[q].pc = "idle"
    /\ IF row = NoRow THEN Ends(q, "done") ELSE Goes(q, "read", row.id, 0)
    /\ UNCHANGED <<row, rows, holder, login, issued, old, used, lost>>

(* get_idp_token asks Keycloak who the user is first, which may raise.     *)
UserInfoFails(q) ==
    /\ request[q].pc = "read"
    /\ Ends(q, "failed")
    /\ UNCHANGED <<row, rows, holder, login, issued, old, used, lost>>

(* load_tokens, the fast path: no lock while the access token is valid.    *)
(* No row at all makes get_idp_token raise.                                *)
ReadTokens(q) ==
    /\ request[q].pc = "read"
    /\ IF row = NoRow THEN Ends(q, "failed")
       ELSE IF row.tok \notin old THEN Ends(q, "done")
       ELSE Goes(q, "locking", request[q].id, row.tok)
    /\ UNCHANGED <<row, rows, holder, login, issued, old, used, lost>>

(* Mutant: what was read without the lock is not read again under it.      *)
LockRowStale(q) ==
    /\ request[q].pc = "locking"
    /\ holder = NoOne
    /\ holder' = q /\ Ends(q, "asking")
    /\ UNCHANGED <<row, rows, login, issued, old, used, lost>>

(* The slow path: SELECT ... FOR UPDATE, and the double check.             *)
LockRow(q) ==
    /\ request[q].pc = "locking"
    /\ holder = NoOne
    /\ \/ row = NoRow /\ Ends(q, "failed") /\ UNCHANGED holder
       \/ row # NoRow /\ row.tok \notin old /\ Ends(q, "done") /\ UNCHANGED holder
       \/ /\ row # NoRow /\ row.tok \in old
          /\ holder' = q
          /\ Goes(q, "asking", request[q].id, row.tok)
    /\ UNCHANGED <<row, rows, login, issued, old, used, lost>>

(* lock_timeout, 5 seconds: shorter than a request to the provider may be. *)
LockTimeout(q) ==
    /\ request[q].pc = "locking"
    /\ holder # NoOne
    /\ Ends(q, "failed")
    /\ UNCHANGED <<row, rows, holder, login, issued, old, used, lost>>
-----------------------------------------------------------------------------
(***************************************************************************)
(* _refresh_token: the provider issues a new pair; or answers with an      *)
(* error; or issues one and the answer is lost.  An exception rolls the    *)
(* transaction back.                                                       *)
(***************************************************************************)
TokenIssued(q) ==
    /\ request[q].pc = "asking"
    /\ request[q].tok \notin used
    /\ issued < MaxTokens
    /\ issued' = issued + 1
    /\ used' = used \cup {request[q].tok}
    /\ Goes(q, "got", request[q].id, issued + 1)
    /\ UNCHANGED <<row, rows, holder, login, old, lost>>

(* Mutant: the transaction is left open.                                   *)
RefusedOpen(q) ==
    /\ request[q].pc = "asking"
    /\ Ends(q, "failed")
    /\ UNCHANGED <<row, rows, holder, login, issued, old, used, lost>>

Refused(q) ==
    /\ request[q].pc = "asking"
    /\ Ends(q, "failed")
    /\ holder' = NoOne
    /\ UNCHANGED <<row, rows, login, issued, old, used, lost>>

AnswerLost(q) ==
    /\ request[q].pc = "asking"
    /\ lost < MaxLost
    /\ lost' = lost + 1
    /\ used' = used \cup {request[q].tok}
    /\ Ends(q, "failed")
    /\ holder' = NoOne
    /\ UNCHANGED <<row, rows, login, issued, old>>

(* The server is killed before it commits.                                 *)
KilledUncommitted(q) ==
    /\ request[q].pc = "got"
    /\ lost < MaxLost
    /\ lost' = lost + 1
    /\ Ends(q, "done")
    /\ holder' = NoOne
    /\ UNCHANGED <<row, rows, login, issued, old, used>>

(* Mutant: the new pair is returned, not stored.                           *)
CommitNothing(q) ==
    /\ request[q].pc = "got"
    /\ holder' = NoOne
    /\ Ends(q, "done")
    /\ UNCHANGED <<row, rows, login, issued, old, used, lost>>

CommitTokens(q) ==
    /\ request[q].pc = "got"
    /\ row' = [row EXCEPT !.tok = request[q].tok]
    /\ holder' = NoOne
    /\ Ends(q, "done")
    /\ UNCHANGED <<rows, login, issued, old, used, lost>>

(* get_provider_tokens, whatever was raised: DELETE by the id of the row   *)
(* listed at the start, which waits for the row's lock.                    *)
DeleteTokens(q) ==
    /\ request[q].pc = "failed"
    /\ row.id = request[q].id => holder = NoOne
    /\ row' = IF row.id = request[q].id THEN NoRow ELSE row
    /\ Ends(q, "done")
    /\ UNCHANGED <<rows, holder, login, issued, old, used, lost>>

NextRequest(q) ==
    /\ request[q].pc = "done"
    /\ Goes(q, "idle", 0, 0)
    /\ UNCHANGED <<row, rows, holder, login, issued, old, used, lost>>
-----------------------------------------------------------------------------
(***************************************************************************)
(* store_idp_tokens at a login: the pair just issued for it, then          *)
(* store_tokens, which reads the row without a lock and writes it.         *)
(***************************************************************************)
FetchTokens(l) ==
    /\ login[l].pc = "idle"
    /\ issued < MaxTokens
    /\ issued' = issued + 1
    /\ login' = [login EXCEPT ![l] = Where("fetched", 0, issued + 1)]
    /\ UNCHANGED <<row, rows, holder, request, old, used, lost>>

SelectRow(l) ==
    /\ login[l].pc = "fetched"
    /\ login' = [login EXCEPT ![l] = Where("selected", row.id, login[l].tok)]
    /\ UNCHANGED <<row, rows, holder, request, issued, old, used, lost>>

(* INSERT, which the unique index may refuse, or UPDATE, which waits for   *)
(* the lock and fails when the row was deleted meanwhile.                  *)
WriteRow(l) ==
    /\ login[l].pc = "selected"
    /\ login' = [login EXCEPT ![l] = Where("idle", 0, 0)]
    /\ \/ /\ login[l].id = 0 /\ row = NoRow
          /\ row' = [id |-> rows + 1, tok |-> login[l].tok]
          /\ rows' = rows + 1
       \/ /\ login[l].id # 0 /\ row.id = login[l].id
          /\ holder = NoOne
          /\ row' = [row EXCEPT !.tok = login[l].tok]
          /\ UNCHANGED rows
       \/ /\ row.id # login[l].id
          /\ UNCHANGED <<row, rows>>
    /\ UNCHANGED <<holder, request, issued, old, used, lost>>

TokenAnswer(q) == TokenIssued(q) \/ Refused(q) \/ AnswerLost(q)
RequestStep(q) ==
    \/ ListTokens(q) \/ UserInfoFails(q) \/ ReadTokens(q)
    \/ LockRow(q) \/ LockTimeout(q) \/ TokenAnswer(q) \/ CommitTokens(q)

TokenNext ==
    \/ \E t \in Tokens : AgeToken(t)
    \/ \E q \in Requests :
          RequestStep(q) \/ KilledUncommitted(q) \/ DeleteTokens(q) \/ NextRequest(q)
    \/ \E l \in Logins : FetchTokens(l) \/ SelectRow(l) \/ WriteRow(l)

TokenSpec == TokenInit /\ [][TokenNext]_tokenVars
-----------------------------------------------------------------------------
(* Type invariant; the row is locked exactly by the request that asks the  *)
(* provider or is about to commit.                                         *)
TokenTypeOK ==
    /\ row \in [id : Nat, tok : Nat] /\ rows \in Nat
    /\ (row.id = 0 <=> row = NoRow) /\ row.id <= rows
    /\ holder \in Requests \cup {NoOne}
    /\ request \in [Requests -> [pc : {"idle", "read", "locking", "asking", "got",
                                       "failed", "done"}, id : Nat, tok : Nat]]
    /\ login \in [Logins -> [pc : {"idle", "fetched", "selected"}, id : Nat, tok : Nat]]
    /\ issued \in Nat /\ old \subseteq Nat /\ used \subseteq 1..issued /\ lost \in Nat
    /\ \A q \in Requests : request[q].pc \in {"asking", "got"} <=> holder = q

(* "only one refresh operation is performed per refresh token": no request *)
(* presents one that was accepted before, whoever refreshes, logs in and   *)
(* fails meanwhile, unless an answer was lost.                             *)
PresentedOnce ==
    lost = 0 => \A q \in Requests : request[q].pc = "asking" => request[q].tok \notin used

(* The tokens stored are the ones that still work, whenever nobody is      *)
(* about to replace them, unless an answer was lost.                       *)
StoredUsable ==
    lost = 0 /\ (\A q \in Requests : request[q].pc # "got") => row.tok \notin used

(* A request that finds the tokens expired returns or fails, whoever holds *)
(* the lock and for however long the provider takes.                       *)
RequestEnds == \A q \in Requests : []<>(request[q].pc \in {"idle", "done"})

(* "If there was a problem with a refresh token we log and delete it":     *)
(* tokens are deleted only when the provider no longer accepts them.  The  *)
(* code does not keep it: any failure deletes them.                        *)
GoodTokensKept == [][row # NoRow /\ row' = NoRow => row.tok \in used]_tokenVars
=============================================================================
