---------------------------- MODULE TokenRenewal ----------------------------
(***************************************************************************)
(* The credentials of one TikTok connection: linked by OAuth, renewed by   *)
(* the keeper before they expire (runTokenKeeper) and by operations that   *)
(* find them expired (ensureTikTokAccessToken), cleared by a disconnection *)
(* and withdrawn by the user at the provider.                              *)
(*                                                                         *)
(* No lock keeps these apart: each renewal captures the refresh token,     *)
(* waits for the provider and saves what it answers.  Credentials are an   *)
(* access token and the refresh token that came with it; when the provider *)
(* renews some, it may retire all that it gave before for the account.     *)
(* Time is counted in rounds of the keeper.  Missing client settings, the  *)
(* yearly end of the refresh token, the writes and restarts (see           *)
(* StatePersistence), and what a connection shows besides its account are  *)
(* left out.                                                               *)
(***************************************************************************)
EXTENDS Naturals

CONSTANTS
    Account,      \* accounts the owner may link
    Operation,    \* operations that use the token; the keeper, and the route that proves
                  \* the connection, are callers too
    Life,         \* rounds until an access token expires
    Lead,         \* rounds before that in which the keeper renews it (leadFor)
    Limit,        \* transientLimit
    MaxWait       \* backoffMaxMs, in rounds

Keeper == "keeper"
Proof  == "proof"
Asker == Operation \union {Keeper, Proof}

\* good: the provider would renew it.
Credentials == [account : Account, left : 0 .. Life, good : BOOLEAN]
Clear == [held |-> {}, status |-> "disconnected", account |-> {}, disturbed |-> FALSE]
Rest  == [stage |-> "idle", with |-> {}, late |-> FALSE]
Fresh == [failures |-> 0, permanent |-> FALSE, wait |-> 0]

VARIABLES
    link,       \* providerTokens (held, at most one) and platformConnections (status,
                \* account) of the platform; disturbed: since it was linked it met
                \* an answer about another account, or a refusal for good of credentials
                \* that were replaced or that the provider would renew
    call,       \* what each caller waits for: the provider or the write of a renewal, the
                \* credentials it asks with, and whether they have been replaced (late)
    track,      \* tokenRenewTrack
    leaving,    \* a disconnection waits for the revocation
    due,        \* the keeper's timer has fired in this round
    removed     \* accounts whose "authorization.removed" may still come

vars == <<link, call, track, leaving, due, removed>>

TypeOK ==
    /\ link \in [held : SUBSET Credentials, account : SUBSET Account, disturbed : BOOLEAN,
                 status : {"connected", "reauth_needed", "disconnected"}]
    /\ call \in [Asker -> [stage : {"idle", "asking", "saving", "proving"}, with : SUBSET Credentials,
                            late : BOOLEAN]]
    /\ track \in [failures : 0 .. Limit, permanent : BOOLEAN, wait : 0 .. MaxWait]
    /\ leaving \in BOOLEAN /\ due \in BOOLEAN
    /\ removed \subseteq Account

Init ==
    /\ link = Clear
    /\ call = [c \in Asker |-> Rest]
    /\ track = Fresh
    /\ leaving = FALSE /\ due = FALSE /\ removed = {}

Expired(set) == \E t \in set : t.left = 0
Owner(set)   == {t.account : t \in set}

\* The provider no longer renews the credentials of these accounts, ...
Retired(set, accounts) == {[t EXCEPT !.good = @ /\ t.account \notin accounts] : t \in set}
\* ... wherever they are held.
RetireCalls(f, accounts) ==
    [c \in Asker |-> [f[c] EXCEPT !.with = Retired(@, accounts)]]

\* The calls under way ask with credentials that are replaced.
Outdate(f) == [c \in Asker |-> [f[c] EXCEPT !.late = f[c].stage = "asking"]]

-----------------------------------------------------------------------------
(* The owner and the user.                                                 *)

New(a) == [account |-> a, left |-> Life, good |-> TRUE]

\* The OAuth callback, once the provider has proved the identity.  The record of the
\* renewals stays as it is.
Connect(a) ==
    /\ link' = [held |-> {New(a)}, status |-> "connected", account |-> {a},
                disturbed |-> track.permanent]
    /\ \E retired \in {{}, {a}} : call' = Outdate(RetireCalls(call, retired))
    /\ UNCHANGED <<track, leaving, due, removed>>

\* POST .../disconnect asks the provider to revoke, which may fail, and clears the
\* credentials, whatever the answer and whatever they are by then.
Disconnect ==
    /\ ~leaving
    /\ leaving' = TRUE
    /\ \E retired \in {{}, Owner(link.held)} :
          /\ link' = [link EXCEPT !.held = Retired(@, retired)]
          /\ call' = RetireCalls(call, retired)
    /\ UNCHANGED <<track, due, removed>>

EndDisconnect ==
    /\ leaving
    /\ leaving' = FALSE
    /\ link' = Clear
    /\ call' = Outdate(call)
    /\ UNCHANGED <<track, due, removed>>

\* The user withdraws the authorization at the provider, which tells so later.  Bound:
\* one such event at a time.
Withdraw(a) ==
    /\ removed = {}
    /\ link' = [link EXCEPT !.held = Retired(@, {a})]
    /\ call' = RetireCalls(call, {a})
    /\ removed' = removed \union {a}
    /\ UNCHANGED <<track, leaving, due>>

\* Mutant of ToldRemoved: the event of any account counts.
ToldRemovedOfAny(a) ==
    /\ a \in removed
    /\ removed' = removed \ {a}
    /\ link' = [link EXCEPT !.status = "reauth_needed", !.account = {a}]
    /\ UNCHANGED <<call, track, leaving, due>>

\* Only the event of the account whose credentials are held counts.
ToldRemoved(a) ==
    /\ a \in removed
    /\ removed' = removed \ {a}
    /\ link' = IF a \in Owner(link.held)
               THEN [link EXCEPT !.status = "reauth_needed", !.account = {a}]
               ELSE link
    /\ UNCHANGED <<call, track, leaving, due>>

-----------------------------------------------------------------------------
(* Renewals.                                                               *)

Linked == link.status \in {"connected", "reauth_needed"}

\* decideRenewal: the keeper renews what is linked and near its end, waits after a
\* failure while there is time, and leaves a permanent refusal to the owner.
Renews ==
    /\ Linked
    /\ ~track.permanent
    /\ \E t \in link.held : t.left <= Lead
    /\ track.wait = 0 \/ Expired(link.held)

Ask(c) == call' = [call EXCEPT ![c] = [stage |-> "asking", with |-> link.held, late |-> FALSE]]

KeeperLooks ==
    /\ due
    /\ due' = FALSE
    /\ IF call[Keeper].stage = "idle" /\ Renews THEN Ask(Keeper) ELSE UNCHANGED call
    /\ UNCHANGED <<link, track, leaving, removed>>

\* ensureTikTokAccessToken.
Use(o) ==
    /\ call[o].stage = "idle"
    /\ Expired(link.held)
    /\ Ask(o)
    /\ UNCHANGED <<link, track, leaving, due, removed>>

Asking(c, good) == call[c].stage = "asking" /\ \E t \in call[c].with : t.good = good

\* The answer is about an account that is no longer linked.
Foreign(c) == Owner(call[c].with) # Owner(link.held)

\* saveTikTokCredentials writes over what is there.
Renewed(c) ==
    /\ Asking(c, TRUE)
    /\ \E a \in Owner(call[c].with) : \E retired \in {{}, {a}} :
          /\ link' = [link EXCEPT !.held = {New(a)}, !.disturbed = @ \/ Foreign(c)]
          /\ call' = Outdate(RetireCalls([call EXCEPT ![c] = [Rest EXCEPT !.stage = "saving"]],
                                         retired))
    /\ track' = Fresh
    /\ UNCHANGED <<leaving, due, removed>>

\* Mutant of EndRenewal: a connection that was marked stays so.
EndRenewalMarked(c) ==
    /\ call[c].stage = "saving"
    /\ call' = [call EXCEPT ![c] = Rest]
    /\ UNCHANGED <<link, track, leaving, due, removed>>

\* The write that a renewal waits for has settled.  The keeper alone restores a connection
\* that was marked.
EndRenewal(c) ==
    /\ call[c].stage = "saving"
    /\ call' = [call EXCEPT ![c] = Rest]
    /\ link' = IF c = Keeper /\ link.status = "reauth_needed"
               THEN [link EXCEPT !.status = "connected"]
               ELSE link
    /\ UNCHANGED <<track, leaving, due, removed>>

\* noteRenewal after a failure; the wait stands for backoffMs.
Failure(permanent) ==
    LET n == IF track.failures < Limit THEN track.failures + 1 ELSE Limit
    IN  [failures |-> n, permanent |-> permanent,
         wait |-> IF n - 1 < MaxWait THEN n - 1 ELSE MaxWait]

\* shouldMarkReauth: a passing failure counts only when the token has expired and enough
\* others came before it.
Marks(c) == track'.permanent \/ (track'.failures = Limit /\ Expired(call[c].with))

\* The account named is the one captured before the wait.
MarkReauth(c) ==
    IF Marks(c)
    THEN [link EXCEPT !.status = "reauth_needed", !.account = Owner(call[c].with),
                      !.disturbed = @ \/ Foreign(c)
                         \/ (track'.permanent /\ (call[c].late \/ Asking(c, TRUE)))]
    ELSE link

\* The provider refuses for good: what it has retired, or whatever it is asked while it
\* does not accept the application (invalid_client, unauthorized_client) or the request.
Refused(c) ==
    /\ \E good \in BOOLEAN : Asking(c, good)
    /\ track' = Failure(TRUE)
    /\ link' = MarkReauth(c)
    /\ call' = [call EXCEPT ![c] = Rest]
    /\ UNCHANGED <<leaving, due, removed>>

\* No answer, or none that says why.  The provider may have renewed, and retired what it
\* gave before.
Failed(c) ==
    /\ call[c].stage = "asking"
    /\ track' = Failure(FALSE)
    /\ \E retired \in {{}, Owner(call[c].with)} :
          /\ link' = [MarkReauth(c) EXCEPT !.held = Retired(@, retired)]
          /\ call' = RetireCalls([call EXCEPT ![c] = Rest], retired)
    /\ UNCHANGED <<leaving, due, removed>>

-----------------------------------------------------------------------------
(* POST .../connection-callback asks the provider whose the token is and   *)
(* shows that account as connected.                                        *)

Prove ==
    /\ call[Proof].stage = "idle"
    /\ link.held # {}
    /\ call' = [call EXCEPT ![Proof] = [stage |-> "proving", with |-> link.held,
                                        late |-> FALSE]]
    /\ UNCHANGED <<link, track, leaving, due, removed>>

Proved ==
    /\ call[Proof].stage = "proving"
    /\ call' = [call EXCEPT ![Proof] = Rest]
    /\ link' \in {link} \union
          IF Expired(call[Proof].with) THEN {}
          ELSE {[link EXCEPT !.status = "connected", !.account = Owner(call[Proof].with),
                             !.disturbed = @ \/ Foreign(Proof)]}
    /\ UNCHANGED <<track, leaving, due, removed>>

-----------------------------------------------------------------------------
(* Time.                                                                   *)

Less(n) == IF n = 0 THEN 0 ELSE n - 1
Aged(set) == {[t EXCEPT !.left = Less(@)] : t \in set}

Tick ==
    /\ ~due
    /\ due' = TRUE
    /\ link' = [link EXCEPT !.held = Aged(@)]
    /\ call' = [c \in Asker |-> [call[c] EXCEPT !.with = Aged(@)]]
    /\ track' = [track EXCEPT !.wait = Less(@)]
    /\ UNCHANGED <<leaving, removed>>

Answer(c) == Renewed(c) \/ Refused(c) \/ Failed(c)

Next ==
    \/ \E a \in Account : Connect(a) \/ Withdraw(a) \/ ToldRemoved(a)
    \/ Disconnect \/ EndDisconnect
    \/ KeeperLooks
    \/ \E o \in Operation : Use(o)
    \/ \E c \in Asker : Answer(c) \/ EndRenewal(c)
    \/ Prove \/ Proved
    \/ Tick

Spec == Init /\ [][Next]_vars

\* Time passes, the keeper's timer runs and its calls and writes end; a provider that
\* fails from time to time does not fail for ever.
Fairness ==
    /\ WF_vars(Tick) /\ WF_vars(KeeperLooks)
    /\ WF_vars(Answer(Keeper)) /\ WF_vars(EndRenewal(Keeper))
    /\ SF_vars(Renewed(Keeper))

FairSpec == Spec /\ Fairness

-----------------------------------------------------------------------------
(* Properties.                                                             *)

\* Unless the connection met an answer about another account, or a refusal for good of
\* credentials that had been replaced or were good: credentials are held exactly while
\* the account they belong to is linked, and the keeper gives them up only when the
\* provider has retired them.
LinkIsWhole ==
    ~link.disturbed =>
       /\ link.held = {} <=> ~Linked
       /\ \A t \in link.held :
             /\ link.account = {t.account}
             /\ track.permanent => ~t.good

\* A connection that asks for the owner though the provider would renew it.
Abandoned ==
    /\ link.status = "reauth_needed" /\ ~link.disturbed
    /\ \E t \in link.held : t.good

\* Such a connection comes back by itself, or is changed by someone.
ComesBack == Abandoned ~> ~Abandoned
=============================================================================
