---------------------------- MODULE TokenRefresh ----------------------------
(***************************************************************************)
(* Refreshing the access token of the credential with one id               *)
(* (try_ensure_token, get_usage_limits_for and force_refresh_token_for of  *)
(* kiro/token_manager.rs) and its cached balance (admin/service.rs), while *)
(* an operator changes a setting, deletes the credential and adds another  *)
(* account under the same id.  refresh_lock is held by a thread that is    *)
(* "calling" or "answered".                                                *)
(***************************************************************************)
EXTENDS Naturals

CONSTANTS Thread,
          MaxAccounts,   \* bound of the accounts that get the id one after the other
          MaxRotations   \* bound of the refresh tokens an account is given

ASSUME RefreshAssumption == MaxAccounts \in Nat \ {0} /\ MaxRotations \in Nat

VARIABLES entry,       \* the credential: account 0 when there is none
          valid,       \* upstream: account -> its valid refresh token
          threads,     \* thread -> what it is doing
          balance,     \* account whose balance is cached, 0 if none
          cleaning,    \* the account being deleted, its balance not removed yet; 0 if none
          accounts,    \* accounts added so far
          lost,        \* ghost: a new refresh token did not reach the table
          refused,     \* ghost: a refresh on demand was refused as invalid
          chosen,      \* ghost: the setting the operator chose for the present account
          overlapped,  \* ghost: it was chosen while a refresh held a copy
          crossed,     \* ghost: a deletion happened while a thread was at work
          unclean      \* ghost: the accounts whose deletion failed before the balance's turn

refreshVars == <<entry, valid, threads, balance, cleaning, accounts, lost, refused, chosen,
                 overlapped, crossed, unclean>>

Account    == 1 .. MaxAccounts
Token      == 0 .. MaxRotations
Kind       == {"demand", "balance", "force"}
Stage      == {"idle", "waiting", "calling", "answered", "fetching", "storing"}
Entry      == [account : 0 .. MaxAccounts, refresh : Token, fresh : BOOLEAN, setting : {0, 1}]
Work       == [kind : Kind, at : Stage, copy : Entry, refresh : Token, fresh : BOOLEAN]

NoEntry == [account |-> 0, refresh |-> 0, fresh |-> FALSE, setting |-> 0]
Resting == [kind |-> "demand", at |-> "idle", copy |-> NoEntry, refresh |-> 0, fresh |-> FALSE]

Present == entry.account # 0
Locked  == \E t \in Thread : threads[t].at \in {"calling", "answered"}
Copying(t) ==
    \/ threads[t].at \in {"calling", "answered"}
    \/ threads[t].at = "waiting" /\ threads[t].kind = "force"

To(t, work) == threads' = [threads EXCEPT ![t] = work]

\* A thread that has what it wanted goes on to fetch the account's balance, or is done.
Served(t, kind, cred) ==
    To(t, IF kind = "balance"
          THEN [Resting EXCEPT !.at = "fetching", !.copy = [NoEntry EXCEPT !.account = cred.account]]
          ELSE Resting)

-----------------------------------------------------------------------------
(* Threads. *)

\* A token that is still fresh needs no lock, except for the operator's forced refresh, which
\* copies the credential here.  get_balance answers from its cache first.
Start(t, kind) ==
    /\ threads[t].at = "idle" /\ Present
    /\ kind = "balance" => balance = 0
    /\ IF entry.fresh /\ kind # "force" THEN Served(t, kind, entry)
       ELSE To(t, [Resting EXCEPT !.kind = kind, !.at = "waiting",
                                  !.copy = IF kind = "force" THEN entry ELSE NoEntry])
    /\ UNCHANGED <<entry, valid, balance, cleaning, accounts, lost, refused, chosen,
                   overlapped, crossed, unclean>>

\* Mutation of Enter: the lock is not waited for.
EnterUnlocked(t) ==
    LET w == threads[t]
    IN  /\ w.at = "waiting"
        /\ IF ~Present THEN To(t, Resting)
           ELSE To(t, [w EXCEPT !.at = "calling", !.copy = entry])
        /\ UNCHANGED <<entry, valid, balance, cleaning, accounts, lost, refused, chosen,
                       overlapped, crossed, unclean>>

\* With the lock the credential is read again: it may be gone, or fresh by now.  The forced
\* refresh goes on with what it read before.
Enter(t) ==
    LET w == threads[t]
    IN  /\ w.at = "waiting" /\ ~Locked
        /\ IF w.kind = "force" THEN To(t, [w EXCEPT !.at = "calling"])
           ELSE IF ~Present THEN To(t, Resting)
           ELSE IF entry.fresh THEN Served(t, w.kind, entry)
           ELSE To(t, [w EXCEPT !.at = "calling", !.copy = entry])
        /\ UNCHANGED <<entry, valid, balance, cleaning, accounts, lost, refused, chosen,
                       overlapped, crossed, unclean>>

\* The upstream service takes only the valid refresh token; it may give a new one, and an
\* access token that has expired already.
Accept(t) ==
    LET c == threads[t].copy
    IN  /\ threads[t].at = "calling" /\ c.refresh = valid[c.account]
        /\ \E next \in {c.refresh, c.refresh + 1}, fresh \in BOOLEAN :
              /\ next \in Token
              /\ valid' = [valid EXCEPT ![c.account] = next]
              /\ \/ /\ To(t, [threads[t] EXCEPT !.at = "answered", !.refresh = next, !.fresh = fresh])
                    /\ UNCHANGED lost
                 \/ /\ To(t, Resting)              \* the answer does not arrive
                    /\ lost' = (lost \/ next # c.refresh)
        /\ UNCHANGED <<entry, balance, cleaning, accounts, refused, chosen, overlapped,
                       crossed, unclean>>

Refuse(t) ==
    LET w == threads[t]
    IN  /\ w.at = "calling" /\ w.copy.refresh # valid[w.copy.account]
        /\ refused' = (refused \/ w.kind # "force")
        /\ To(t, Resting)
        /\ UNCHANGED <<entry, valid, balance, cleaning, accounts, lost, chosen, overlapped,
                       crossed, unclean>>

\* The call fails before it reaches the service, or with an error that changes nothing.
CallFails(t) ==
    /\ threads[t].at = "calling"
    /\ To(t, Resting)
    /\ UNCHANGED <<entry, valid, balance, cleaning, accounts, lost, refused, chosen,
                   overlapped, crossed, unclean>>

\* Mutation of WriteBack: the new credential is made of the answer alone.
WriteBackBare(t) ==
    LET w   == threads[t]
        new == [w.copy EXCEPT !.refresh = w.refresh, !.fresh = w.fresh, !.setting = 0]
    IN  /\ w.at = "answered"
        /\ IF w.kind = "demand" /\ ~w.fresh
           THEN /\ lost' = (lost \/ w.refresh # w.copy.refresh)
                /\ UNCHANGED entry
           ELSE /\ entry' = IF Present THEN new ELSE entry
                /\ UNCHANGED lost
        /\ Served(t, w.kind, new)
        /\ UNCHANGED <<valid, balance, cleaning, accounts, refused, chosen, overlapped,
                       crossed, unclean>>

\* The whole credential is written back into the entry with the id, if there is one;
\* try_ensure_token gives up first when the new access token has expired.
WriteBack(t) ==
    LET w   == threads[t]
        new == [w.copy EXCEPT !.refresh = w.refresh, !.fresh = w.fresh]
    IN  /\ w.at = "answered"
        /\ IF w.kind = "demand" /\ ~w.fresh
           THEN /\ lost' = (lost \/ w.refresh # w.copy.refresh)
                /\ UNCHANGED entry
           ELSE /\ entry' = IF Present THEN new ELSE entry
                /\ UNCHANGED lost
        /\ Served(t, w.kind, new)
        /\ UNCHANGED <<valid, balance, cleaning, accounts, refused, chosen, overlapped,
                       crossed, unclean>>

\* The balance arrives (or does not), and is stored in another step.
Fetched(t) ==
    LET w == threads[t]
    IN  /\ w.at = "fetching"
        /\ \/ To(t, [w EXCEPT !.at = "storing"])
           \/ To(t, Resting)
        /\ UNCHANGED <<entry, valid, balance, cleaning, accounts, lost, refused, chosen,
                       overlapped, crossed, unclean>>

StoreBalance(t) ==
    /\ threads[t].at = "storing"
    /\ balance' = threads[t].copy.account
    /\ To(t, Resting)
    /\ UNCHANGED <<entry, valid, cleaning, accounts, lost, refused, chosen, overlapped,
                   crossed, unclean>>

-----------------------------------------------------------------------------
(* Time and the operator. *)

Expire ==
    /\ entry.fresh
    /\ entry' = [entry EXCEPT !.fresh = FALSE]
    /\ UNCHANGED <<valid, threads, balance, cleaning, accounts, lost, refused, chosen,
                   overlapped, crossed, unclean>>

BalanceExpires ==
    /\ balance' = 0
    /\ UNCHANGED <<entry, valid, threads, cleaning, accounts, lost, refused, chosen,
                   overlapped, crossed, unclean>>

\* set_priority and the like: one field of the entry.
SetSetting ==
    /\ Present
    /\ entry' = [entry EXCEPT !.setting = 1 - @]
    /\ chosen' = entry'.setting
    /\ overlapped' = (\E t \in Thread : Copying(t))
    /\ UNCHANGED <<valid, threads, balance, cleaning, accounts, lost, refused, crossed,
                   unclean>>

\* delete_credential removes the entry, then writes the table to its file.
DeleteEntry ==
    /\ Present /\ cleaning = 0
    /\ entry' = NoEntry
    /\ cleaning' = entry.account
    /\ crossed' = (crossed \/ \E t \in Thread : threads[t].at # "idle")
    /\ UNCHANGED <<valid, threads, balance, accounts, lost, refused, chosen, overlapped,
                   unclean>>

\* The write fails: the call returns the error and the balance stays in the cache.
DeletionFails ==
    /\ cleaning # 0 /\ cleaning' = 0
    /\ unclean' = unclean \cup {cleaning}
    /\ UNCHANGED <<entry, valid, threads, balance, accounts, lost, refused, chosen, overlapped,
                   crossed>>

\* Mutation of CleanBalance: the balance of a deleted credential is kept.
CleanNothing ==
    /\ cleaning # 0 /\ cleaning' = 0
    /\ UNCHANGED <<entry, valid, threads, balance, accounts, lost, refused, chosen, overlapped,
                   crossed, unclean>>

CleanBalance ==
    /\ cleaning # 0 /\ cleaning' = 0
    /\ balance' = 0
    /\ UNCHANGED <<entry, valid, threads, accounts, lost, refused, chosen, overlapped, crossed,
                   unclean>>

\* add_credential gives the id again when it was the largest; it has just refreshed the token.
AddAccount ==
    /\ ~Present /\ accounts < MaxAccounts
    /\ accounts' = accounts + 1
    /\ entry' = [account |-> accounts', refresh |-> valid[accounts'], fresh |-> TRUE, setting |-> 0]
    /\ chosen' = 0
    /\ overlapped' = FALSE
    /\ UNCHANGED <<valid, threads, balance, cleaning, lost, refused, crossed, unclean>>

RefreshInit ==
    /\ accounts = 1
    /\ entry = [account |-> 1, refresh |-> 0, fresh |-> FALSE, setting |-> 0]
    /\ valid = [a \in Account |-> 0]
    /\ threads = [t \in Thread |-> Resting]
    /\ balance = 0 /\ cleaning = 0
    /\ lost = FALSE /\ refused = FALSE
    /\ chosen = 0 /\ overlapped = FALSE /\ crossed = FALSE /\ unclean = {}

RefreshNext ==
    \/ \E t \in Thread :
          \/ \E kind \in Kind : Start(t, kind)
          \/ Enter(t) \/ Accept(t) \/ Refuse(t) \/ CallFails(t) \/ WriteBack(t)
          \/ Fetched(t) \/ StoreBalance(t)
    \/ Expire \/ BalanceExpires \/ SetSetting
    \/ DeleteEntry \/ DeletionFails \/ CleanBalance \/ AddAccount

RefreshSpec == RefreshInit /\ [][RefreshNext]_refreshVars

-----------------------------------------------------------------------------
(* Properties. *)

\* The types of the variables.
RefreshTypeOK ==
    /\ entry \in Entry
    /\ valid \in [Account -> Token]
    /\ threads \in [Thread -> Work]
    /\ {balance, cleaning} \subseteq 0 .. MaxAccounts
    /\ accounts \in Account
    /\ unclean \subseteq Account
    /\ {lost, refused, overlapped, crossed} \subseteq BOOLEAN
    /\ chosen \in {0, 1}

\* A refresh on demand (by a request or for a balance) is refused as invalid, which takes the
\* credential out of service for good, only if a refresh token was lost before: an answer
\* did not arrive, or was thrown away for its expired access token.  Concurrent refreshes,
\* forced ones included, do not cause it (token_manager.rs:1215, the double check).
DemandNotRefused == refused => lost

\* A setting the operator chose stays, unless a refresh held a copy of the credential
\* when it was chosen.  One that still waits for the lock does no harm.
SettingSurvivesRefresh ==
    entry.account = accounts /\ ~overlapped => entry.setting = chosen

\* A cached balance is that of the credential which has the id now, or of one whose deletion
\* has not come to it yet (service.rs:279-283); unless a thread was at work when a credential
\* was deleted, or the write of that deletion failed (token_manager.rs:2258), which leaves
\* the balance of that account, and of no other, in the cache until it expires.
BalanceOfLive ==
    ~crossed /\ balance # 0 => balance \in {entry.account, cleaning} \cup unclean
=============================================================================
