----------------------------- MODULE TokenCache -----------------------------
(***************************************************************************)
(* OAuth tokens (src/toss/client.py, src/toss/_filelock.py).  Toss keeps   *)
(* one valid token per credential: issuing one ends the one before it.  So *)
(* every process keeps its token in memory, all of them share a cache      *)
(* file, and a token is read, issued and written under two locks: one of   *)
(* the process's threads, one of the file.                                 *)
(*                                                                         *)
(* Tokens are numbered as they are issued; 0 is none.                      *)
(***************************************************************************)
EXTENDS Integers, FiniteSets

CONSTANTS
  Credentials,  \* clientid
  Threads,      \* threads that send requests
  Client,       \* [Threads -> Clients]: the TossClient each one uses
  Owner,        \* [Clients -> Credentials]
  Requests,     \* bound: requests of one thread
  MaxRetries,   \* MAX_RETRIES: of an issuance, and of a request
  Flaky,        \* bound: threads whose requests may meet a passing failure
  MaxExpired,   \* bound: later tokens do not expire
  Crashes       \* may a process be killed?

Clients == {Client[t] : t \in Threads}
NoOne   == "no one"

ASSUME TokenParameters ==
  /\ Owner \in [Clients -> Credentials]
  /\ Requests \in Nat /\ MaxRetries \in Nat /\ MaxExpired \in Nat
  /\ Crashes \in BOOLEAN
  /\ NoOne \notin Threads /\ Flaky \subseteq Threads

VARIABLES
  valid,     \* the server: credential -> its one valid token
  issued,    \* the server: tokens issued so far
  expired,   \* tokens up to this one have passed their expires_at
  file,      \* the cache file: [owner, token]
  flock,     \* who holds the file lock
  memory,    \* client -> _token
  tlock,     \* client -> who holds _token_lock
  pc,        \* where each thread is
  call,      \* what the thread's request knows
  left,      \* requests it has still to send
  unseen     \* history: tokens issued, but not (yet) written to the cache file

client == <<memory, tlock>>
cache  == <<file, flock>>
server == <<valid, issued, expired>>
thread == <<pc, call, left>>
vars   == <<server, cache, client, thread, unseen>>

Cred(t) == Owner[Client[t]]

\* A request: is it refreshing by force, and has it done so before; the token it
\* is about to send or write; its issuances that got no answer; its retries; and, as
\* history, the token it was refused with.
NoCall == [force |-> FALSE, refreshed |-> FALSE, have |-> 0, tries |-> 0, attempt |-> 0,
           bad |-> 0]

\* A token this side still believes in: it has one, not past its expires_at.
Fresh(token) == token > expired

\* _read_cache: a file of another credential counts as none.
Cached(c) == IF file.owner = c THEN file.token ELSE 0

Goto(t, where) == pc' = [pc EXCEPT ![t] = where]

\* The request ends, answered or with an exception, and its locals with it.
Return(t) == Goto(t, "idle") /\ call' = [call EXCEPT ![t] = NoCall]

-----------------------------------------------------------------------------
\* request: what it does before its loop.
Begin(t) ==
  /\ pc[t] = "idle" /\ left[t] > 0
  /\ left' = [left EXCEPT ![t] = @ - 1]
  /\ Goto(t, "want")
  /\ UNCHANGED <<server, cache, client, call, unseen>>

\* _access_token under _token_lock: the token in memory does, or the file is asked.
FromMemory(t) ==
  /\ pc[t] = "want" /\ tlock[Client[t]] = NoOne
  /\ ~call[t].force /\ Fresh(memory[Client[t]])
  /\ call' = [call EXCEPT ![t].have = memory[Client[t]]]
  /\ Goto(t, "send")
  /\ UNCHANGED <<server, cache, client, left, unseen>>

LockClient(t) ==
  /\ pc[t] = "want" /\ tlock[Client[t]] = NoOne
  /\ call[t].force \/ ~Fresh(memory[Client[t]])
  /\ tlock' = [tlock EXCEPT ![Client[t]] = t]
  /\ Goto(t, "locked")
  /\ UNCHANGED <<server, cache, memory, call, left, unseen>>

\* Both locks are let go, in a thread that holds them.
Release(t) == flock' = NoOne /\ tlock' = [tlock EXCEPT ![Client[t]] = NoOne]

\* Mutated form of Got: a forced refresh leaves the token in memory alone.
GotAside(t, token) ==
  /\ memory' = IF call[t].force THEN memory ELSE [memory EXCEPT ![Client[t]] = token]
  /\ call' = [call EXCEPT ![t].have = IF call[t].force THEN 0 ELSE token,
                         ![t].force = FALSE, ![t].tries = 0]
  /\ Goto(t, IF call[t].force THEN "want" ELSE "send")

\* What a thread does with the token it was given: the one of a forced refresh is
\* discarded, and the loop of `request` asks for the token once more.
Got(t, token) ==
  /\ memory' = [memory EXCEPT ![Client[t]] = token]
  /\ call' = [call EXCEPT ![t].have = IF call[t].force THEN 0 ELSE token,
                         ![t].force = FALSE, ![t].tries = 0]
  /\ Goto(t, IF call[t].force THEN "want" ELSE "send")

FromFile(t) ==
  /\ pc[t] = "locked" /\ flock = NoOne
  /\ ~call[t].force /\ Fresh(Cached(Cred(t)))
  /\ Got(t, Cached(Cred(t)))
  /\ tlock' = [tlock EXCEPT ![Client[t]] = NoOne]
  /\ UNCHANGED <<server, cache, left, unseen>>

LockFile(t) ==
  /\ pc[t] = "locked" /\ flock = NoOne
  /\ call[t].force \/ ~Fresh(Cached(Cred(t)))
  /\ flock' = t
  /\ Goto(t, "issue")
  /\ UNCHANGED <<server, file, client, call, left, unseen>>

\* FileLock's TimeoutError, where the system's lock gives up waiting: on Windows.
LockTimesOut(t) ==
  /\ pc[t] = "locked" /\ flock # NoOne
  /\ tlock' = [tlock EXCEPT ![Client[t]] = NoOne]
  /\ Return(t)
  /\ UNCHANGED <<server, cache, memory, left, unseen>>

\* The server issues a token: whatever the credential had before is refused now.
Issued(c) ==
  /\ issued' = issued + 1
  /\ valid' = [valid EXCEPT ![c] = issued + 1]

\* _issue_token is answered with a token.
Issue(t) ==
  /\ pc[t] = "issue"
  /\ Issued(Cred(t))
  /\ call' = [call EXCEPT ![t].have = issued + 1]
  /\ unseen' = (unseen \ {valid[Cred(t)]}) \cup {issued + 1}
  /\ Goto(t, "write")
  /\ UNCHANGED <<expired, cache, client, left>>

\* Mutated form of GiveUp: raised past the file lock, which stays held.
GiveUpHolding(t) ==
  /\ tlock' = [tlock EXCEPT ![Client[t]] = NoOne] /\ flock' = flock
  /\ Return(t)
  /\ UNCHANGED <<file, memory, left>>

\* The end of a call that could not issue or write a token: raised through both
\* locks.
GiveUp(t) ==
  /\ Release(t)
  /\ Return(t)
  /\ UNCHANGED <<file, memory, left>>

\* A lost answer: the server may have issued a token nobody will ever see.
IssueUnanswered(t) ==
  /\ pc[t] = "issue"
  /\ \/ Issued(Cred(t)) /\ unseen' = (unseen \ {valid[Cred(t)]}) \cup {issued + 1}
     \/ UNCHANGED <<valid, issued, unseen>>
  /\ \/ /\ call[t].tries < MaxRetries
        /\ call' = [call EXCEPT ![t].tries = @ + 1]
        /\ UNCHANGED <<cache, client, pc, left>>
     \/ call[t].tries = MaxRetries /\ GiveUp(t)
  /\ UNCHANGED expired

\* An error status, or an answer without a token: raised, not retried.
IssueRefused(t) ==
  /\ pc[t] = "issue"
  /\ GiveUp(t)
  /\ UNCHANGED <<server, unseen>>

\* Mutated form of WriteCache: the file is written after its lock is let go.
WriteUnlocked(t) ==
  /\ pc[t] = "write"
  /\ \/ /\ flock = t /\ flock' = NoOne
        /\ UNCHANGED <<server, file, client, thread, unseen>>
     \/ /\ flock # t
        /\ file' = [owner |-> Cred(t), token |-> call[t].have]
        /\ Got(t, call[t].have)
        /\ tlock' = [tlock EXCEPT ![Client[t]] = NoOne]
        /\ unseen' = unseen \ {call[t].have}
        /\ UNCHANGED <<server, flock, left>>

\* _write_cache, os.replace, and the way out of both locks.
WriteCache(t) ==
  /\ pc[t] = "write"
  /\ file' = [owner |-> Cred(t), token |-> call[t].have]
  /\ Got(t, call[t].have)
  /\ Release(t)
  /\ unseen' = unseen \ {call[t].have}
  /\ UNCHANGED <<server, left>>

\* The cache cannot be written: the new token is lost with the exception.
WriteFails(t) ==
  /\ pc[t] = "write"
  /\ GiveUp(t)
  /\ UNCHANGED <<server, unseen>>

-----------------------------------------------------------------------------
\* The server takes the newest token of a credential, for its lifetime.
Takes(t) == call[t].have = valid[Cred(t)]

\* An answer, or an error that is neither about the token nor passing.
Answered(t) ==
  /\ pc[t] = "send" /\ Takes(t)
  /\ Return(t)
  /\ UNCHANGED <<server, cache, client, left, unseen>>

\* 401: worth one forced refresh, once per request.
Refused(t) ==
  /\ pc[t] = "send" /\ ~Takes(t)
  /\ \/ call[t].refreshed /\ Return(t)
     \/ /\ ~call[t].refreshed
        /\ call' = [call EXCEPT ![t] = [NoCall EXCEPT !.refreshed = TRUE, !.force = TRUE,
                                            !.attempt = call[t].attempt, !.bad = call[t].have]]
        /\ Goto(t, "want")
  /\ UNCHANGED <<server, cache, client, left, unseen>>

\* No answer, 429 or 5xx: the loop comes round and asks for the token again.
Unanswered(t) ==
  /\ pc[t] = "send" /\ t \in Flaky
  /\ \/ call[t].attempt = MaxRetries /\ Return(t)
     \/ /\ call[t].attempt < MaxRetries
        /\ call' = [call EXCEPT ![t].attempt = @ + 1, ![t].have = 0]
        /\ Goto(t, "want")
  /\ UNCHANGED <<server, cache, client, left, unseen>>

\* A process is killed and started again: its locks go with its file handles,
\* its memory is empty, the cache file stays as it is.
Crash(c) ==
  LET Killed == {t \in Threads : Client[t] = c} IN
  /\ Crashes /\ \E t \in Killed : pc[t] # "idle"
  /\ pc' = [t \in Threads |-> IF t \in Killed THEN "idle" ELSE pc[t]]
  /\ call' = [t \in Threads |-> IF t \in Killed THEN NoCall ELSE call[t]]
  /\ memory' = [memory EXCEPT ![c] = 0]
  /\ tlock' = [tlock EXCEPT ![c] = NoOne]
  /\ flock' = IF flock \in Killed THEN NoOne ELSE flock
  /\ UNCHANGED <<server, file, left, unseen>>

\* expires_at passes: some margin before the server's own lifetime, and for all
\* the older tokens too.
Expire ==
  /\ \E token \in (expired + 1)..MaxExpired : token <= issued /\ expired' = token
  /\ UNCHANGED <<valid, issued, cache, client, thread, unseen>>

\* The lifetime itself passes.
Lapse(c) ==
  /\ valid[c] # 0 /\ ~Fresh(valid[c])
  /\ valid' = [valid EXCEPT ![c] = 0]
  /\ UNCHANGED <<issued, expired, cache, client, thread, unseen>>

-----------------------------------------------------------------------------
Step(t) ==
  \/ Begin(t)        \/ FromMemory(t)      \/ LockClient(t)
  \/ FromFile(t)     \/ LockFile(t)
  \/ Issue(t)        \/ IssueUnanswered(t) \/ IssueRefused(t)
  \/ WriteCache(t)   \/ WriteFails(t)
  \/ Answered(t)     \/ Refused(t)         \/ Unanswered(t)

Next ==
  \/ \E t \in Threads : Step(t) \/ LockTimesOut(t)
  \/ \E c \in Clients : Crash(c)
  \/ \E c \in Credentials : Lapse(c)
  \/ Expire

\* A cache file of an earlier process, or none; its token may have lapsed, or
\* been replaced from another machine.
Init ==
  /\ file \in [owner : Credentials, token : {0, 1}]
  /\ file.token = 0 => \E t \in Threads : Cred(t) = file.owner
  /\ issued = file.token
  /\ valid \in [Credentials -> {0, 1}]
  /\ \A c \in Credentials : valid[c] = 1 => file = [owner |-> c, token |-> 1]
  /\ expired = 0
  /\ unseen = {}
  /\ flock = NoOne
  /\ memory = [c \in Clients |-> 0]
  /\ tlock = [c \in Clients |-> NoOne]
  /\ pc = [t \in Threads |-> "idle"]
  /\ call = [t \in Threads |-> NoCall]
  /\ left = [t \in Threads |-> Requests]

Spec == Init /\ [][Next]_vars

\* A thread that can go on does: a request and its retries have timeouts.  A waiter on
\* flock or threading.Lock can only once whoever holds it has let it go; nothing says
\* who is first then, and nothing makes it give up before.
Fairness == \A t \in Threads : WF_vars(Step(t))

FairSpec == Spec /\ Fairness

-----------------------------------------------------------------------------
PCs    == {"idle", "want", "locked", "issue", "write", "send"}
Tokens == 0..issued

\* Values have their types; a credential's valid token was issued, and a lock is
\* held by a thread that is past it.
TypeOK ==
  /\ issued \in Nat /\ expired \in Tokens
  /\ valid \in [Credentials -> Tokens]
  /\ file \in [owner : Credentials, token : Tokens]
  /\ flock \in Threads \cup {NoOne} /\ tlock \in [Clients -> Threads \cup {NoOne}]
  /\ flock # NoOne => pc[flock] \in {"issue", "write"}
  /\ \A c \in Clients : tlock[c] # NoOne =>
       Client[tlock[c]] = c /\ pc[tlock[c]] \in {"locked", "issue", "write"}
  /\ memory \in [Clients -> Tokens]
  /\ pc \in [Threads -> PCs]
  /\ call \in [Threads -> [force : BOOLEAN, refreshed : BOOLEAN, have : Tokens,
                       tries : 0..MaxRetries, attempt : 0..MaxRetries, bad : Tokens]]
  /\ left \in [Threads -> 0..Requests]
  /\ unseen \subseteq Tokens

\* _access_token: two processes never spoil each other's tokens.  None is issued, and
\* so none ended, while the cache has one that would do, but for a refusal by the
\* server; and the older of two never stays in the cache: it holds its owner's valid
\* token, unless that is lost or still on its way here, or has lived its life.
CacheIsCurrent ==
  /\ \A t \in Threads : pc[t] = "issue" /\ ~call[t].force => ~Fresh(Cached(Cred(t)))
  /\ valid[file.owner] \in unseen \cup {file.token, 0}

\* request: what is sent after the forced refresh is a later token than the one
\* that was refused, whoever refreshed, failed or restarted in between.
RefreshIsUsed ==
  \A t \in Threads : pc[t] = "send" /\ call[t].refreshed => call[t].have > call[t].bad

\* Every request comes to an end, though flock waits for ever: neither lock is left
\* behind by a failure or a crash, no two wait for each other, and neither the refresh
\* nor the retries go on without end.
EveryRequestEnds == \A t \in Threads : (pc[t] # "idle") ~> (pc[t] = "idle")

=============================================================================
