---------------------------- MODULE VaultProofs ----------------------------
(***************************************************************************)
(* What a request must show before the server of the vault acts on it      *)
(* (vault/service.py): the codes of the authenticator app and the passkey  *)
(* challenge, with the memory of one server.  A handler is synchronous, so *)
(* each request is one step.                                               *)
(*                                                                         *)
(* A code is named by the app's secret and the time step it belongs to, an *)
(* assertion by the challenge it signs and its sign count.  A request that *)
(* shows the recovery passphrase, a PRF passkey or a password has it, since*)
(* a wrong one changes nothing.  The keys are the subject of VaultKeys.    *)
(***************************************************************************)
EXTENDS Integers

CONSTANTS
    Secrets,        \* secrets of authenticator apps
    Challenges,     \* challenges that can be drawn
    MaxClock,       \* bounds the time steps
    MaxWrong,       \* MAX_WRONG_CODES
    MaxCount,       \* bounds the sign count
    Faults,         \* see FaultKinds
    None

FaultKinds == {
    "hold",     \* the holder refuses the key
    "write",    \* a write of the vault file raises before the rename
    "restart" } \* the server restarts

ASSUME ConstantsAssumption ==
    /\ MaxClock \in Nat /\ MaxCount \in Nat /\ MaxWrong \in Nat \ {0}
    /\ Faults \subseteq FaultKinds
    /\ None \notin Secrets \cup Challenges \cup Int
    /\ Secrets \cap Challenges = {}

VARIABLES
    clock,      \* the current time step
    app,        \* the secret of the vault's authenticator app, or None
    password,   \* whether there is an unlock password
    pair,       \* the stored sign count of Password and passkey, or None
    key,        \* whether the holder has the vault's key
    memory,     \* the server's memory
    signed,     \* the assertions the passkey made
    drawn,      \* history: the challenges and app secrets drawn
    newest,     \* history: the last challenge, and whether it is in time
    uses,       \* history: how often each code was taken since the server started
    served,     \* history: how often each challenge carried an accepted assertion
    guesses     \* history: wrong codes of this app since a right one or a full proof

vars == <<clock, app, password, pair, key, memory, signed, drawn, newest, uses, served, guesses>>
world == <<clock, signed, newest>>

-----------------------------------------------------------------------------

Window == 1
Steps == 0 .. MaxClock + Window
Codes == [secret : Secrets, step : Steps]
Assertions == [challenge : Challenges, count : 0 .. MaxCount]

Issued == [id : Challenges, live : BOOLEAN]
NoChallenge == [id |-> None, live |-> FALSE]

Memory == [
    wrong : 0 .. MaxWrong,                      \* `_wrong_codes`
    last : Steps \cup {None},                   \* `_last_step`
    challenge : Issued \cup {NoChallenge} ]     \* `_challenge`

Started == [wrong |-> 0, last |-> None, challenge |-> NoChallenge]

Counted(f, x) == [f EXCEPT ![x] = IF @ < 2 THEN @ + 1 ELSE @]

HoldEnds == {"ok"} \cup (Faults \cap {"hold"})
WriteEnds == {"ok"} \cup (Faults \cap {"write"})

\* `_hold`, where the holder has `before`: a refusal leaves that key, or none.
Hold(m, before, end) ==
    IF end = "ok" THEN key' = TRUE /\ memory' = [m EXCEPT !.wrong = 0]
                  ELSE key' \in {before, FALSE} /\ memory' = m

-----------------------------------------------------------------------------
(* Codes.                                                                  *)

Matches(secret, code) ==
    code.secret = secret /\ code.step >= clock - Window /\ code.step <= clock + Window

\* Mutant: only the last code is refused, not the one before it.
UsedLast(m, code) == m.last # None /\ code.step = m.last

Used(m, code) == m.last # None /\ code.step <= m.last

TooMany(m) == m.wrong >= MaxWrong

\* `_check_code`: a code is taken, or counted as wrong, or refused.
Takes(m, code) == app # None /\ ~TooMany(m) /\ Matches(app, code) /\ ~Used(m, code)
Miscounts(m, code) == app # None /\ ~TooMany(m) /\ ~Matches(app, code)

\* Mutant: the count of wrong codes ends before the code is known to be fresh.
AfterMatch(m, code) ==
    CASE Takes(m, code) -> [m EXCEPT !.wrong = 0, !.last = code.step]
      [] Miscounts(m, code) -> [m EXCEPT !.wrong = @ + 1]
      [] OTHER -> IF app # None /\ Matches(app, code) THEN [m EXCEPT !.wrong = 0] ELSE m

AfterCode(m, code) ==
    CASE Takes(m, code) -> [m EXCEPT !.wrong = 0, !.last = code.step]
      [] Miscounts(m, code) -> [m EXCEPT !.wrong = @ + 1]
      [] OTHER -> m

CodeHistory(m, code) ==
    /\ uses' = IF Takes(m, code) THEN Counted(uses, code) ELSE uses
    /\ guesses' = CASE Takes(m, code) -> 0
                    [] Miscounts(m, code) -> guesses + 1
                    [] OTHER -> guesses

-----------------------------------------------------------------------------
(* The passkey of Password and passkey.                                    *)

\* Mutant: the challenge stays until the next one replaces it.
Untaken(m) == m

\* `_take_challenge`: used up whether or not the request succeeds.
Taken(m) == [m EXCEPT !.challenge = NoChallenge]

\* Mutant: the stored count is not looked at.
AnyCount(seen, stored) == seen >= 0

Rose(seen, stored) == (seen = 0 /\ stored = 0) \/ seen > stored

\* `_check_assertion`, with the challenge the server had.
Verifies(m, a, stored) ==
    m.challenge.live /\ m.challenge.id = a.challenge /\ Rose(a.count, stored)

\* `_save_sign_count`: best effort.
SaveCount(a) ==
    \/ pair' = IF a.count = 0 THEN pair ELSE a.count
    \/ "write" \in Faults /\ UNCHANGED pair

Serve(a) == served' = Counted(served, a.challenge)

-----------------------------------------------------------------------------
(* Unlocks.                                                                *)

\* `unlock_recovery`, `unlock_passkey`.
Unlock(end) ==
    /\ Hold(memory, key, end)
    /\ guesses' = IF end = "ok" THEN 0 ELSE guesses
    /\ UNCHANGED <<world, app, password, pair, drawn, uses, served>>

\* `unlock_password`: a password with no app, of an old vault, opens alone.
UnlockPassword(code, end) ==
    /\ password
    /\ IF app = None
       THEN Hold(memory, key, end) /\ UNCHANGED <<uses, guesses>>
       ELSE /\ CodeHistory(memory, code)
            /\ IF Takes(memory, code) THEN Hold(AfterCode(memory, code), key, end)
               ELSE memory' = AfterCode(memory, code) /\ UNCHANGED key
    /\ UNCHANGED <<world, app, password, pair, drawn, served>>

\* `unlock_pair`, with the right password.
UnlockPair(a, end) ==
    /\ IF pair # None /\ Verifies(memory, a, pair)
       THEN /\ SaveCount(a) /\ Serve(a) /\ Hold(Taken(memory), key, end)
            /\ guesses' = IF end = "ok" THEN 0 ELSE guesses
       ELSE memory' = Taken(memory) /\ UNCHANGED <<pair, key, served, guesses>>
    /\ UNCHANGED <<world, app, password, drawn, uses>>

-----------------------------------------------------------------------------
(* Proofs, and requests on an unlocked vault.                              *)

\* A code as proof of a reveal, a new passkey or a new recovery passphrase.
ProveCode(code) ==
    /\ key
    /\ CodeHistory(memory, code) /\ memory' = AfterCode(memory, code)
    /\ UNCHANGED <<world, app, password, pair, key, drawn, served>>

\* An assertion as proof of the same.
ProveAssertion(a) ==
    /\ key /\ pair # None
    /\ IF Verifies(memory, a, pair) THEN SaveCount(a) /\ Serve(a)
                                    ELSE UNCHANGED <<pair, served>>
    /\ memory' = Taken(memory)
    /\ UNCHANGED <<world, app, password, key, drawn, uses, guesses>>

\* `rotate`, with a full proof: the old key goes before the new one is held.
Rotate(end, written) ==
    /\ key
    /\ IF written = "ok" THEN Hold(memory, FALSE, end) ELSE UNCHANGED <<key, memory>>
    /\ guesses' = IF written = "ok" /\ end = "ok" THEN 0 ELSE guesses
    /\ UNCHANGED <<world, app, password, pair, drawn, uses, served>>

RemoveMfa ==
    /\ key /\ (app # None \/ password)
    /\ app' = None /\ password' = FALSE
    /\ UNCHANGED <<world, pair, key, memory, drawn, uses, served, guesses>>

RemovePair ==
    /\ key /\ pair # None
    /\ pair' = None
    /\ UNCHANGED <<world, app, password, key, memory, drawn, uses, served, guesses>>

Lock ==
    /\ key /\ key' = FALSE
    /\ UNCHANGED <<world, app, password, pair, memory, drawn, uses, served, guesses>>

-----------------------------------------------------------------------------
(* New unlock methods.                                                     *)

\* Mutant: the code that added the app stays good.
Unremembered(m, code) == [m EXCEPT !.wrong = 0]

\* The last line of `add_mfa`: the code that added the app is used.
Remembered(m, code) == [m EXCEPT !.wrong = 0, !.last = code.step]

\* What `add_mfa` checks before its proof.  The page draws a new secret for
\* each app it offers.
CanAddMfa(code) ==
    app = None /\ ~password /\ Matches(code.secret, code) /\ code.secret \notin drawn

\* The rest of `add_mfa`, with `m` in memory.  The hold comes before the last
\* line, which a refusal never reaches.
WriteMfa(m, code, end, written) ==
    IF written # "ok"
    THEN memory' = m /\ UNCHANGED <<app, password, key, drawn, uses, guesses>>
    ELSE /\ app' = code.secret /\ password' = TRUE /\ drawn' = drawn \cup {code.secret}
         /\ uses' = Counted(uses, code) /\ guesses' = 0
         /\ IF key /\ end # "ok" THEN key' \in BOOLEAN /\ memory' = m
                                 ELSE UNCHANGED key /\ memory' = Remembered(m, code)

\* With the recovery passphrase or a PRF passkey as proof.
AddMfa(code, end, written) ==
    /\ CanAddMfa(code) /\ WriteMfa(memory, code, end, written)
    /\ UNCHANGED <<world, pair, served>>

\* With an assertion as proof, which needs the vault unlocked.
AddMfaWithPair(code, a, end, written) ==
    /\ CanAddMfa(code) /\ key /\ pair # None
    /\ IF Verifies(memory, a, pair)
       THEN SaveCount(a) /\ Serve(a) /\ WriteMfa(Taken(memory), code, end, written)
       ELSE memory' = Taken(memory) /\ UNCHANGED <<app, password, pair, key, drawn, uses,
                                                   served, guesses>>
    /\ UNCHANGED world

\* `add_pair` takes the challenge, then verifies the registration and the new
\* passkey's assertion, then looks for a pair and at the proof.
CanAddPair(a) == pair = None /\ Verifies(memory, a, 0)

\* The rest of `add_pair`, with `m` in memory.
WritePair(m, a, end, written) ==
    IF written # "ok" THEN memory' = m /\ UNCHANGED <<pair, key>>
    ELSE /\ pair' = a.count
         /\ IF key THEN Hold(m, key, end) ELSE memory' = m /\ UNCHANGED key

AddPair(a, end, written) ==
    /\ IF CanAddPair(a)
       THEN /\ WritePair(Taken(memory), a, end, written) /\ Serve(a)
            /\ guesses' = IF written = "ok" /\ key /\ end = "ok" THEN 0 ELSE guesses
       ELSE memory' = Taken(memory) /\ UNCHANGED <<pair, key, served, guesses>>
    /\ UNCHANGED <<world, app, password, drawn, uses>>

\* With a code as proof, which needs the vault unlocked.
AddPairWithCode(a, code, end, written) ==
    LET m == Taken(memory) IN
    /\ CanAddPair(a) /\ Serve(a)
    /\ IF key THEN CodeHistory(m, code) ELSE UNCHANGED <<uses, guesses>>
    /\ IF key /\ Takes(m, code) THEN WritePair(AfterCode(m, code), a, end, written)
       ELSE memory' = (IF key THEN AfterCode(m, code) ELSE m) /\ UNCHANGED <<pair, key>>
    /\ UNCHANGED <<world, app, password, drawn>>

-----------------------------------------------------------------------------
(* The challenge, and what happens around the server.                      *)

\* `challenge`: a new one replaces the last.
Challenge(c) ==
    /\ c \notin drawn /\ drawn' = drawn \cup {c}
    /\ newest' = [id |-> c, live |-> TRUE]
    /\ memory' = [memory EXCEPT !.challenge = newest']
    /\ UNCHANGED <<clock, app, password, pair, key, signed, uses, served, guesses>>

\* 600 s after it was issued.
ChallengeExpires ==
    /\ newest.live /\ newest' = [newest EXCEPT !.live = FALSE]
    /\ memory' = [memory EXCEPT !.challenge.live = FALSE]
    /\ UNCHANGED <<clock, app, password, pair, key, signed, drawn, uses, served, guesses>>

\* The passkey signs a challenge a page read.  Its count may have gone back, as
\* that of an authenticator restored or copied does.
Sign(c) ==
    /\ c \in drawn
    /\ \E count \in 0 .. MaxCount : signed' = signed \cup {[challenge |-> c, count |-> count]}
    /\ UNCHANGED <<clock, app, password, pair, key, memory, drawn, newest, uses, served, guesses>>

Tick ==
    /\ clock < MaxClock /\ clock' = clock + 1
    /\ UNCHANGED <<app, password, pair, key, memory, signed, drawn, newest, uses, served, guesses>>

\* The unlock duration ends.
Expire ==
    /\ key /\ key' = FALSE
    /\ UNCHANGED <<world, app, password, pair, memory, drawn, uses, served, guesses>>

\* A restart forgets everything but what the holder keeps: the kernel's and the
\* agent's keep the key, the server's own memory does not.
Restart ==
    /\ "restart" \in Faults
    /\ memory' = Started /\ key' \in {key, FALSE}
    /\ uses' = [c \in Codes |-> 0] /\ guesses' = 0
    /\ UNCHANGED <<world, app, password, pair, drawn, served>>

Init ==
    /\ clock = 0
    /\ app \in Secrets \cup {None} /\ password \in BOOLEAN
    /\ pair = None /\ key = FALSE /\ memory = Started
    /\ signed = {} /\ drawn = {app} \ {None} /\ newest = NoChallenge
    /\ uses = [c \in Codes |-> 0] /\ served = [c \in Challenges |-> 0]
    /\ guesses = 0

Code(code) ==
    \/ \E end \in HoldEnds : UnlockPassword(code, end)
    \/ ProveCode(code)
    \/ \E end \in HoldEnds, written \in WriteEnds :
         \/ AddMfa(code, end, written)
         \/ \E a \in signed : \/ AddMfaWithPair(code, a, end, written)
                              \/ AddPairWithCode(a, code, end, written)

Assertion(a) ==
    \/ \E end \in HoldEnds : UnlockPair(a, end)
    \/ ProveAssertion(a)
    \/ \E end \in HoldEnds, written \in WriteEnds : AddPair(a, end, written)

Next ==
    \/ \E code \in Codes : Code(code)
    \/ \E a \in signed : Assertion(a)
    \/ \E end \in HoldEnds : Unlock(end) \/ \E written \in WriteEnds : Rotate(end, written)
    \/ RemoveMfa \/ RemovePair \/ Lock
    \/ \E c \in Challenges : Challenge(c) \/ Sign(c)
    \/ ChallengeExpires \/ Tick \/ Expire \/ Restart

Spec == Init /\ [][Next]_vars
-----------------------------------------------------------------------------

\* Types. A history that counts uses stops at the second.
TypeOK ==
    /\ clock \in 0 .. MaxClock
    /\ app \in Secrets \cup {None} /\ password \in BOOLEAN
    /\ pair \in (0 .. MaxCount) \cup {None}
    /\ key \in BOOLEAN
    /\ memory \in Memory
    /\ signed \subseteq Assertions
    /\ drawn \subseteq Secrets \cup Challenges
    /\ newest \in Issued \cup {NoChallenge}
    /\ uses \in [Codes -> 0 .. 2] /\ served \in [Challenges -> 0 .. 2]
    /\ guesses \in Nat

\* A code is taken once, whether it unlocks, proves or adds the app, also when
\* the clock has moved and another code was taken in between.
CodeTakenOnce == \A c \in Codes : uses[c] <= 1

\* No path lets more wrong codes through than MAX_WRONG_CODES before a right
\* code or a full proof: a new method, a lock or an expiry starts no new count.
GuessesAreBounded == guesses <= MaxWrong

\* A challenge carries one accepted assertion at most, whatever the requests that
\* name it are, and that one only while it is the last one issued and in its time.
ChallengeServesOnce ==
    [][\A c \in Challenges : served'[c] # served[c] =>
        served[c] = 0 /\ newest = [id |-> c, live |-> TRUE]]_served

\* The stored sign count of a pair never goes down, whatever counts the passkey
\* shows: also with one that went back, a refused count stays refused.
SignCountRises == [][pair # None /\ pair' # None => pair' >= pair]_pair
=============================================================================
