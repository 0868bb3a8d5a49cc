------------------------- MODULE VaultProofs_proofs -------------------------
(***************************************************************************)
(* The safety of VaultProofs for every value of its constants: any number  *)
(* of challenges and secrets, any clock, any bound on wrong codes.         *)
(*                                                                         *)
(* The code properties rest on CodesInv: a code that was taken is of a     *)
(* secret that will not be drawn again, and not after the last one on      *)
(* record while its app is there.  The bound on guesses rests on CountInv, *)
(* the challenge on ChallengeInv.                                          *)
(***************************************************************************)
EXTENDS VaultProofs, TLAPS

\* What was taken cannot be taken again.
CodesInv ==
    /\ app # None => app \in drawn
    /\ \A c \in Codes : uses[c] <= 1
    /\ \A c \in Codes : uses[c] # 0 =>
         /\ c.secret \in drawn
         /\ c.secret = app => memory.last # None /\ c.step <= memory.last

\* The server's count is no lower than the guesses; an old vault without an app has none.
CountInv ==
    /\ guesses <= memory.wrong
    /\ app = None /\ password => guesses = 0

\* The challenge the server has is the newest, and has not served.
ChallengeInv ==
    /\ newest.id # None => newest.id \in drawn
    /\ \A c \in Challenges : served[c] # 0 => c \in drawn
    /\ memory.challenge # NoChallenge => memory.challenge = newest /\ served[newest.id] = 0

-----------------------------------------------------------------------------
(* What the server remembers.                                              *)

LEMMA CountedTyped ==
    ASSUME NEW S, NEW f \in [S -> 0 .. 2], NEW x \in S
    PROVE  /\ Counted(f, x) \in [S -> 0 .. 2]
           /\ \A y \in S : Counted(f, x)[y] = IF y = x /\ f[x] < 2 THEN f[x] + 1 ELSE f[y]
BY DEF Counted

LEMMA StartedTyped == Started \in Memory
BY ConstantsAssumption DEF Started, Memory

LEMMA TakenTyped ==
    ASSUME NEW m \in Memory
    PROVE  /\ Taken(m) \in Memory
           /\ Taken(m).wrong = m.wrong /\ Taken(m).last = m.last
           /\ Taken(m).challenge = NoChallenge
BY DEF Taken, Memory

LEMMA NoWrongTyped ==
    ASSUME NEW m \in Memory
    PROVE  /\ [m EXCEPT !.wrong = 0] \in Memory
           /\ [m EXCEPT !.wrong = 0].last = m.last
           /\ [m EXCEPT !.wrong = 0].wrong = 0
           /\ [m EXCEPT !.wrong = 0].challenge = m.challenge
BY ConstantsAssumption DEF Memory

LEMMA RememberedTyped ==
    ASSUME NEW m \in Memory, NEW code \in Codes
    PROVE  /\ Remembered(m, code) \in Memory
           /\ Remembered(m, code).last = code.step
           /\ Remembered(m, code).wrong = 0
           /\ Remembered(m, code).challenge = m.challenge
<1>1. code.step \in Steps /\ 0 \in 0 .. MaxWrong
  BY ConstantsAssumption DEF Codes
<1>2. QED
  BY <1>1 DEF Remembered, Memory

\* A code that is checked is taken, counted as wrong, or changes nothing.
LEMMA AfterCodeTyped ==
    ASSUME NEW m \in Memory, NEW code \in Codes
    PROVE  /\ AfterCode(m, code) \in Memory
           /\ AfterCode(m, code).challenge = m.challenge
           /\ AfterCode(m, code).last = IF Takes(m, code) THEN code.step ELSE m.last
           /\ AfterCode(m, code).wrong = IF Takes(m, code) THEN 0
                                         ELSE IF Miscounts(m, code) THEN m.wrong + 1 ELSE m.wrong
<1>1. CASE Takes(m, code)
  <2>1. AfterCode(m, code) = Remembered(m, code)
    BY <1>1 DEF AfterCode, Remembered, Takes, Miscounts
  <2>2. QED
    BY <1>1, <2>1, RememberedTyped
<1>2. CASE ~Takes(m, code) /\ Miscounts(m, code)
  <2>1. m.wrong + 1 \in 0 .. MaxWrong
    BY <1>2, ConstantsAssumption DEF Miscounts, TooMany, Memory
  <2>2. AfterCode(m, code) = [m EXCEPT !.wrong = @ + 1]
    BY <1>2 DEF AfterCode
  <2>3. QED
    BY <1>2, <2>1, <2>2 DEF Memory
<1>3. CASE ~Takes(m, code) /\ ~Miscounts(m, code)
  BY <1>3 DEF AfterCode
<1>4. QED
  BY <1>1, <1>2, <1>3

\* A hold ends with the same memory, but for the count of wrong codes.
LEMMA HoldTyped ==
    ASSUME NEW m \in Memory, NEW before \in BOOLEAN, NEW end, Hold(m, before, end)
    PROVE  /\ key' \in BOOLEAN
           /\ memory' \in Memory
           /\ memory'.last = m.last /\ memory'.challenge = m.challenge
           /\ memory'.wrong = IF end = "ok" THEN 0 ELSE m.wrong
BY NoWrongTyped DEF Hold

LEMMA CodeHistoryTyped ==
    ASSUME uses \in [Codes -> 0 .. 2], guesses \in Nat,
           NEW m, NEW code \in Codes, CodeHistory(m, code)
    PROVE  /\ uses' \in [Codes -> 0 .. 2] /\ guesses' \in Nat
           /\ uses' = IF Takes(m, code) THEN Counted(uses, code) ELSE uses
BY CountedTyped DEF CodeHistory

LEMMA ServeTyped ==
    ASSUME served \in [Challenges -> 0 .. 2], NEW a \in Assertions, Serve(a)
    PROVE  served' \in [Challenges -> 0 .. 2]
BY CountedTyped DEF Serve, Assertions

LEMMA SaveCountTyped ==
    ASSUME pair \in (0 .. MaxCount) \cup {None}, NEW a \in Assertions, SaveCount(a)
    PROVE  pair' \in (0 .. MaxCount) \cup {None}
BY DEF SaveCount, Assertions

-----------------------------------------------------------------------------
(* What a step must not do, and the steps that cannot.                     *)

IInv == TypeOK /\ CountInv /\ ChallengeInv

\* No hold is refused.
HoldsSucceed == "hold" \notin Faults

KeepsCodes == HoldsSucceed /\ CodesInv => CodesInv'

ServesNewest == \A c \in Challenges : served'[c] # served[c] =>
    served[c] = 0 /\ newest = [id |-> c, live |-> TRUE]

CountRises == pair # None /\ pair' # None => pair' >= pair

\* What every step keeps.
Safe == IInv' /\ KeepsCodes /\ ServesNewest /\ CountRises

LEMMA NoCodeTaken ==
    ASSUME app' \in {app, None}, uses' = uses, memory'.last = memory.last, drawn \subseteq drawn'
    PROVE  KeepsCodes
BY ConstantsAssumption DEF KeepsCodes, CodesInv, Codes

\* A code that is taken is after the last one on record, so it was not taken before.
LEMMA CodeChecked ==
    ASSUME TypeOK, NEW m \in Memory, m.last = memory.last, NEW code \in Codes,
           CodeHistory(m, code), memory'.last = AfterCode(m, code).last,
           app' = app, drawn' = drawn
    PROVE  KeepsCodes
<1>1. SUFFICES ASSUME CodesInv PROVE CodesInv'
  BY DEF KeepsCodes
<1>2. CASE ~Takes(m, code)
  <2>1. uses' = uses /\ memory'.last = memory.last
    BY <1>2, AfterCodeTyped DEF CodeHistory
  <2>2. QED
    BY <1>1, <2>1 DEF CodesInv
<1>3. CASE Takes(m, code)
  <2>1. /\ memory'.last = code.step /\ code.step \in Steps
        /\ app = code.secret /\ app \in drawn
        /\ memory.last = None \/ code.step > memory.last
    BY <1>1, <1>3, AfterCodeTyped, ConstantsAssumption
    DEF Takes, Matches, Used, CodesInv, Codes, Steps, Window, TypeOK, Memory
  <2>2. uses[code] = 0
    BY <1>1, <2>1, ConstantsAssumption DEF CodesInv, TypeOK, Steps, Window, Memory
  <2>3. \A c \in Codes : uses'[c] = IF c = code THEN 1 ELSE uses[c]
    BY <1>3, <2>2, CountedTyped DEF CodeHistory, TypeOK
  <2>4. \A c \in Codes : c # code /\ uses[c] # 0 /\ c.secret = app => c.step <= code.step
    BY <1>1, <2>1, ConstantsAssumption DEF CodesInv, TypeOK, Steps, Window, Memory, Codes
  <2>5. QED
    BY <1>1, <2>1, <2>3, <2>4, ConstantsAssumption DEF CodesInv, Steps, Window
<1>4. QED
  BY <1>2, <1>3

LEMMA ChallengeKept ==
    ASSUME ChallengeInv, newest' = newest, served' = served, drawn \subseteq drawn',
           memory'.challenge \in {memory.challenge, NoChallenge}
    PROVE  ChallengeInv' /\ ServesNewest
BY DEF ChallengeInv, ServesNewest

\* Whatever verifies has taken the challenge, which was the newest and had not served.
LEMMA ChallengeServes ==
    ASSUME TypeOK, ChallengeInv, NEW a \in Assertions, NEW stored,
           Verifies(memory, a, stored), Serve(a),
           newest' = newest, drawn \subseteq drawn', memory'.challenge = NoChallenge
    PROVE  ChallengeInv' /\ ServesNewest
<1>1. memory.challenge.live /\ memory.challenge.id = a.challenge /\ memory.challenge # NoChallenge
  BY DEF Verifies, NoChallenge
<1>2. newest = memory.challenge /\ newest \in Issued
      /\ served[newest.id] = 0 /\ newest.id = a.challenge /\ a.challenge \in drawn
  BY <1>1, ConstantsAssumption DEF ChallengeInv, TypeOK, Memory, Assertions
<1>3. newest = [id |-> a.challenge, live |-> TRUE]
  BY <1>1, <1>2 DEF Issued
<1>4. a.challenge \in Challenges
      /\ \A c \in Challenges : c # a.challenge => served'[c] = served[c]
  BY CountedTyped DEF Serve, TypeOK, Assertions
<1>5. ServesNewest
  BY <1>2, <1>3, <1>4 DEF ServesNewest
<1>6. ChallengeInv'
  BY <1>2, <1>4 DEF ChallengeInv
<1>7. QED
  BY <1>5, <1>6

\* A count that verifies is above the one stored.
LEMMA SavedCountRises ==
    ASSUME pair \in (0 .. MaxCount) \cup {None}, NEW a \in Assertions, pair # None,
           Verifies(memory, a, pair), SaveCount(a)
    PROVE  CountRises
BY ConstantsAssumption DEF CountRises, Verifies, Rose, SaveCount, Assertions

-----------------------------------------------------------------------------
(* The requests that check a code.                                         *)

\* What an unlock with a right code, or a proof of one, adds to the counts.
LEMMA CodeCounted ==
    ASSUME TypeOK, CountInv, NEW m \in Memory, m.wrong = memory.wrong, NEW code \in Codes,
           CodeHistory(m, code)
    PROVE  guesses' \in Nat /\ guesses' <= AfterCode(m, code).wrong
<1>1. memory.wrong \in Nat
  BY ConstantsAssumption DEF TypeOK, Memory
<1>2. guesses' = IF Takes(m, code) THEN 0
                 ELSE IF Miscounts(m, code) THEN guesses + 1 ELSE guesses
  BY DEF CodeHistory, Takes, Miscounts
<1>3. QED
  BY <1>1, <1>2, AfterCodeTyped DEF CountInv, TypeOK

LEMMA ProveCodeStep ==
    ASSUME IInv, NEW code \in Codes, ProveCode(code)
    PROVE  Safe
<1>1. TypeOK'
  BY AfterCodeTyped, CodeHistoryTyped DEF IInv, TypeOK, ProveCode, world
<1>2. CountInv'
  <2>1. app # None
    \/ UNCHANGED <<guesses, app, password>>
    BY DEF ProveCode, CodeHistory, Takes, Miscounts
  <2>2. QED
    BY <2>1, CodeCounted DEF IInv, TypeOK, CountInv, ProveCode
<1>3. ChallengeInv' /\ ServesNewest
  BY ChallengeKept, AfterCodeTyped DEF IInv, TypeOK, ProveCode, world
<1>4. KeepsCodes
  BY CodeChecked DEF IInv, TypeOK, ProveCode
<1>5. QED
  BY <1>1, <1>2, <1>3, <1>4, ConstantsAssumption
  DEF Safe, IInv, CountRises, ProveCode, TypeOK

LEMMA UnlockPasswordStep ==
    ASSUME IInv, NEW code \in Codes, NEW end \in HoldEnds, UnlockPassword(code, end)
    PROVE  Safe
<1>1. CASE app = None
  <2>1. /\ key' \in BOOLEAN /\ memory' \in Memory
        /\ memory'.last = memory.last /\ memory'.challenge = memory.challenge
        /\ memory'.wrong = IF end = "ok" THEN 0 ELSE memory.wrong
    BY <1>1, HoldTyped DEF IInv, TypeOK, UnlockPassword
  <2>2. guesses = 0 /\ UNCHANGED <<world, app, password, pair, drawn, served, uses, guesses>>
    BY <1>1 DEF IInv, CountInv, UnlockPassword
  <2>3. TypeOK'
    BY <2>1, <2>2 DEF IInv, TypeOK, world
  <2>4. CountInv'
    BY <2>1, <2>2, ConstantsAssumption DEF IInv, TypeOK, CountInv, Memory
  <2>5. ChallengeInv' /\ ServesNewest
    BY <2>1, <2>2, ChallengeKept DEF IInv, world
  <2>6. KeepsCodes
    BY <2>1, <2>2, NoCodeTaken
  <2>7. QED
    BY <2>2, <2>3, <2>4, <2>5, <2>6, ConstantsAssumption DEF Safe, IInv, CountRises, TypeOK
<1>2. CASE app # None
  <2> DEFINE m == AfterCode(memory, code)
  <2>1. /\ m \in Memory /\ m.challenge = memory.challenge
        /\ CodeHistory(memory, code)
        /\ UNCHANGED <<world, app, password, pair, drawn, served>>
    BY <1>2, AfterCodeTyped DEF IInv, TypeOK, UnlockPassword
  <2>2. /\ key' \in BOOLEAN /\ memory' \in Memory
        /\ memory'.last = m.last /\ memory'.challenge = m.challenge
        /\ memory'.wrong = m.wrong
    <3>1. CASE Takes(memory, code)
      <4>1. m.wrong = 0 /\ Hold(m, key, end)
        BY <1>2, <3>1, AfterCodeTyped DEF IInv, TypeOK, UnlockPassword
      <4>2. QED
        BY <4>1, <2>1, HoldTyped DEF IInv, TypeOK
    <3>2. CASE ~Takes(memory, code)
      BY <1>2, <3>2, <2>1 DEF IInv, TypeOK, UnlockPassword
    <3>3. QED
      BY <3>1, <3>2
  <2> HIDE DEF m
  <2>3. TypeOK'
    BY <2>1, <2>2, CodeHistoryTyped DEF IInv, TypeOK, world
  <2>4. CountInv'
    BY <1>2, <2>1, <2>2, CodeCounted DEF IInv, TypeOK, CountInv, m
  <2>5. ChallengeInv' /\ ServesNewest
    BY <2>1, <2>2, ChallengeKept DEF IInv, world
  <2>6. KeepsCodes
    BY <2>1, <2>2, CodeChecked DEF IInv, TypeOK, m
  <2>7. QED
    BY <2>1, <2>3, <2>4, <2>5, <2>6, ConstantsAssumption DEF Safe, IInv, CountRises, TypeOK
<1>3. QED
  BY <1>1, <1>2

\* With the app added, the code is used; without, memory is as after the proof, `m`.
LEMMA WriteMfaStep ==
    ASSUME IInv, NEW m \in Memory, m.wrong = memory.wrong, m.last = memory.last,
           NEW code \in Codes, NEW end \in HoldEnds, NEW written,
           CanAddMfa(code), WriteMfa(m, code, end, written)
    PROVE  /\ app' \in Secrets \cup {None} /\ password' \in BOOLEAN /\ key' \in BOOLEAN
           /\ memory' \in Memory /\ memory'.challenge = m.challenge
           /\ uses' \in [Codes -> 0 .. 2] /\ guesses' \in Nat
           /\ drawn \subseteq drawn' /\ drawn' \subseteq Secrets \cup Challenges
           /\ CountInv' /\ KeepsCodes
<1>1. CASE written # "ok"
  <2>1. memory' = m /\ UNCHANGED <<app, password, key, drawn, uses, guesses>>
    BY <1>1 DEF WriteMfa
  <2>2. CountInv' /\ KeepsCodes
    BY <2>1, NoCodeTaken DEF IInv, CountInv
  <2>3. QED
    BY <2>1, <2>2 DEF IInv, TypeOK
<1>2. CASE written = "ok"
  <2>1. /\ app' = code.secret /\ password' = TRUE /\ drawn' = drawn \cup {code.secret}
        /\ uses' = Counted(uses, code) /\ guesses' = 0
        /\ code.secret \in Secrets /\ code.step \in Steps /\ code.secret \notin drawn
    BY <1>2 DEF WriteMfa, CanAddMfa, Codes
  <2>2. /\ key' \in BOOLEAN /\ memory' \in {m, Remembered(m, code)}
        /\ HoldsSucceed => memory' = Remembered(m, code)
    BY <1>2 DEF WriteMfa, IInv, TypeOK, HoldsSucceed, HoldEnds
  <2>3. memory' \in Memory /\ memory'.challenge = m.challenge
    BY <2>2, RememberedTyped
  <2>4. CountInv'
    BY <2>1, <2>3, ConstantsAssumption DEF CountInv, Memory
  <2>5. KeepsCodes
    <3>1. SUFFICES ASSUME HoldsSucceed, CodesInv PROVE CodesInv'
      BY DEF KeepsCodes
    <3>2. memory'.last = code.step /\ code.step # None
      BY <2>1, <2>2, <3>1, RememberedTyped, ConstantsAssumption DEF Steps, Window
    <3>3. \A c \in Codes : c.secret = code.secret => uses[c] = 0
      BY <2>1, <3>1 DEF CodesInv
    <3>4. \A c \in Codes : uses'[c] = IF c = code THEN 1 ELSE uses[c]
      BY <2>1, <3>3, CountedTyped DEF IInv, TypeOK
    <3>5. code.step <= code.step
      BY <2>1, ConstantsAssumption DEF Steps, Window
    <3>6. QED
      BY <2>1, <3>1, <3>2, <3>3, <3>4, <3>5 DEF CodesInv
  <2>6. QED
    BY <2>1, <2>2, <2>3, <2>4, <2>5, CountedTyped DEF IInv, TypeOK
<1>3. QED
  BY <1>1, <1>2

LEMMA AddMfaStep ==
    ASSUME IInv, NEW code \in Codes, NEW end \in HoldEnds, NEW written,
           AddMfa(code, end, written)
    PROVE  Safe
<1>1. /\ app' \in Secrets \cup {None} /\ password' \in BOOLEAN /\ key' \in BOOLEAN
      /\ memory' \in Memory /\ memory'.challenge = memory.challenge
      /\ uses' \in [Codes -> 0 .. 2] /\ guesses' \in Nat
      /\ drawn \subseteq drawn' /\ drawn' \subseteq Secrets \cup Challenges
      /\ CountInv' /\ KeepsCodes
  BY WriteMfaStep DEF AddMfa, IInv, TypeOK
<1>2. UNCHANGED <<clock, signed, newest, pair, served>>
  BY DEF AddMfa, world
<1>3. TypeOK'
  BY <1>1, <1>2 DEF IInv, TypeOK
<1>4. ChallengeInv' /\ ServesNewest
  BY <1>1, <1>2, ChallengeKept DEF IInv
<1>5. QED
  BY <1>1, <1>2, <1>3, <1>4, ConstantsAssumption DEF Safe, IInv, CountRises, TypeOK

LEMMA AddMfaWithPairStep ==
    ASSUME IInv, NEW code \in Codes, NEW a \in signed, NEW end \in HoldEnds, NEW written,
           AddMfaWithPair(code, a, end, written)
    PROVE  Safe
<1> DEFINE m == Taken(memory)
<1>1. /\ m \in Memory /\ m.wrong = memory.wrong /\ m.last = memory.last
      /\ m.challenge = NoChallenge
      /\ a \in Assertions
      /\ UNCHANGED <<clock, signed, newest>>
  BY TakenTyped DEF IInv, TypeOK, AddMfaWithPair, world
<1>2. CASE Verifies(memory, a, pair)
  <2>1. CanAddMfa(code) /\ pair # None /\ SaveCount(a) /\ Serve(a) /\ WriteMfa(m, code, end, written)
    BY <1>2 DEF AddMfaWithPair
  <2> HIDE DEF m
  <2>2. /\ app' \in Secrets \cup {None} /\ password' \in BOOLEAN /\ key' \in BOOLEAN
        /\ memory' \in Memory /\ memory'.challenge = NoChallenge
        /\ uses' \in [Codes -> 0 .. 2] /\ guesses' \in Nat
        /\ drawn \subseteq drawn' /\ drawn' \subseteq Secrets \cup Challenges
        /\ CountInv' /\ KeepsCodes
    BY <1>1, <2>1, WriteMfaStep
  <2>3. TypeOK'
    BY <1>1, <2>1, <2>2, ServeTyped, SaveCountTyped DEF IInv, TypeOK
  <2>4. ChallengeInv' /\ ServesNewest
    BY <1>1, <1>2, <2>1, <2>2, ChallengeServes DEF IInv
  <2>5. CountRises
    BY <1>1, <1>2, <2>1, SavedCountRises DEF IInv, TypeOK
  <2>6. QED
    BY <2>2, <2>3, <2>4, <2>5 DEF Safe, IInv
<1>3. CASE ~Verifies(memory, a, pair)
  <2>1. memory' = m
        /\ UNCHANGED <<app, password, pair, key, drawn, uses, served, guesses>>
    BY <1>3 DEF AddMfaWithPair
  <2> HIDE DEF m
  <2>2. TypeOK'
    BY <1>1, <2>1 DEF IInv, TypeOK
  <2>3. CountInv'
    BY <1>1, <2>1 DEF IInv, CountInv
  <2>4. ChallengeInv' /\ ServesNewest
    BY <1>1, <2>1, ChallengeKept DEF IInv
  <2>5. KeepsCodes
    BY <1>1, <2>1, NoCodeTaken
  <2>6. QED
    BY <2>1, <2>2, <2>3, <2>4, <2>5, ConstantsAssumption DEF Safe, IInv, CountRises, TypeOK
<1>4. QED
  BY <1>2, <1>3

-----------------------------------------------------------------------------
(* The requests that check an assertion.                                   *)

\* A request that takes the challenge and nothing else.
LEMMA OnlyTakes ==
    ASSUME IInv, memory' = Taken(memory), UNCHANGED world,
           UNCHANGED <<app, password, pair, drawn, served, uses, guesses>>, key' = key
    PROVE  Safe
<1>1. /\ memory' \in Memory /\ memory'.wrong = memory.wrong /\ memory'.last = memory.last
      /\ memory'.challenge = NoChallenge
      /\ UNCHANGED <<clock, signed, newest>>
  BY TakenTyped DEF IInv, TypeOK, world
<1>2. TypeOK'
  BY <1>1 DEF IInv, TypeOK
<1>3. CountInv'
  BY <1>1 DEF IInv, CountInv
<1>4. ChallengeInv' /\ ServesNewest
  BY <1>1, ChallengeKept DEF IInv
<1>5. KeepsCodes
  BY <1>1, NoCodeTaken
<1>6. QED
  BY <1>2, <1>3, <1>4, <1>5, ConstantsAssumption DEF Safe, IInv, CountRises, TypeOK

LEMMA UnlockPairStep ==
    ASSUME IInv, NEW a \in signed, NEW end \in HoldEnds, UnlockPair(a, end)
    PROVE  Safe
<1> DEFINE m == Taken(memory)
<1>1. /\ m \in Memory /\ m.wrong = memory.wrong /\ m.last = memory.last
      /\ m.challenge = NoChallenge /\ a \in Assertions /\ key \in BOOLEAN
      /\ UNCHANGED <<clock, signed, newest, app, password, drawn, uses>>
  BY TakenTyped DEF IInv, TypeOK, UnlockPair, world
<1>2. CASE pair # None /\ Verifies(memory, a, pair)
  <2>1. /\ SaveCount(a) /\ Serve(a) /\ Hold(m, key, end)
        /\ guesses' = IF end = "ok" THEN 0 ELSE guesses
    BY <1>2 DEF UnlockPair
  <2> HIDE DEF m
  <2>2. /\ key' \in BOOLEAN /\ memory' \in Memory
        /\ memory'.last = memory.last /\ memory'.challenge = NoChallenge
        /\ memory'.wrong = IF end = "ok" THEN 0 ELSE memory.wrong
    BY <1>1, <2>1, HoldTyped
  <2>3. TypeOK'
    BY <1>1, <2>1, <2>2, ServeTyped, SaveCountTyped DEF IInv, TypeOK
  <2>4. CountInv'
    BY <1>1, <2>1, <2>2 DEF IInv, CountInv
  <2>5. ChallengeInv' /\ ServesNewest
    BY <1>1, <1>2, <2>1, <2>2, ChallengeServes DEF IInv
  <2>6. KeepsCodes
    BY <1>1, <2>2, NoCodeTaken
  <2>7. CountRises
    BY <1>1, <1>2, <2>1, SavedCountRises DEF IInv, TypeOK
  <2>8. QED
    BY <2>3, <2>4, <2>5, <2>6, <2>7 DEF Safe, IInv
<1>3. CASE ~(pair # None /\ Verifies(memory, a, pair))
  BY <1>3, OnlyTakes DEF UnlockPair
<1>4. QED
  BY <1>2, <1>3

LEMMA ProveAssertionStep ==
    ASSUME IInv, NEW a \in signed, ProveAssertion(a)
    PROVE  Safe
<1>1. CASE Verifies(memory, a, pair)
  <2>1. /\ memory' \in Memory /\ memory'.wrong = memory.wrong /\ memory'.last = memory.last
        /\ memory'.challenge = NoChallenge /\ a \in Assertions
        /\ pair # None /\ SaveCount(a) /\ Serve(a)
        /\ UNCHANGED <<clock, signed, newest, app, password, key, drawn, uses, guesses>>
    BY <1>1, TakenTyped DEF IInv, TypeOK, ProveAssertion, world
  <2>2. TypeOK'
    BY <2>1, ServeTyped, SaveCountTyped DEF IInv, TypeOK
  <2>3. CountInv'
    BY <2>1 DEF IInv, CountInv
  <2>4. ChallengeInv' /\ ServesNewest
    BY <1>1, <2>1, ChallengeServes DEF IInv
  <2>5. KeepsCodes
    BY <2>1, NoCodeTaken
  <2>6. CountRises
    BY <1>1, <2>1, SavedCountRises DEF IInv, TypeOK
  <2>7. QED
    BY <2>2, <2>3, <2>4, <2>5, <2>6 DEF Safe, IInv
<1>2. CASE ~Verifies(memory, a, pair)
  BY <1>2, OnlyTakes DEF ProveAssertion
<1>3. QED
  BY <1>1, <1>2

\* With the pair written, a hold of the key ends the count of wrong codes.
LEMMA WritePairStep ==
    ASSUME key \in BOOLEAN, pair = None, NEW m \in Memory, NEW a \in Assertions,
           NEW end \in HoldEnds, NEW written, WritePair(m, a, end, written)
    PROVE  /\ pair' \in (0 .. MaxCount) \cup {None} /\ key' \in BOOLEAN
           /\ memory' \in Memory
           /\ memory'.last = m.last /\ memory'.challenge = m.challenge
           /\ memory'.wrong = IF written = "ok" /\ key /\ end = "ok" THEN 0 ELSE m.wrong
<1>1. CASE written # "ok"
  BY <1>1 DEF WritePair
<1>2. CASE written = "ok" /\ key
  BY <1>2, HoldTyped DEF WritePair, Assertions
<1>3. CASE written = "ok" /\ ~key
  BY <1>3 DEF WritePair, Assertions
<1>4. QED
  BY <1>1, <1>2, <1>3

LEMMA AddPairStep ==
    ASSUME IInv, NEW a \in signed, NEW end \in HoldEnds, NEW written, AddPair(a, end, written)
    PROVE  Safe
<1> DEFINE m == Taken(memory)
<1>1. /\ m \in Memory /\ m.wrong = memory.wrong /\ m.last = memory.last
      /\ m.challenge = NoChallenge /\ a \in Assertions /\ key \in BOOLEAN
      /\ UNCHANGED <<clock, signed, newest, app, password, drawn, uses>>
  BY TakenTyped DEF IInv, TypeOK, AddPair, world
<1>2. CASE CanAddPair(a)
  <2>1. /\ WritePair(m, a, end, written) /\ Serve(a) /\ pair = None /\ Verifies(memory, a, 0)
        /\ guesses' = IF written = "ok" /\ key /\ end = "ok" THEN 0 ELSE guesses
    BY <1>2 DEF AddPair, CanAddPair
  <2> HIDE DEF m
  <2>2. /\ pair' \in (0 .. MaxCount) \cup {None} /\ key' \in BOOLEAN
        /\ memory' \in Memory
        /\ memory'.last = memory.last /\ memory'.challenge = NoChallenge
        /\ memory'.wrong = IF written = "ok" /\ key /\ end = "ok" THEN 0 ELSE memory.wrong
    BY <1>1, <2>1, WritePairStep
  <2>3. TypeOK'
    BY <1>1, <2>1, <2>2, ServeTyped DEF IInv, TypeOK
  <2>4. CountInv'
    BY <1>1, <2>1, <2>2 DEF IInv, CountInv
  <2>5. ChallengeInv' /\ ServesNewest
    BY <1>1, <2>1, <2>2, ChallengeServes DEF IInv
  <2>6. KeepsCodes
    BY <1>1, <2>2, NoCodeTaken
  <2>7. QED
    BY <2>1, <2>3, <2>4, <2>5, <2>6 DEF Safe, IInv, CountRises
<1>3. CASE ~CanAddPair(a)
  BY <1>3, OnlyTakes DEF AddPair
<1>4. QED
  BY <1>2, <1>3

LEMMA AddPairWithCodeStep ==
    ASSUME IInv, NEW a \in signed, NEW code \in Codes, NEW end \in HoldEnds, NEW written,
           AddPairWithCode(a, code, end, written)
    PROVE  Safe
<1> DEFINE m == Taken(memory)
           n == AfterCode(m, code)
<1>1. /\ m \in Memory /\ m.wrong = memory.wrong /\ m.last = memory.last
      /\ m.challenge = NoChallenge /\ a \in Assertions /\ key \in BOOLEAN
      /\ pair = None /\ Verifies(memory, a, 0) /\ Serve(a)
      /\ UNCHANGED <<clock, signed, newest, app, password, drawn>>
  BY TakenTyped DEF IInv, TypeOK, AddPairWithCode, CanAddPair, world
<1>2. CASE ~key
  <2>1. memory' = m /\ UNCHANGED <<pair, key, uses, guesses>>
    BY <1>2 DEF AddPairWithCode
  <2> HIDE DEF m
  <2>2. TypeOK'
    BY <1>1, <2>1, ServeTyped DEF IInv, TypeOK
  <2>3. CountInv'
    BY <1>1, <2>1 DEF IInv, CountInv
  <2>4. ChallengeInv' /\ ServesNewest
    BY <1>1, <2>1, ChallengeServes DEF IInv
  <2>5. KeepsCodes
    BY <1>1, <2>1, NoCodeTaken
  <2>6. QED
    BY <1>1, <2>1, <2>2, <2>3, <2>4, <2>5 DEF Safe, IInv, CountRises
<1>3. CASE key
  <2>1. /\ CodeHistory(m, code)
        /\ n \in Memory /\ n.challenge = NoChallenge
        /\ IF Takes(m, code) THEN WritePair(n, a, end, written)
           ELSE memory' = n /\ UNCHANGED <<pair, key>>
    BY <1>1, <1>3, AfterCodeTyped DEF AddPairWithCode
  <2>2. n.wrong = IF Takes(m, code) THEN 0 ELSE n.wrong
    BY <1>1, AfterCodeTyped
  <2> HIDE DEF m, n
  <2>3. /\ pair' \in (0 .. MaxCount) \cup {None} /\ key' \in BOOLEAN
        /\ memory' \in Memory /\ memory'.last = n.last
        /\ memory'.challenge = NoChallenge /\ memory'.wrong = n.wrong
    <3>1. CASE Takes(m, code)
      BY <1>1, <2>1, <2>2, <3>1, WritePairStep
    <3>2. CASE ~Takes(m, code)
      BY <1>1, <2>1, <3>2 DEF IInv, TypeOK
    <3>3. QED
      BY <3>1, <3>2
  <2>4. TypeOK'
    BY <1>1, <2>1, <2>3, ServeTyped, CodeHistoryTyped DEF IInv, TypeOK
  <2>5. CountInv'
    <3>1. guesses' <= n.wrong
      BY <1>1, <2>1, CodeCounted DEF IInv, n
    <3>2. app = None => guesses' = guesses
      BY <2>1 DEF CodeHistory, Takes, Miscounts
    <3>3. QED
      BY <1>1, <2>3, <3>1, <3>2 DEF IInv, CountInv
  <2>6. ChallengeInv' /\ ServesNewest
    BY <1>1, <2>3, ChallengeServes DEF IInv
  <2>7. KeepsCodes
    BY <1>1, <2>1, <2>3, CodeChecked DEF IInv, n
  <2>8. QED
    BY <1>1, <2>4, <2>5, <2>6, <2>7 DEF Safe, IInv, CountRises
<1>4. QED
  BY <1>2, <1>3

-----------------------------------------------------------------------------
(* The steps that check neither.                                           *)

\* A step that leaves the challenge, and takes or counts no code.
LEMMA NothingChecked ==
    ASSUME IInv, TypeOK', NEW wrong \in {0, memory.wrong},
           memory'.wrong = wrong, memory'.last = memory.last,
           memory'.challenge = memory.challenge,
           guesses' = IF wrong = memory.wrong THEN guesses ELSE 0,
           app' \in {app, None}, password' \in {password, FALSE},
           app' = None => app = None \/ ~password', pair' \in {pair, None},
           UNCHANGED <<newest, drawn, uses, served>>
    PROVE  Safe
<1>1. CountInv'
  <2>1. guesses <= memory.wrong /\ memory.wrong \in Nat /\ guesses \in Nat
    BY ConstantsAssumption DEF IInv, CountInv, TypeOK, Memory
  <2>2. guesses' <= memory'.wrong /\ (guesses = 0 => guesses' = 0)
    BY <2>1
  <2>3. password' => password
    OBVIOUS
  <2>4. app' = None /\ password' => guesses = 0
    BY <2>3 DEF IInv, CountInv
  <2>5. QED
    BY <2>2, <2>4 DEF CountInv
<1>2. ChallengeInv' /\ ServesNewest
  BY ChallengeKept DEF IInv
<1>3. KeepsCodes
  BY NoCodeTaken
<1>4. CountRises
  BY ConstantsAssumption DEF IInv, TypeOK, CountRises
<1>5. QED
  BY <1>1, <1>2, <1>3, <1>4 DEF Safe, IInv

LEMMA UnlockStep ==
    ASSUME IInv, NEW end \in HoldEnds, Unlock(end)
    PROVE  Safe
<1>1. /\ Hold(memory, key, end) /\ memory \in Memory /\ key \in BOOLEAN
      /\ guesses' = IF end = "ok" THEN 0 ELSE guesses
      /\ UNCHANGED <<clock, signed, newest, app, password, pair, drawn, uses, served>>
  BY DEF IInv, TypeOK, Unlock, world
<1>2. /\ key' \in BOOLEAN /\ memory' \in Memory
      /\ memory'.last = memory.last /\ memory'.challenge = memory.challenge
      /\ memory'.wrong = IF end = "ok" THEN 0 ELSE memory.wrong
  BY <1>1, HoldTyped
<1>3. TypeOK'
  BY <1>1, <1>2 DEF IInv, TypeOK
<1>4. guesses <= memory.wrong /\ memory.wrong \in Nat /\ guesses \in Nat
  BY ConstantsAssumption DEF IInv, CountInv, TypeOK, Memory
<1>5. guesses' = IF memory'.wrong = memory.wrong THEN guesses ELSE 0
  BY <1>1, <1>2, <1>4
<1>6. QED
  BY <1>1, <1>2, <1>3, <1>5, NothingChecked DEF IInv, TypeOK

LEMMA RotateStep ==
    ASSUME IInv, NEW end \in HoldEnds, NEW written, Rotate(end, written)
    PROVE  Safe
<1> DEFINE held == written = "ok" /\ end = "ok"
<1>1. /\ written = "ok" => Hold(memory, FALSE, end)
      /\ written # "ok" => UNCHANGED <<key, memory>>
      /\ memory \in Memory /\ key \in BOOLEAN
      /\ guesses' = IF held THEN 0 ELSE guesses
      /\ UNCHANGED <<clock, signed, newest, app, password, pair, drawn, uses, served>>
  BY DEF IInv, TypeOK, Rotate, world
<1>2. /\ key' \in BOOLEAN /\ memory' \in Memory
      /\ memory'.last = memory.last /\ memory'.challenge = memory.challenge
      /\ memory'.wrong = IF held THEN 0 ELSE memory.wrong
  <2>1. CASE written = "ok"
    BY <1>1, <2>1, HoldTyped
  <2>2. CASE written # "ok"
    BY <1>1, <2>2
  <2>3. QED
    BY <2>1, <2>2
<1>3. TypeOK'
  BY <1>1, <1>2 DEF IInv, TypeOK
<1>4. guesses <= memory.wrong /\ memory.wrong \in Nat /\ guesses \in Nat
  BY ConstantsAssumption DEF IInv, CountInv, TypeOK, Memory
<1>5. guesses' = IF memory'.wrong = memory.wrong THEN guesses ELSE 0
  BY <1>1, <1>2, <1>4
<1>6. QED
  BY <1>1, <1>2, <1>3, <1>5, NothingChecked DEF IInv, TypeOK

LEMMA RemovalStep ==
    ASSUME IInv, RemoveMfa \/ RemovePair \/ Lock \/ Expire
    PROVE  Safe
<1>1. /\ UNCHANGED <<clock, signed, newest, memory, drawn, uses, served, guesses>>
      /\ app' \in {app, None} /\ password' \in {password, FALSE} /\ pair' \in {pair, None}
      /\ app' = None => app = None \/ ~password'
      /\ key' \in {key, FALSE}
  BY DEF RemoveMfa, RemovePair, Lock, Expire, world
<1>2. TypeOK'
  BY <1>1 DEF IInv, TypeOK
<1>3. QED
  BY <1>1, <1>2, NothingChecked DEF IInv, TypeOK

LEMMA TickStep ==
    ASSUME IInv, Tick
    PROVE  Safe
<1>1. /\ clock' = clock + 1 /\ clock < MaxClock
      /\ UNCHANGED <<app, password, pair, key, memory, signed, drawn, newest, uses, served, guesses>>
  BY DEF Tick
<1>2. TypeOK'
  BY <1>1, ConstantsAssumption DEF IInv, TypeOK
<1>3. QED
  BY <1>1, <1>2, NothingChecked DEF IInv, TypeOK

LEMMA SignStep ==
    ASSUME IInv, NEW c \in Challenges, Sign(c)
    PROVE  Safe
<1>1. PICK count \in 0 .. MaxCount : signed' = signed \cup {[challenge |-> c, count |-> count]}
  BY DEF Sign
<1>2. UNCHANGED <<clock, app, password, pair, key, memory, drawn, newest, uses, served, guesses>>
  BY DEF Sign
<1>3. TypeOK'
  BY <1>1, <1>2 DEF IInv, TypeOK, Assertions
<1>4. QED
  BY <1>2, <1>3, NothingChecked DEF IInv, TypeOK

\* A new challenge has not served; the one before is no longer the server's.
LEMMA ChallengeStep ==
    ASSUME IInv, NEW c \in Challenges, Challenge(c)
    PROVE  Safe
<1>1. /\ c \notin drawn /\ drawn' = drawn \cup {c}
      /\ newest' = [id |-> c, live |-> TRUE] /\ newest' \in Issued
      /\ memory' = [memory EXCEPT !.challenge = newest']
      /\ UNCHANGED <<clock, app, password, pair, key, signed, uses, served, guesses>>
  BY DEF Challenge, Issued
<1>2. /\ memory' \in Memory /\ memory'.wrong = memory.wrong
      /\ memory'.last = memory.last /\ memory'.challenge = newest'
  BY <1>1 DEF IInv, TypeOK, Memory
<1>3. TypeOK'
  BY <1>1, <1>2 DEF IInv, TypeOK
<1>4. CountInv'
  BY <1>1, <1>2 DEF IInv, CountInv
<1>5. ChallengeInv'
  <2>1. served[c] = 0 /\ newest'.id = c
    BY <1>1 DEF IInv, ChallengeInv
  <2>2. QED
    BY <1>1, <1>2, <2>1 DEF IInv, ChallengeInv
<1>6. KeepsCodes
  BY <1>1, <1>2, NoCodeTaken
<1>7. ServesNewest /\ CountRises
  BY <1>1, ConstantsAssumption DEF ServesNewest, CountRises, IInv, TypeOK
<1>8. QED
  BY <1>3, <1>4, <1>5, <1>6, <1>7 DEF Safe, IInv

LEMMA ChallengeExpiresStep ==
    ASSUME IInv, ChallengeExpires
    PROVE  Safe
<1>1. /\ newest \in Issued /\ newest' = [newest EXCEPT !.live = FALSE]
      /\ memory' = [memory EXCEPT !.challenge.live = FALSE]
      /\ UNCHANGED <<clock, app, password, pair, key, signed, drawn, uses, served, guesses>>
  BY DEF ChallengeExpires, IInv, TypeOK, NoChallenge
<1>2. newest' \in Issued /\ newest'.id = newest.id
  BY <1>1 DEF Issued
<1>3. memory.challenge \in Issued \cup {NoChallenge}
  BY DEF IInv, TypeOK, Memory
<1>4. /\ memory.challenge = NoChallenge => [memory.challenge EXCEPT !.live = FALSE] = NoChallenge
      /\ [memory.challenge EXCEPT !.live = FALSE] \in Issued \cup {NoChallenge}
  <2>1. [NoChallenge EXCEPT !.live = FALSE] = NoChallenge
    <3>1. NoChallenge = [f \in {"id", "live"} |-> NoChallenge[f]] /\ NoChallenge.live = FALSE
      BY DEF NoChallenge
    <3>2. QED
      BY <3>1
  <2>2. \A i \in Issued : [i EXCEPT !.live = FALSE] \in Issued
    BY DEF Issued
  <2>3. QED
    BY <1>3, <2>1, <2>2
<1>5. /\ memory' \in Memory /\ memory'.wrong = memory.wrong /\ memory'.last = memory.last
      /\ memory'.challenge = [memory.challenge EXCEPT !.live = FALSE]
  BY <1>1, <1>4 DEF IInv, TypeOK, Memory
<1>6. TypeOK'
  BY <1>1, <1>2, <1>5 DEF IInv, TypeOK
<1>7. CountInv'
  BY <1>1, <1>5 DEF IInv, CountInv
<1>8. ChallengeInv'
  <2>1. memory'.challenge # NoChallenge => memory.challenge # NoChallenge
    BY <1>4, <1>5
  <2>2. memory.challenge # NoChallenge =>
          memory'.challenge = newest' /\ served'[newest'.id] = 0
    BY <1>1, <1>2, <1>5 DEF IInv, ChallengeInv
  <2>3. newest'.id # None => newest'.id \in drawn'
    BY <1>1, <1>2 DEF IInv, ChallengeInv
  <2>4. QED
    BY <1>1, <2>1, <2>2, <2>3 DEF IInv, ChallengeInv
<1>9. KeepsCodes
  BY <1>1, <1>5, NoCodeTaken
<1>10. ServesNewest /\ CountRises
  BY <1>1, ConstantsAssumption DEF ServesNewest, CountRises, IInv, TypeOK
<1>11. QED
  BY <1>6, <1>7, <1>8, <1>9, <1>10 DEF Safe, IInv

LEMMA RestartStep ==
    ASSUME IInv, Restart
    PROVE  Safe
<1>1. /\ memory' \in Memory /\ memory'.wrong = 0 /\ memory'.challenge = NoChallenge
      /\ key' \in {key, FALSE} /\ uses' = [c \in Codes |-> 0] /\ guesses' = 0
      /\ UNCHANGED <<clock, signed, newest, app, password, pair, drawn, served>>
  BY StartedTyped DEF Restart, world, Started
<1>2. TypeOK'
  <2>1. guesses' \in Nat /\ key' \in BOOLEAN
    BY <1>1 DEF IInv, TypeOK
  <2>2. 0 \in 0 .. 2
    OBVIOUS
  <2>3. uses' \in [Codes -> 0 .. 2]
    BY <1>1, <2>2, Zenon
  <2>4. QED
    BY <1>1, <2>1, <2>3 DEF IInv, TypeOK
<1>3. CountInv'
  BY <1>1 DEF CountInv
<1>4. ChallengeInv' /\ ServesNewest
  BY <1>1, ChallengeKept DEF IInv
<1>5. KeepsCodes
  BY <1>1 DEF KeepsCodes, CodesInv
<1>6. CountRises
  BY <1>1, ConstantsAssumption DEF CountRises, IInv, TypeOK
<1>7. QED
  BY <1>2, <1>3, <1>4, <1>5, <1>6 DEF Safe, IInv

-----------------------------------------------------------------------------
(* The theorems.                                                           *)

LEMMA NextIsSafe ==
    ASSUME IInv, Next
    PROVE  Safe
<1>1. ASSUME NEW code \in Codes, Code(code) PROVE Safe
  BY <1>1, UnlockPasswordStep, ProveCodeStep, AddMfaStep, AddMfaWithPairStep, AddPairWithCodeStep
  DEF Code
<1>2. ASSUME NEW a \in signed, Assertion(a) PROVE Safe
  BY <1>2, UnlockPairStep, ProveAssertionStep, AddPairStep DEF Assertion
<1>3. ASSUME NEW end \in HoldEnds, Unlock(end) \/ \E written \in WriteEnds : Rotate(end, written)
      PROVE Safe
  BY <1>3, UnlockStep, RotateStep
<1>4. ASSUME NEW c \in Challenges, Challenge(c) \/ Sign(c) PROVE Safe
  BY <1>4, ChallengeStep, SignStep
<1>5. CASE RemoveMfa \/ RemovePair \/ Lock \/ Expire
  BY <1>5, RemovalStep
<1>6. CASE ChallengeExpires \/ Tick \/ Restart
  BY <1>6, ChallengeExpiresStep, TickStep, RestartStep
<1>7. QED
  BY <1>1, <1>2, <1>3, <1>4, <1>5, <1>6 DEF Next

LEMMA StutterIsSafe ==
    ASSUME IInv, UNCHANGED vars
    PROVE  Safe
<1>1. TypeOK' /\ CountInv' /\ ChallengeInv'
  BY DEF vars, IInv, TypeOK, CountInv, ChallengeInv
<1>2. KeepsCodes
  BY NoCodeTaken DEF vars
<1>3. ServesNewest /\ CountRises
  BY ConstantsAssumption DEF vars, ServesNewest, CountRises, IInv, TypeOK
<1>4. QED
  BY <1>1, <1>2, <1>3 DEF Safe, IInv

LEMMA InitSafe == Init => IInv /\ CodesInv
<1> SUFFICES ASSUME Init PROVE IInv /\ CodesInv
  OBVIOUS
<1>1. TypeOK
  <2>1. 0 \in 0 .. 2
    OBVIOUS
  <2>2. uses \in [Codes -> 0 .. 2] /\ served \in [Challenges -> 0 .. 2]
    BY <2>1, Zenon DEF Init
  <2>3. clock \in 0 .. MaxClock /\ guesses \in Nat /\ drawn \subseteq Secrets
    BY ConstantsAssumption DEF Init
  <2>4. /\ key \in BOOLEAN /\ password \in BOOLEAN /\ app \in Secrets \cup {None}
        /\ pair = None /\ newest = NoChallenge /\ memory = Started /\ signed = {}
    BY Zenon DEF Init
  <2>5. QED
    BY <2>2, <2>3, <2>4, StartedTyped DEF TypeOK
<1>2. CountInv /\ ChallengeInv /\ CodesInv
  BY ConstantsAssumption DEF Init, CountInv, ChallengeInv, CodesInv, Started, NoChallenge
<1>3. QED
  BY <1>1, <1>2 DEF IInv

\* The inductive invariant: types, the server's count against the guesses, and the
\* challenge of the server against the one issued last.
THEOREM Invariance == Spec => []IInv
<1>1. IInv /\ [Next]_vars => IInv'
  BY NextIsSafe, StutterIsSafe DEF Safe
<1>2. QED
  BY <1>1, InitSafe, PTL DEF Spec

\* The state keeps its types, whatever requests, failures and restarts there are.
THEOREM Typed == Spec => []TypeOK
<1>1. IInv => TypeOK
  BY DEF IInv
<1>2. QED
  BY <1>1, Invariance, PTL

\* Wrong codes stay within MAX_WRONG_CODES on every path that checks one (`_check_code`).
THEOREM GuessesStayBounded == Spec => []GuessesAreBounded
<1>1. IInv => GuessesAreBounded
  BY ConstantsAssumption DEF IInv, CountInv, TypeOK, Memory, GuessesAreBounded
<1>2. QED
  BY <1>1, Invariance, PTL

\* No code counts twice since the server started, where no hold is refused: the last line
\* of `add_mfa` is then always reached.
THEOREM CodesAreTakenOnce == HoldsSucceed /\ Spec => []CodeTakenOnce
<1> SUFFICES ASSUME HoldsSucceed PROVE Spec => []CodeTakenOnce
  OBVIOUS
<1>1. IInv /\ CodesInv /\ [Next]_vars => CodesInv'
  BY NextIsSafe, StutterIsSafe DEF Safe, KeepsCodes
<1>2. CodesInv => CodeTakenOnce
  BY DEF CodesInv, CodeTakenOnce
<1>3. QED
  BY <1>1, <1>2, InitSafe, Invariance, PTL DEF Spec

\* A challenge serves one assertion, the newest challenge, in its time (`_take_challenge`).
THEOREM ChallengesServeOnce == Spec => ChallengeServesOnce
<1>1. IInv /\ [Next]_vars =>
        [\A c \in Challenges : served'[c] # served[c] =>
            served[c] = 0 /\ newest = [id |-> c, live |-> TRUE]]_served
  BY NextIsSafe, StutterIsSafe DEF Safe, ServesNewest
<1>2. QED
  BY <1>1, Invariance, PTL DEF Spec, ChallengeServesOnce

\* The stored sign count of a pair never falls (`_check_assertion`).
THEOREM CountsRise == Spec => SignCountRises
<1>1. IInv /\ [Next]_vars => [pair # None /\ pair' # None => pair' >= pair]_pair
  BY NextIsSafe, StutterIsSafe DEF Safe, CountRises
<1>2. QED
  BY <1>1, Invariance, PTL DEF Spec, SignCountRises

=============================================================================
