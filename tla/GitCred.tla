------------------------------ MODULE GitCred ------------------------------
(***************************************************************************)
(* Which credential answers a request of git: the vault's helper           *)
(* (vault/gitcred.py), git's own `store` helper, and how `git migrate`     *)
(* (vault/cli.py) compares a line of a store with the vault.               *)
(*                                                                         *)
(* A url is what it decodes to: a scheme, a host with its port, and a path *)
(* as a sequence of segments.  An entry whose url does not parse has no    *)
(* host.  A stamp is a number.                                             *)
(***************************************************************************)
EXTENDS Integers, SequencesExt

CONSTANT None

NoPath == <<None>>      \* the path of a request that carries none

\* The elements of a sequence at these places, in their order; and those of a set.
Picked(s, places) ==
    LET upTo[n \in 0..Len(s)] ==
            IF n = 0 THEN <<>>
            ELSE IF n \in places THEN Append(upTo[n - 1], s[n]) ELSE upTo[n - 1]
    IN upTo[Len(s)]
Those(s, set) == Picked(s, {i \in DOMAIN s : s[i] \in set})

Newest(entries) == CHOOSE e \in entries : \A f \in entries : f.updated <= e.updated
Longest(entries) == {e \in entries : \A f \in entries : Len(f.path) <= Len(e.path)}

\* `select`: the entries of the host, narrowed to the account and to the longest path.
Matching(entries, request) ==
    {e \in entries :
        /\ e.host = request.host /\ e.host # None
        /\ e.scheme \in {None, request.scheme}
        /\ request.path = NoPath \/ IsPrefix(e.path, request.path)}

OfUser(entries, user) ==
    LET own == {e \in entries : e.user = user} IN
    IF user = None THEN entries
    ELSE IF own # {} THEN own ELSE {e \in entries : e.user = None}

Selected(entries, request) ==
    LET named == OfUser(Matching(entries, request), request.user) IN
    IF request.path = NoPath THEN named ELSE Longest(named)

\* `_lookup`: the newest of them, unless nobody gives a username.
HelperAnswer(entries, request) ==
    LET found == Selected(entries, request) IN
    IF found = {} \/ (Newest(found).user = None /\ request.user = None)
    THEN None ELSE Newest(found).value

\* git's `store` helper: the first line that has all the request asks for.
StoreAnswers(line, request) ==
    /\ line.host = request.host /\ line.scheme = request.scheme
    /\ request.path \in {NoPath, line.path}
    /\ request.user \in {None, line.user}

\* `_same_account`: what the helper would match for a request from the line, of the entries
\* with its username; else the entry that has its name.
SameAccount(known, line) ==
    LET request == [scheme |-> line.scheme, host |-> line.host, user |-> None,
                    path |-> IF line.path = <<>> THEN NoPath ELSE line.path]
        own     == {e \in known : e.user = line.user}
        matched == Selected(own, request)
    IN IF matched # {} THEN matched ELSE {e \in own : e.name = line.name}

\* `_sort_lines`: which lines to add, and which the vault has, with another value or the same.
SortLine(sorted, line) ==
    LET same == SameAccount(sorted.known, line) IN
    IF line.value \in {e.value : e \in same}
    THEN sorted
    ELSE IF same # {}
    THEN [sorted EXCEPT !.differ = @ \cup {e.name : e \in same}]
    ELSE [sorted EXCEPT !.fresh = Append(@, line), !.known = @ \cup {line}]

SortLines(entries, lines) ==
    LET upTo[n \in 0..Len(lines)] ==
            IF n = 0 THEN [known |-> entries, fresh |-> <<>>, differ |-> {}]
            ELSE SortLine(upTo[n - 1], lines[n])
    IN upTo[Len(lines)]
=============================================================================
