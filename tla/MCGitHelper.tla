---------------------------- MODULE MCGitHelper ----------------------------
EXTENDS GitHelper

CONSTANTS site, alice, bob, repo, secret, other

Line(host, path, user, value) ==
    [scheme |-> "https", host |-> host, path |-> path, user |-> user, value |-> value,
     name |-> <<host, path, user>>]

A == Line(site, <<>>, alice, secret)
B == Line(site, <<>>, bob, secret)
APath == Line(site, <<repo>>, alice, other)
Cert == Line(None, <<repo>>, None, secret)

MCLines == {A, B, APath, Cert}

Dated(l) == [name |-> l.name, scheme |-> None, host |-> l.host, path |-> l.path,
             user |-> l.user, value |-> l.value, updated |-> 0]
MCAccounts == {Dated(A), [Dated(B) EXCEPT !.value = other]}

All(values) == [all |-> values, url |-> <<>>]
MCConfigs ==
    [xdg : {All(<<"store">>), All(<<"ours", "other">>)},
     home : {All(<<"store", "other">>), All(<<"other", Reset, "file">>),
             [all |-> <<"file", Reset>>, url |-> <<"store", "other">>]},
     repository : {All(<<"store">>), All(<<"other", Reset>>)}]

MCStores ==
    {[store |-> <<A, B>>, file |-> None], [store |-> <<A, B>>, file |-> <<APath>>],
     [store |-> <<B>>, file |-> <<B, Cert>>], [store |-> None, file |-> <<B, A>>]}

Command(cmd, local, source, install) ==
    [cmd |-> cmd, local |-> local, source |-> source, install |-> install]
MCCommands ==
    {Command("install", l, FALSE, TRUE) : l \in BOOLEAN}
    \cup {Command("uninstall", FALSE, FALSE, FALSE)}
    \cup {Command("migrate", FALSE, TRUE, i) : i \in BOOLEAN}
    \cup {Command("migrate", FALSE, FALSE, TRUE)}
=============================================================================
