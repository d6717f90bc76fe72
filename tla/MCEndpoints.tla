----------------------------- MODULE MCEndpoints -----------------------------
(* Two endpoints that may share hosts, differ in how their URLs are written and in where
   their logins are, and an endpoint that is flawed or of an unknown scheme. *)
EXTENDS Endpoints

MCNames == {None} \cup 11..12 \cup 21..22 \cup 31..32
MCFiles == {None, "ca.pem", "bad.pem"}

Full(n) == [user |-> n, password |-> n]
UserOnly(n) == [user |-> n, password |-> None]

\* The values of endpoint i carry its number, so that those of another are recognised.
Shapes(i) ==
    {[url |-> [scheme |-> scheme, login |-> urlLogin, host |-> host, plain |-> plain],
      username |-> own.user, password |-> own.password, caFile |-> ca, insecure |-> FALSE,
      amqp |-> [url |-> [scheme |-> IF scheme = "https" THEN "amqps" ELSE "amqp",
                         login |-> amqpLogin, host |-> amqpHost],
                username |-> None, password |-> None, caFile |-> None,
                insecure |-> FALSE, vhostGiven |-> TRUE]] :
        scheme \in (IF i = 1 THEN {"http", "https"} ELSE {"http"}),
        urlLogin \in {NoLogin, Full(10 + i)}, host \in {"h1", "h2"}, plain \in BOOLEAN,
        own \in {NoLogin, Full(20 + i), UserOnly(20 + i)},
        ca \in (IF i = 1 THEN {None, "bad.pem"} ELSE {None}),
        amqpLogin \in {NoLogin, UserOnly(30 + i)}, amqpHost \in {"h1", "h2"}}

Sound == CHOOSE ep \in Shapes(1) : ep.caFile = None

Odd == {[Sound EXCEPT !.url.scheme = "blank"], [Sound EXCEPT !.url.scheme = "ftp"],
        [Sound EXCEPT !.amqp.url.scheme = "absent"], [Sound EXCEPT !.amqp.url.scheme = "http"],
        [Sound EXCEPT !.amqp.vhostGiven = FALSE]}

MCConfigurations ==
    {<<a, b>> : a \in {ep \in Shapes(1) : ep.url.host = "h1" /\ ep.amqp.url.host = "h1"},
                b \in Shapes(2)}
    \cup {<<odd, Sound>> : odd \in Odd} \cup {<<Sound, odd>> : odd \in Odd}

\* The default vhost "/", one with a plain name, one with a leading slash before it, and
\* one with a space in it.
Default == [slash |-> TRUE, name |-> None, special |-> FALSE, escaped |-> FALSE]
Orders == [slash |-> FALSE, name |-> "orders", special |-> FALSE, escaped |-> FALSE]
MCVhosts == {Default, Orders, [Orders EXCEPT !.slash = TRUE], [Orders EXCEPT !.special = TRUE]}
=============================================================================
