----------------------------- MODULE MCIdentities -----------------------------
(* Instance of Identities for TLC: domains of 4 bits, seconds of 3 milliseconds. *)
EXTENDS Identities, TLC

Symmetry == Permutations(Clients)

\* 25 does not fit into a domain, and reads as a negative number.
MCSettings ==
    {[dc |-> dc, issuers |-> {"iss", "IdP", "Bot"},
      protos |-> [iss |-> "", IdP |-> "sip"]] : dc \in {1, 5, 25}}

None == [c \in Claims |-> ""]
Vouch(iss, sub, name, parts, claims, metadata) ==
    [iss |-> iss, sub |-> sub, name |-> name, parts |-> parts,
     claims |-> claims, metadata |-> metadata]

MCIdentitySet ==
    {Vouch("iss", "ann", <<"Ann">>, <<<<>>, <<>>>>, None, NoMetadata),
     Vouch("IdP", "ann", <<>>, <<<<Blank, "Ann", Blank, Blank>>, <<Blank, "Lee">>>>,
           [None EXCEPT ![".email"] = "ann@", ![".email_verified"] = "true"],
           [lang |-> "word", age |-> "numeral", size |-> "number", nick |-> "null",
            alias |-> "nullWord", note |-> "empty"]),
     Vouch("iss", "bob", <<Blank>>, <<<<>>, <<>>>>, [None EXCEPT ![".email"] = "bob@"],
           [c \in Claims \cup {"lang"} |-> IF c \in Flags THEN "one" ELSE "word"]),
     Vouch("iss", "", <<"Eve">>, <<<<>>, <<>>>>, None, NoMetadata),
     Vouch("Bot", "ann", <<"Eve">>, <<<<>>, <<>>>>, None, NoMetadata),
     Vouch("other", "ann", <<"Eve">>, <<<<>>, <<>>>>, None, NoMetadata),
     Vouch("iss", "ann", <<>>, <<<<Blank>>, <<>>>>, None, NoMetadata)}

Sent(forwarded, realIP, peer) ==
    [client |-> "client", forwarded |-> forwarded, realIP |-> realIP, peer |-> peer]
MCHeaders ==
    {Sent(<<>>, "", "client"),
     Sent(<<<<"client", "proxy">>, <<>>>>, "proxy", "balancer"),
     Sent(<<<<"client">>, <<"proxy">>>>, "", "balancer"),
     Sent(<<<<"unknown">>>>, "client", "proxy")}
=============================================================================
