---------------------------- MODULE MCTaskStream ----------------------------
(* The instance of TaskStream for TLC: one configuration for each rule of  *)
(* Config.validate that it breaks, and two valid ones.                     *)
EXTENDS TaskStream

CONSTANTS n1, n2, t1, s1, h1

LND == [dev |-> FALSE, backend |-> "", observer |-> TRUE, tor |-> FALSE,
        strings |-> {"dsn", "redis", "tls_cert", "tls_key", "ca_cert"} \cup LNDFields \cup ObserverFields \cup S3Fields,
        tierMinimum |-> TierFloor, numbers |-> Least, clipNorm |-> 1, stdDevs |-> 1, topK |-> 1000]
CLN == [LND EXCEPT !.backend = "cln", !.observer = FALSE, !.tor = TRUE,
                   !.strings = {"dsn", "tls_cert", "ca_cert"} \cup CLNFields]
Without(c, f) == [c EXCEPT !.strings = @ \ {f}]

MCConfigs ==
  {LND, CLN}
    \cup {Without(LND, f) : f \in {"dsn", "ca_cert", "signing_key", "bucket"} \cup LNDFields}
    \cup {Without(CLN, f) : f \in CLNFields}
    \cup {[LND EXCEPT !.backend = "eclair"], [LND EXCEPT !.tierMinimum[2] = 499999],
          [LND EXCEPT !.tierMinimum[2] = 2000001], [LND EXCEPT !.numbers[4] = 2],
          [LND EXCEPT !.clipNorm = 0], [LND EXCEPT !.topK = 1001]}

MCProfiles == {[tier |-> 1, types |-> {}, uri |-> "u1"],
               [tier |-> 2, types |-> {"gradient_agg"}, uri |-> "u2"]}
=============================================================================
