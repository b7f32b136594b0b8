---------------------------- MODULE MCServerBrowser ----------------------------
(* ServerBrowser with three servers in two countries, and lists that differ in *)
(* loads, in what is under maintenance, and in what is listed at all.          *)
EXTENDS ServerBrowser, TLC

CONSTANTS s1, s2, s3, all, some, xx, id3

MCCountry == s1 :> 1 @@ s2 :> 1 @@ s3 :> 2
MCCity    == s1 :> 2 @@ s2 :> 1 @@ s3 :> 1
MCName    == s1 :> 1 @@ s2 :> 2 @@ s3 :> 3
MCFound   == all :> Server @@ some :> {s1, s3}

\* xx is a country code and a name at once.
MCInCountry  == xx :> {s1, s2} @@ id3 :> {}
MCNamed      == xx :> s3 @@ id3 :> NoServer
MCIdentified == xx :> NoServer @@ id3 :> s3

Entry(l, sc, m) ==
  [enabled |-> TRUE, maintenance |-> m, tier |-> 2, load |-> l, score |-> sc]

\* At first; with other loads, and s1 under maintenance; and without s2.
MCListing ==
  {[user_tier |-> 2, logicals |-> s1 :> Entry(1, 3, FALSE) @@ s2 :> Entry(3, 2, FALSE)
                                  @@ s3 :> Entry(2, 1, FALSE)],
   [user_tier |-> 2, logicals |-> s1 :> Entry(1, 1, TRUE) @@ s2 :> Entry(2, 1, FALSE)
                                  @@ s3 :> Entry(1, 2, FALSE)],
   [user_tier |-> 2, logicals |-> s1 :> Entry(1, 3, FALSE) @@ s3 :> Entry(2, 1, FALSE)]}
=============================================================================
