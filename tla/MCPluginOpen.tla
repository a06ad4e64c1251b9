----------------------------- MODULE MCPluginOpen -----------------------------
(***************************************************************************)
(* Small instances of PluginOpen for TLC: every configuration, against a   *)
(* provider that serves its own document, incomplete ones, another         *)
(* issuer's, none, or one at, past and below the cap.                      *)
(***************************************************************************)
EXTENDS PluginOpen, TLC

CONSTANTS Unset

Bases == ("https://us" :> "https://us") @@ ("https://us/" :> "https://us")
         @@ ("http://us" :> "http://us") @@ ("https://them" :> "https://them")
Https == {"https://us", "https://us/", "https://them", "https://keys", "https://pinned"}

Doc(issuer, jwks, authorize, token) ==
    [issuer |-> issuer, jwks |-> jwks, authorize |-> authorize, token |-> token]
Docs == {Doc("https://us", "https://keys", "their-authorize", "their-token"),
         Doc("https://us", "https://keys", Unset, "their-token"),
         Doc("https://us", "http://keys", "their-authorize", Unset),
         Doc("https://us", Unset, Unset, Unset),
         Doc("https://us/", "https://keys", "their-authorize", "their-token"),
         Doc("https://them", "https://them", "foreign", "foreign"),
         Doc(Unset, "https://them", "foreign", "foreign")}

Page(doc, size) == [success |-> TRUE, doc |-> doc, size |-> size, utf8 |-> TRUE]
AnyPage == {Page(d, Cap) : d \in Docs}
    \cup {Page(d, size) : d \in {Doc("https://us", "https://keys", "their-authorize", "their-token")},
                          size \in {Cap - 1, Cap + 1, Cap + 2}}
    \cup {Page(NotJson, 0)}
    \cup {[Page(d, Cap) EXCEPT !.success = FALSE] : d \in {Doc("https://us", "https://keys", Unset, Unset)}}
    \cup {[Page(d, Cap) EXCEPT !.utf8 = FALSE] : d \in {Doc("https://us", "https://keys", Unset, Unset)}}

AnyConfig == [issuer : {"https://us", "https://us/"}, jwks : {Unset, "https://pinned", "http://pinned"},
              authorize : {Unset, "my-authorize"}, token : {Unset, "my-token"}, ca : {"none"}]
    \cup [issuer : {"http://us"}, jwks : {Unset, "https://pinned"}, authorize : {Unset},
          token : {"my-token"}, ca : {"none", "invalid"}]
=============================================================================
