---------------------------- MODULE MCUploadPage ----------------------------
(* A small instance of UploadPage for TLC. *)
EXTENDS UploadPage, TLC

CONSTANTS s1, s2

TwoSlugs == {s1, s2}

(* One file of each type that decides on embed codes, and two files. *)
SomeFiles == {<<"image">>, <<"stub">>, <<"text", "image">>}

(* Nothing is set, or the URL and a limit that lets one file through, or   *)
(* authentication, or a variable that names a whole section, beside a      *)
(* setting of that section or of another one.                              *)
SomeEnvs ==
    { << >>,
      <<"server", "public", "url">> :> <<"https://env", "/">> @@ <<"upload", "max", "bytes">> :> 1,
      <<"auth", "enabled">> :> TRUE,
      <<"auth", "enabled">> :> FALSE,
      <<"auth">> :> "x" @@ <<"auth", "enabled">> :> TRUE,
      <<"server">> :> "x" @@ <<"upload", "max", "bytes">> :> 1 }

(* No file, or a file that sets everything. *)
SomeTomls ==
    { << >>,
      PublicURL :> <<"https://file">> @@ AuthEnabled :> TRUE @@ MaxBytes :> 2 }

Direct ==
    [origin |-> <<"http", "host">>, creds |-> "none",
     request |-> [tls |-> FALSE, host |-> "host", forwarded |-> <<>>]]

(* TLS ends at the first of two proxies. *)
Proxied ==
    [origin |-> <<"https", "host">>, creds |-> "right",
     request |-> [tls |-> FALSE, host |-> "host", forwarded |-> <<"https", "http">>]]

SomeOrigins == {Direct, Proxied}
=============================================================================
