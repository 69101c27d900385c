------------------------------- MODULE Front -------------------------------
(***************************************************************************)
(* The edge of the server, as functions of a request and of the            *)
(* configuration: how settings are loaded, who may upload, which origin    *)
(* links get, which handler a path leads to, and what type an uploaded     *)
(* file is stored with.  A setting, a URL and a path are sequences of      *)
(* their parts; slugs, secrets and storage keys are unlike any word the    *)
(* routes use, being 12 or 24 characters long.                             *)
(***************************************************************************)
EXTENDS Integers, Sequences, FiniteSetsExt

(* Names of settings: a path of sections and keys, each made of words. *)
PublicURL   == << <<"server">>, <<"public", "url">> >>
AuthEnabled == << <<"auth">>, <<"enabled">> >>
MaxBytes    == << <<"upload">>, <<"max", "bytes">> >>

Settings == {PublicURL, AuthEnabled, MaxBytes}

DefaultMaxBytes == 3    \* bound: stands for 100 MB

Defaults == [k \in Settings |-> CASE k = PublicURL -> <<>>
                                  [] k = AuthEnabled -> FALSE
                                  [] k = MaxBytes -> DefaultMaxBytes]

(* Mutant: every underscore becomes a dot. *)
EnvKeyAllDots(name) == [i \in DOMAIN name |-> <<name[i]>>]

(* PBIN_ is stripped and the first underscore becomes a dot: the words     *)
(* after it are one key.  A name of one word is that of a section.         *)
EnvKey(name) == << <<Head(name)>>, Tail(name) >>

(* The environment wins over the file, and the file over the defaults.     *)
(* toml is empty when there is no file.  A variable that names a section   *)
(* takes the place of its whole table: koanf finds no key of it any more,  *)
(* neither from the file nor from other variables.                         *)
Parse(env, toml) ==
    [k \in Settings |->
        IF \E n \in DOMAIN env : EnvKey(n) = << k[1], <<>> >> THEN Defaults[k]
        ELSE IF \E n \in DOMAIN env : EnvKey(n) = k
        THEN env[CHOOSE n \in DOMAIN env : EnvKey(n) = k]
        ELSE IF k \in DOMAIN toml THEN toml[k]
        ELSE Defaults[k]]

(* A URL is at most one part, before any number of slashes. *)
IsURL(url) ==
    /\ url \in Seq(STRING)
    /\ \A i \in DOMAIN url : i > 1 => url[i] = "/"

(* strings.TrimRight(url, "/") *)
TrimRight(url) == SubSeq(url, 1, Max({0} \cup {i \in DOMAIN url : url[i] # "/"}))

-----------------------------------------------------------------------------
(* May a request with these credentials reach a guarded handler? *)
BasicAuth(cfg, creds) == cfg[AuthEnabled] => creds = "right"

-----------------------------------------------------------------------------
(* A request reaches the server over TLS or not, for a host, and with the  *)
(* X-Forwarded-Proto values of the proxies it passed.                      *)

(* Mutant: the value of the last proxy counts. *)
SchemeOfLast(req) ==
    IF req.forwarded # <<>> /\ req.forwarded[Len(req.forwarded)] \in {"http", "https"}
    THEN req.forwarded[Len(req.forwarded)]
    ELSE IF req.tls THEN "https" ELSE "http"

(* The first value, if it is one of the two; r.TLS otherwise. *)
Scheme(req) ==
    IF req.forwarded # <<>> /\ Head(req.forwarded) \in {"http", "https"}
    THEN Head(req.forwarded)
    ELSE IF req.tls THEN "https" ELSE "http"

(* The public URL, if there is one, or the origin the request is for. *)
BaseURL(cfg, req) ==
    LET public == TrimRight(cfg[PublicURL])
    IN IF public # <<>> THEN public ELSE <<Scheme(req), req.host>>

AbsURL(cfg, req, path) == [origin |-> BaseURL(cfg, req), path |-> path]

-----------------------------------------------------------------------------
To(handler, slug, extra) == [handler |-> handler, slug |-> slug, extra |-> extra]

NoArg == "none"

(* The handler a GET of path p leads to, with its path values, in the      *)
(* order of the cases.  isFile says what the metadata lookup of the two    *)
(* dispatchers finds.                                                      *)
Route(p, isFile) ==
    LET n == Len(p) IN
    IF n = 0 THEN To("home", NoArg, NoArg)
    ELSE IF p = <<"health">> THEN To("health", NoArg, NoArg)
    ELSE IF p = <<"paste">> THEN To("pasteForm", NoArg, NoArg)
    ELSE IF p = <<"bucket">> THEN To("bucketForm", NoArg, NoArg)
    ELSE IF n = 2 /\ p[2] = "info" THEN To("fileInfo", p[1], NoArg)
    ELSE IF n = 2 /\ p[2] = "raw" THEN To("pasteRaw", p[1], NoArg)
    ELSE IF n = 2 /\ p[1] = "b" THEN To("bucketView", p[2], NoArg)
    ELSE IF n = 3 /\ p[1] = "b" /\ p[3] = "zip" THEN To("bucketZIP", p[2], NoArg)
    ELSE IF n = 4 /\ p[1] = "b" /\ p[3] = "file" THEN To("bucketFile", p[2], p[4])
    ELSE IF n = 4 /\ p[1] = "b" /\ p[2] = "delete" THEN To("bucketDelete", p[3], p[4])
    ELSE IF n = 3 /\ p[1] = "delete"
         THEN To(IF isFile[p[2]] THEN "fileDelete" ELSE "pasteDelete", p[2], p[3])
    ELSE IF n = 1 THEN To(IF isFile[p[1]] THEN "fileServe" ELSE "pasteView", p[1], NoArg)
    ELSE To("notFound", NoArg, NoArg)

-----------------------------------------------------------------------------
(* Files are told apart by what their first bytes are: a supported image,  *)
(* fewer than four bytes that pass for one, an image of another type, an   *)
(* HTML page, or anything else.                                            *)
FileTypes == {"image", "stub", "icon", "html", "text"}

(* http.DetectContentType; text types come with their charset. *)
Detected(f) == CASE f \in {"image", "stub"} -> "image/bmp"
                 [] f = "icon" -> "image/x-icon"
                 [] f = "html" -> "text/html; charset=utf-8"
                 [] OTHER -> "text/plain; charset=utf-8"

Replaced == {"text/html", "text/xml", "image/svg+xml", "application/xhtml+xml"}

IsImage(mime) == mime = "image/bmp"

(* A signature is looked for in at least four bytes. *)
ValidImageMagic(f) == f = "image"

(* The type a single file is stored with. *)
StoredType(f) ==
    IF \/ Detected(f) \in Replaced
       \/ IsImage(Detected(f)) /\ ~ValidImageMagic(f)
    THEN "application/octet-stream" ELSE Detected(f)
=============================================================================
