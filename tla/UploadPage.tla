----------------------------- MODULE UploadPage -----------------------------
(***************************************************************************)
(* The pages a browser works with: the upload form of GET /, the paste     *)
(* form of GET /paste, and the answers of the server's edge (Front).  One  *)
(* browser selects files, submits them and is shown links; meanwhile the   *)
(* selection may change, and the request or its answer may be lost on the  *)
(* way.  Storing a share is one step here.                                 *)
(***************************************************************************)
EXTENDS Front

CONSTANTS
    Slugs,         \* slugs the server may draw: a bound on the shares
    Secret, Key,   \* the delete secret and a storage key (one stands for all)
    None,          \* "no share"
    Selections,    \* sequences of files that may be dropped or picked
    Envs, Tomls,   \* environments and config files the server may start with
    Origins        \* how the browser may reach the server

ASSUME NoneAssumption == None \notin Slugs
ASSUME SelectionAssumption == Selections \subseteq Seq(FileTypes) \ {<<>>}
ASSUME EnvAssumption ==    \* the words of a variable's name, its key no section, and an int64
    \A e \in Envs :
        /\ DOMAIN e \subseteq Seq(STRING) \ {<<>>}
        /\ \A n \in DOMAIN e : Tail(n) \notin {<<"server">>, <<"auth">>, <<"upload">>}
        /\ <<"upload", "max", "bytes">> \in DOMAIN e => e[<<"upload", "max", "bytes">>] \in Int
ASSUME TomlAssumption == \A t \in Tomls : MaxBytes \in DOMAIN t => t[MaxBytes] \in Int
ASSUME SlugAssumption ==   \* a slug is no word of the routes: it has 12 characters
    Slugs \cap {"health", "paste", "bucket", "info", "raw", "file"} = {}
ASSUME URLAssumption ==    \* a URL without its trailing slashes is one part
    /\ \A e \in Envs :
         <<"server", "public", "url">> \in DOMAIN e => IsURL(e[<<"server", "public", "url">>])
    /\ \A t \in Tomls : PublicURL \in DOMAIN t => IsURL(t[PublicURL])
ASSUME OriginAssumption == \* the first proxy, or else the server, sees the browser's scheme
    \A o \in Origins : LET req == o.request IN
        \E scheme \in {"http", "https"} :
            /\ o.origin = <<scheme, req.host>>
            /\ IF req.forwarded = <<>> THEN req.tls <=> scheme = "https"
               ELSE Head(req.forwarded) = scheme

VARIABLES
    env, toml,   \* what the server was configured with
    via,         \* the requests the browser sends: address, proxies, credentials
    page,        \* the page it shows
    chosen,      \* selectedFiles, or the text of the paste form
    rows,        \* the file list as it is displayed
    net,         \* the fetch: none, on its way, or answered with a status and a share
    post,        \* what was posted: files, type=bucket, the list then displayed
    share,       \* the shares the server has created
    result,      \* the result card
    error,       \* the error banner is visible
    last         \* how the last submission ended: its share, None, or "error"

server == <<env, toml, via>>
form   == <<chosen, rows>>
card   == <<result, error, last>>
vars   == <<env, toml, via, page, chosen, rows, net, post, share, result, error,
            last>>

cfg == Parse(env, toml)

Fetch(state, status, s) == [state |-> state, status |-> status, share |-> s]

Idle == Fetch("idle", 0, None)
Sent == Fetch("sent", 0, None)

NoPost   == [files |-> <<>>, bucket |-> FALSE, listed |-> <<>>]
NoResult == [visible |-> FALSE, share |-> None, bucket |-> FALSE, listed |-> <<>>,
             links |-> {}, embed |-> None, embedVisible |-> FALSE]

Kinds == {"file", "bucket", "paste"}

TypeOK ==
    /\ env \in Envs /\ toml \in Tomls /\ via \in Origins
    /\ page \in {"none", "home", "paste"}
    /\ chosen \in Seq(FileTypes) /\ rows \in Seq(FileTypes)
    /\ net \in {Idle, Sent} \cup {Fetch("answer", 201, s) : s \in Slugs}
                          \cup {Fetch("answer", code, None) : code \in {401, 413, 500}}
    /\ DOMAIN share \subseteq Slugs
    /\ \A s \in DOMAIN share : share[s].kind \in Kinds /\ share[s].files \in Seq(FileTypes)
    /\ DOMAIN result = DOMAIN NoResult
    /\ result.share \in Slugs \cup {None} /\ result.embed \in Slugs \cup {None}
    /\ error \in BOOLEAN
    /\ last \in Slugs \cup {None, "error"}

(* A page may have been loaded before the server was started with its      *)
(* present configuration.                                                  *)
Init ==
    /\ env \in Envs /\ toml \in Tomls /\ via \in Origins
    /\ page \in {"none", "home", "paste"}
    /\ chosen = <<>> /\ rows = <<>>
    /\ net = Idle
    /\ post = NoPost
    /\ share = << >>
    /\ result = NoResult
    /\ error = FALSE
    /\ last = None

-----------------------------------------------------------------------------
(* GET / and GET /paste, guarded by BasicAuth; a page starts empty.  A     *)
(* fetch that is still under way is dropped with the page that made it;    *)
(* what the server makes of a request it has not seen yet can as well be   *)
(* taken to happen before.                                                 *)
OpenPage(p) ==
    /\ page # p
    /\ net # Sent
    /\ BasicAuth(cfg, via.creds)
    /\ page' = p
    /\ net' = Idle /\ post' = NoPost
    /\ chosen' = <<>> /\ rows' = <<>>
    /\ result' = NoResult /\ error' = FALSE /\ last' = None
    /\ UNCHANGED <<server, share>>

(* drop and change replace the selection and display it. *)
Select(files) ==
    /\ page = "home"
    /\ chosen' = files /\ rows' = files
    /\ UNCHANGED <<server, page, net, post, share, card>>

(* The button of row i: splice by the index it was displayed with. *)
RemoveRow(i) ==
    /\ page = "home"
    /\ chosen' = SubSeq(chosen, 1, i - 1) \o SubSeq(chosen, i + 1, Len(chosen))
    /\ rows' = chosen'
    /\ UNCHANGED <<server, page, net, post, share, card>>

(* Text is typed into the paste form. *)
Type ==
    /\ page = "paste"
    /\ chosen' = <<"text">> /\ rows' = chosen'
    /\ UNCHANGED <<server, page, net, post, share, card>>

-----------------------------------------------------------------------------
(* The result card is hidden with all it shows, the banner appears. *)
ShowError == error' = TRUE /\ result' = [result EXCEPT !.visible = FALSE] /\ last' = "error"

(* The banner's own button. *)
Dismiss ==
    /\ error
    /\ error' = FALSE
    /\ UNCHANGED <<server, page, form, net, post, share, result, last>>

SubmitNothing ==
    /\ page = "home" /\ net = Idle /\ chosen = <<>>
    /\ ShowError
    /\ UNCHANGED <<server, page, form, net, post, share>>

(* Two files or more are posted as a bucket.  The button is disabled from  *)
(* here to the end of the fetch.  The paste form requires a text.          *)
Submit ==
    /\ page # "none" /\ net = Idle /\ chosen # <<>>
    /\ post' = [files |-> chosen, bucket |-> page = "home" /\ Len(chosen) > 1, listed |-> rows]
    /\ net' = Sent
    /\ UNCHANGED <<server, page, form, share, card>>

-----------------------------------------------------------------------------
(* POST /api/upload and POST /api/paste *)

Kind == IF page = "paste" THEN "paste" ELSE IF post.bucket THEN "bucket" ELSE "file"

(* MaxBytesReader limits the body of an upload, not that of a paste.  Each *)
(* file counts one.                                                        *)
TooLarge == page = "home" /\ Len(post.files) > cfg[MaxBytes]

Refusals == IF ~BasicAuth(cfg, via.creds) THEN {401}
            ELSE IF TooLarge THEN {413} ELSE {500}

(* Authentication, the size limit, or anything that fails behind them. *)
Refuse ==
    /\ net = Sent
    /\ \E code \in Refusals : net' = Fetch("answer", code, None)
    /\ UNCHANGED <<server, page, form, post, share, card>>

(* One more share, made from what was posted. *)
Store(s) ==
    /\ s \notin DOMAIN share
    /\ share' = [t \in DOMAIN share \cup {s} |->
                   IF t = s THEN [kind |-> Kind, files |-> post.files, creds |-> via.creds]
                   ELSE share[t]]

(* Mutant: the answer is written without WriteHeader(http.StatusCreated). *)
AcceptWithoutStatus(s) ==
    /\ net = Sent
    /\ BasicAuth(cfg, via.creds) /\ ~TooLarge
    /\ Store(s)
    /\ net' = Fetch("answer", 200, s)
    /\ UNCHANGED <<server, page, form, post, card>>

(* The share is stored and answered for. *)
Accept(s) ==
    /\ net = Sent
    /\ BasicAuth(cfg, via.creds) /\ ~TooLarge
    /\ Store(s)
    /\ net' = Fetch("answer", 201, s)
    /\ UNCHANGED <<server, page, form, post, card>>

(* The links of the answer: share page, download and delete URL. *)
Paths(kind, s) ==
    CASE kind = "file"   -> [share |-> <<s, "info">>, download |-> <<s>>,
                             delete |-> <<"delete", s, Secret>>]
      [] kind = "bucket" -> [share |-> <<"b", s>>, delete |-> <<"b", "delete", s, Secret>>]
      [] kind = "paste"  -> [share |-> <<s>>, delete |-> <<"delete", s, Secret>>]

(* The pages of a share link on: to the bytes, the archive and its files,  *)
(* the raw text; the password form leads back to the page.                 *)
OnwardPaths(kind, s) ==
    CASE kind = "file"   -> [serve |-> <<s>>, password |-> <<s>>]
      [] kind = "bucket" -> [zip |-> <<"b", s, "zip">>, file |-> <<"b", s, "file", Key>>,
                             password |-> <<"b", s>>]
      [] kind = "paste"  -> [raw |-> <<s, "raw">>, password |-> <<s>>]

Links(kind, s) ==
    LET paths == Paths(kind, s)
    IN {[what |-> w, url |-> AbsURL(cfg, via.request, paths[w])] : w \in DOMAIN paths}

IsImageOf(s) == share[s].kind = "file" /\ IsImage(StoredType(share[s].files[1]))

-----------------------------------------------------------------------------
(* Mutant: the kind is taken from the selection when the answer arrives. *)
ShowResultForSelection(s) ==
    LET bucket == page = "home" /\ Len(chosen) > 1
        embed  == ~bucket /\ IsImageOf(s)
    IN /\ result' = [visible |-> TRUE, share |-> s, bucket |-> bucket, listed |-> post.listed,
                     links |-> Links(share[s].kind, s),
                     embed |-> IF embed THEN s ELSE result.embed, embedVisible |-> embed]
       /\ error' = FALSE
       /\ last' = s

(* The card of share s, with the isBucket the submission was made with.    *)
(* Embed codes are filled in for an image only, and hidden otherwise.      *)
ShowResult(s) ==
    LET embed == ~post.bucket /\ IsImageOf(s)
    IN /\ result' = [visible |-> TRUE, share |-> s, bucket |-> post.bucket, listed |-> post.listed,
                     links |-> Links(share[s].kind, s),
                     embed |-> IF embed THEN s ELSE result.embed, embedVisible |-> embed]
       /\ error' = FALSE
       /\ last' = s

Settle == net' = Idle /\ post' = NoPost

(* The answer arrives; the button is enabled again. *)
Receive ==
    /\ net.state = "answer"
    /\ Settle
    /\ \/ net.status = 201 /\ ShowResult(net.share)
       \/ net.status # 201 /\ ShowError
    /\ UNCHANGED <<server, page, form, share>>

(* Mutant: after a network error the button stays disabled. *)
NetworkErrorStaysBusy ==
    /\ net # Idle
    /\ ShowError
    /\ UNCHANGED <<server, page, form, net, post, share>>

(* The request or its answer is lost, or the answer is not JSON. *)
NetworkError ==
    /\ net # Idle
    /\ Settle
    /\ ShowError
    /\ UNCHANGED <<server, page, form, share>>

User == \/ \E p \in {"home", "paste"} : OpenPage(p)
        \/ \E files \in Selections : Select(files)
        \/ \E i \in DOMAIN rows : i \in DOMAIN chosen /\ RemoveRow(i)
        \/ Type \/ Submit \/ SubmitNothing \/ Dismiss

Answer == Refuse \/ \E s \in Slugs : Accept(s)

Next == User \/ Answer \/ Receive \/ NetworkError

Spec == Init /\ [][Next]_vars

(* A fetch settles: the server answers, or its read and write timeouts     *)
(* close the connection.                                                   *)
FairSpec == Spec /\ WF_vars(Answer \/ NetworkError) /\ WF_vars(Receive \/ NetworkError)

-----------------------------------------------------------------------------
(* Properties *)

(* What is visible is how the last submission ended: no card of an older   *)
(* upload beside an error, no error beside a new card.  The card shows the *)
(* share that holds exactly the files that were listed when the user       *)
(* pressed the button, under the right heading, although the selection may *)
(* have changed while the upload was under way.  Embed codes are visible   *)
(* only for a single file whose first bytes are those of a supported       *)
(* image, and they are the codes of this share.                            *)
ShowsOwnOutcome ==
    /\ error => last = "error"
    /\ result.visible =>
         LET s == share[result.share]
         IN /\ last = result.share
            /\ s.files = result.listed
            /\ result.bucket <=> s.kind = "bucket"
            /\ result.embedVisible =>
                 result.embed = result.share /\ s.kind = "file" /\ s.files = <<"image">>

IsFile == [s \in Slugs |-> s \in DOMAIN share /\ share[s].kind = "file"]

Handlers ==
    [file   |-> [share |-> "fileInfo", download |-> "fileServe", delete |-> "fileDelete",
                 serve |-> "fileServe", password |-> "fileServe"],
     bucket |-> [share |-> "bucketView", delete |-> "bucketDelete", zip |-> "bucketZIP",
                 file |-> "bucketFile", password |-> "bucketView"],
     paste  |-> [share |-> "pasteView", delete |-> "pasteDelete", raw |-> "pasteRaw",
                 password |-> "pasteView"]]

(* What the operator has set, in the environment or in the file, unless a  *)
(* variable such as PBIN_AUTH has taken the place of the whole section.    *)
Operator(name, setting, default) ==
    IF <<Head(name)>> \in DOMAIN env THEN default
    ELSE IF name \in DOMAIN env THEN env[name]
    ELSE IF setting \in DOMAIN toml THEN toml[setting] ELSE default

OperatorURL == Operator(<<"server", "public", "url">>, PublicURL, <<>>)

(* Every link of a card, and every link the pages behind it show, leads to *)
(* the handler it is meant for, with the slug of the share and, to delete, *)
(* with its secret.  The links of the card have the origin the operator    *)
(* has set, without a trailing slash, or else the origin of the page in    *)
(* the browser, through any proxies.                                       *)
LinksLeadBack ==
    result.visible =>
        LET s == result.share
            kind == share[s].kind
            onward == OnwardPaths(kind, s)
        IN /\ \A l \in result.links :
                /\ Route(l.url.path, IsFile).handler = Handlers[kind][l.what]
                /\ Route(l.url.path, IsFile).slug = s
                /\ l.what = "delete" => Route(l.url.path, IsFile).extra = Secret
                /\ l.url.origin =
                     IF OperatorURL = <<>> \/ Head(OperatorURL) = "/" THEN via.origin
                     ELSE <<Head(OperatorURL)>>
           /\ \A w \in DOMAIN onward :
                /\ Route(onward[w], IsFile).handler = Handlers[kind][w]
                /\ Route(onward[w], IsFile).slug = s

(* What the operator has set, in the environment or in the file, holds for *)
(* every share: where credentials are asked for, it was made with them,    *)
(* and no upload, single or bucket, is larger than allowed.  Only a        *)
(* variable that names the section itself puts the defaults back.          *)
SettingsHold ==
    LET asked == Operator(<<"auth", "enabled">>, AuthEnabled, FALSE)
        limit == Operator(<<"upload", "max", "bytes">>, MaxBytes, DefaultMaxBytes)
    IN \A s \in DOMAIN share :
         /\ asked => share[s].creds = "right"
         /\ share[s].kind # "paste" => Len(share[s].files) <= limit

(* The button comes back, whatever the network does. *)
ButtonReturns == net # Idle ~> net = Idle
-----------------------------------------------------------------------------
(* Why they hold: the inductive invariant of the proofs. *)

(* The list is displayed as it is selected.  While a fetch is under way    *)
(* the posted files are those that were listed, and posted as a bucket if  *)
(* the upload form had more than one; a share that is answered for was     *)
(* made from them.                                                         *)
PostInv ==
    /\ rows = chosen
    /\ net # Idle =>
         /\ page # "none"
         /\ post.files \in Seq(FileTypes) \ {<<>>} /\ post.listed = post.files
         /\ post.bucket <=> page = "home" /\ Len(post.files) > 1
    /\ net.status = 201 =>
         /\ net # Idle /\ net.share \in DOMAIN share
         /\ share[net.share].files = post.files /\ share[net.share].kind = Kind

(* Only a bucket has several files. *)
ShareInv == \A s \in DOMAIN share : share[s].kind = "file" => Len(share[s].files) = 1

(* The card shows the links of an existing share. *)
CardInv ==
    result.visible =>
        /\ result.share \in DOMAIN share
        /\ result.links = Links(share[result.share].kind, result.share)

PageInv == TypeOK /\ PostInv /\ ShareInv /\ CardInv /\ ShowsOwnOutcome /\ SettingsHold
=============================================================================
