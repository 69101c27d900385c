-------------------------- MODULE UploadPageProofs --------------------------
(* What the pages of the browser and the server's edge promise, for any    *)
(* slugs, selections, settings and ways to reach the server.               *)
EXTENDS UploadPage, SequenceTheorems, TLAPS

(* Removing a row leaves a list of files. *)
LEMMA RemoveOne ==
    ASSUME NEW S, NEW q \in Seq(S), NEW i \in DOMAIN q
    PROVE  SubSeq(q, 1, i - 1) \o SubSeq(q, i + 1, Len(q)) \in Seq(S)
<1>1. i \in 1..Len(q) /\ Len(q) \in Nat BY LenProperties
<1>2. SubSeq(q, 1, i - 1) \in Seq(S) BY <1>1, SubSeqProperties
<1>3. SubSeq(q, i + 1, Len(q)) \in Seq(S) BY <1>1, SubSeqProperties
<1> QED BY <1>2, <1>3, ConcatProperties

(* The states of a fetch are told apart. *)
LEMMA FetchStates ==
    /\ Idle # Sent /\ Idle.status = 0 /\ Sent.status = 0
    /\ Idle.state = "idle" /\ Sent.state = "sent"
    /\ \A code, s : Fetch("answer", code, s) \notin {Idle, Sent}
    /\ \A code, s : LET f == Fetch("answer", code, s)
                    IN f.state = "answer" /\ f.status = code /\ f.share = s
BY DEF Idle, Sent, Fetch

-----------------------------------------------------------------------------
(* What the operator has set is what the server runs with: the name of a   *)
(* variable is found again in the configuration, and no other variable is  *)
(* taken for it.                                                           *)

(* Different variables set different settings. *)
LEMMA EnvKeyInjective ==
    ASSUME NEW W, NEW m \in Seq(W) \ {<<>>}, NEW n \in Seq(W) \ {<<>>}, EnvKey(m) = EnvKey(n)
    PROVE  m = n
<1>1. Head(m) = Head(n) /\ Tail(m) = Tail(n) BY DEF EnvKey
<1>2. Len(m) = Len(n) /\ Len(m) \in Nat \ {0} /\ Len(Tail(m)) = Len(m) - 1
  <2>1. Len(m) \in Nat \ {0} /\ Len(n) \in Nat \ {0} BY EmptySeq, LenProperties
  <2>2. Len(Tail(m)) = Len(m) - 1 /\ Len(Tail(n)) = Len(n) - 1 BY HeadTailProperties
  <2>3. Len(m) - 1 = Len(n) - 1 BY <1>1, <2>2, Zenon
  <2>4. \A a, b \in Nat \ {0} : a - 1 = b - 1 => a = b OBVIOUS
  <2>5. Len(m) = Len(n) BY <2>1, <2>3, <2>4, Zenon
  <2> QED BY <2>1, <2>2, <2>5, Zenon
<1>3. ASSUME NEW i \in 1..Len(m) PROVE m[i] = n[i]
  <2>1. CASE i = 1 BY <1>1, <2>1
  <2>2. CASE i # 1
    <3>1. i - 1 \in 1..Len(Tail(m)) BY <1>2, <2>2
    <3>2. m[(i - 1) + 1] = Tail(m)[i - 1] /\ n[(i - 1) + 1] = Tail(n)[i - 1]
      BY <1>1, <3>1, HeadTailProperties
    <3>3. m[(i - 1) + 1] = n[(i - 1) + 1] BY <1>1, <3>2, Zenon
    <3>4. (i - 1) + 1 = i BY <1>2
    <3> QED BY <3>3, <3>4
  <2> QED BY <2>1, <2>2
<1> QED BY <1>2, <1>3, SeqEqual

(* The variables of the three settings. *)
LEMMA EnvNames ==
    /\ EnvKey(<<"auth", "enabled">>) = AuthEnabled
    /\ EnvKey(<<"upload", "max", "bytes">>) = MaxBytes
    /\ EnvKey(<<"server", "public", "url">>) = PublicURL
    /\ AuthEnabled # MaxBytes /\ AuthEnabled # PublicURL /\ MaxBytes # PublicURL
BY DEF EnvKey, AuthEnabled, MaxBytes, PublicURL

(* What names are made of; the words of the settings are listed because    *)
(* the provers do not know that they are strings.                          *)
Words == STRING \cup {"auth", "enabled", "upload", "max", "bytes", "server", "public", "url"}

(* The names of the variables. *)
LEMMA NamesOfWords ==
    /\ <<"auth", "enabled">> \in Seq(Words) \ {<<>>}
    /\ <<"upload", "max", "bytes">> \in Seq(Words) \ {<<>>}
    /\ <<"server", "public", "url">> \in Seq(Words) \ {<<>>}
<1>1. \A a, b, c \in Words : <<a, b>> \in Seq(Words) /\ <<a, b, c>> \in Seq(Words) OBVIOUS
<1>2. {"auth", "enabled", "upload", "max", "bytes", "server", "public", "url"} \subseteq Words
  BY DEF Words
<1>3. \A a, b, c \in Words : <<a, b>> # <<>> /\ <<a, b, c>> # <<>>
  <2>1. \A a, b, c : Len(<<a, b>>) = 2 /\ Len(<<a, b, c>>) = 3 OBVIOUS
  <2> QED BY <1>1, <2>1, EmptySeq
<1> QED BY <1>1, <1>2, <1>3

(* The variable of a section has an empty key. *)
LEMMA SectionName ==
    ASSUME NEW W, NEW n \in Seq(W) \ {<<>>}
    PROVE  /\ <<Head(n)>> \in Seq(W) \ {<<>>}
           /\ EnvKey(<<Head(n)>>) = << EnvKey(n)[1], <<>> >>
<1>1. Head(n) \in W BY HeadTailProperties
<1>2. \A w \in W : <<w>> \in Seq(W) /\ <<w>> # <<>> OBVIOUS
<1>3. \A w : Head(<<w>>) = w /\ Tail(<<w>>) = <<>> OBVIOUS
<1>4. EnvKey(n)[1] = <<Head(n)>> BY DEF EnvKey
<1>5. EnvKey(<<Head(n)>>) = << <<Head(n)>>, <<>> >> BY <1>3, Zenon DEF EnvKey
<1> QED BY <1>1, <1>2, <1>4, <1>5, Zenon

(* The environment wins over the file, and the file over the default; a    *)
(* variable of the section wins over both, with the default.               *)
LEMMA Loaded ==
    ASSUME NEW e \in Envs, NEW t, NEW n \in Seq(Words) \ {<<>>}, EnvKey(n) \in Settings
    PROVE  Parse(e, t)[EnvKey(n)] = IF <<Head(n)>> \in DOMAIN e THEN Defaults[EnvKey(n)]
                                    ELSE IF n \in DOMAIN e THEN e[n]
                                    ELSE IF EnvKey(n) \in DOMAIN t THEN t[EnvKey(n)]
                                    ELSE Defaults[EnvKey(n)]
<1>1. DOMAIN e \subseteq Seq(Words) \ {<<>>} BY EnvAssumption, SeqMonotonic DEF Words
<1>2. \A m \in DOMAIN e : EnvKey(m) = EnvKey(n) => m = n BY <1>1, EnvKeyInjective
<1>3. (\E m \in DOMAIN e : EnvKey(m) = << EnvKey(n)[1], <<>> >>) <=> <<Head(n)>> \in DOMAIN e
  <2>1. <<Head(n)>> \in Seq(Words) \ {<<>>} /\ EnvKey(<<Head(n)>>) = << EnvKey(n)[1], <<>> >>
    BY SectionName
  <2>2. \A m \in DOMAIN e : EnvKey(m) = EnvKey(<<Head(n)>>) => m = <<Head(n)>>
    BY <1>1, <2>1, EnvKeyInjective
  <2> QED BY <2>1, <2>2, Zenon
<1>4. CASE <<Head(n)>> \in DOMAIN e BY <1>3, <1>4 DEF Parse
<1>5. CASE <<Head(n)>> \notin DOMAIN e /\ n \in DOMAIN e
  <2>1. (CHOOSE m \in DOMAIN e : EnvKey(m) = EnvKey(n)) = n BY <1>2, <1>5
  <2> QED BY <1>3, <1>5, <2>1 DEF Parse
<1>6. CASE <<Head(n)>> \notin DOMAIN e /\ n \notin DOMAIN e BY <1>2, <1>3, <1>6 DEF Parse
<1> QED BY <1>4, <1>5, <1>6
-----------------------------------------------------------------------------
(* Every step keeps the types. *)
LEMMA TypeStep == ASSUME PageInv, [Next]_vars PROVE TypeOK'
<1> USE FetchStates DEF PageInv, TypeOK, server, form, card
<1>1. ASSUME NEW p \in {"home", "paste"}, OpenPage(p) PROVE TypeOK'
  <2>1. page' = p /\ net' = Idle /\ chosen' = <<>> /\ rows' = <<>> /\ error' = FALSE /\ last' = None
    BY <1>1 DEF OpenPage
  <2>2. result' = NoResult /\ UNCHANGED <<env, toml, via, share>> BY <1>1 DEF OpenPage
  <2>3. DOMAIN result' = DOMAIN NoResult /\ result'.share = None /\ result'.embed = None
    BY <2>2 DEF NoResult
  <2>4. <<>> \in Seq(FileTypes) BY EmptySeq
  <2> QED BY <2>1, <2>2, <2>3, <2>4
<1>2. ASSUME NEW files \in Selections, Select(files) PROVE TypeOK'
  BY <1>2, SelectionAssumption DEF Select
<1>3. ASSUME NEW i \in DOMAIN chosen, RemoveRow(i) PROVE TypeOK'
  <2>1. chosen' \in Seq(FileTypes) BY <1>3, RemoveOne DEF RemoveRow
  <2> QED BY <1>3, <2>1 DEF RemoveRow
<1>4. CASE Type
  <2>1. <<"text">> \in Seq(FileTypes) BY DEF FileTypes
  <2> QED BY <1>4, <2>1 DEF Type
<1>5. CASE Submit BY <1>5 DEF Submit
<1>6. CASE SubmitNothing BY <1>6 DEF SubmitNothing, ShowError, NoResult
<1>7. CASE Dismiss BY <1>7 DEF Dismiss
<1>8. CASE Refuse BY <1>8 DEF Refuse, Refusals
<1>9. ASSUME NEW s \in Slugs, Accept(s) PROVE TypeOK'
  <2>1. net' = Fetch("answer", 201, s) BY <1>9 DEF Accept
  <2>2. DOMAIN share' = DOMAIN share \cup {s} BY <1>9 DEF Accept, Store
  <2>3. \A t \in DOMAIN share' : share'[t].kind \in Kinds /\ share'[t].files \in Seq(FileTypes)
    BY <1>9 DEF Accept, Store, Kind, Kinds, PostInv
  <2> QED BY <1>9, <2>1, <2>2, <2>3 DEF Accept
<1>10. CASE Receive
  <2>1. CASE net.status = 201 /\ ShowResult(net.share)
    <3>1. net.share \in Slugs BY <2>1 DEF PostInv
    <3> QED BY <1>10, <2>1, <3>1 DEF Receive, Settle, ShowResult, NoResult
  <2>2. CASE ShowError BY <1>10, <2>2 DEF Receive, Settle, ShowError, NoResult
  <2> QED BY <1>10, <2>1, <2>2 DEF Receive
<1>11. CASE NetworkError BY <1>11 DEF NetworkError, Settle, ShowError, NoResult
<1>12. CASE UNCHANGED vars BY <1>12 DEF vars
<1> QED BY <1>1, <1>2, <1>3, <1>4, <1>5, <1>6, <1>7, <1>8, <1>9, <1>10, <1>11, <1>12
       DEF Next, User, Answer

(* The settings the properties speak of are the ones the server uses. *)
LEMMA SettingsUsed ==
    ASSUME TypeOK
    PROVE  /\ cfg[AuthEnabled] = Operator(<<"auth", "enabled">>, AuthEnabled, FALSE)
           /\ cfg[MaxBytes] = Operator(<<"upload", "max", "bytes">>, MaxBytes, DefaultMaxBytes)
           /\ cfg[PublicURL] = OperatorURL
           /\ cfg[MaxBytes] \in Int
<1>1. env \in Envs /\ toml \in Tomls BY DEF TypeOK
<1>2. ASSUME NEW n \in Seq(Words) \ {<<>>}, EnvKey(n) \in Settings
      PROVE  cfg[EnvKey(n)] = Operator(n, EnvKey(n), Defaults[EnvKey(n)])
  BY <1>1, <1>2, Loaded DEF cfg, Operator
<1>3. /\ Defaults[AuthEnabled] = FALSE /\ Defaults[PublicURL] = <<>>
      /\ Defaults[MaxBytes] = DefaultMaxBytes /\ DefaultMaxBytes \in Int
  <2>1. Defaults[AuthEnabled] = FALSE BY EnvNames DEF Defaults, Settings
  <2>2. Defaults[PublicURL] = <<>> BY EnvNames DEF Defaults, Settings
  <2>3. Defaults[MaxBytes] = DefaultMaxBytes BY EnvNames DEF Defaults, Settings
  <2> QED BY <2>1, <2>2, <2>3 DEF DefaultMaxBytes
<1>4. cfg[AuthEnabled] = Operator(<<"auth", "enabled">>, AuthEnabled, FALSE)
  BY <1>2, <1>3, NamesOfWords, EnvNames, Zenon DEF Settings
<1>5. cfg[MaxBytes] = Operator(<<"upload", "max", "bytes">>, MaxBytes, DefaultMaxBytes)
  BY <1>2, <1>3, NamesOfWords, EnvNames, Zenon DEF Settings
<1>6. cfg[PublicURL] = OperatorURL
  BY <1>2, <1>3, NamesOfWords, EnvNames, Zenon DEF Settings, OperatorURL
<1>7. cfg[MaxBytes] \in Int BY <1>1, <1>3, <1>5, EnvAssumption, TomlAssumption DEF Operator
<1> QED BY <1>4, <1>5, <1>6, <1>7

(* The card speaks of shares only; they and the settings stay as they are. *)
CardKept ==
    /\ UNCHANGED <<env, toml, via, share, result>>
    /\ UNCHANGED <<error, last>> \/ (error' = FALSE /\ last' = last)

CardHidden ==
    /\ UNCHANGED <<env, toml, via, share>>
    /\ ~result'.visible
    /\ error' => last' = "error"

(* A card that stays, or is hidden, shows what it should. *)
LEMMA CardStays ==
    ASSUME PageInv, CardKept \/ CardHidden
    PROVE  ShareInv' /\ CardInv' /\ ShowsOwnOutcome' /\ SettingsHold'
<1>1. ShareInv' BY DEF PageInv, ShareInv, CardKept, CardHidden
<1>2. SettingsHold' BY DEF PageInv, SettingsHold, Operator, CardKept, CardHidden
<1>3. CASE CardHidden BY <1>1, <1>2, <1>3 DEF CardHidden, CardInv, ShowsOwnOutcome
<1>4. CASE CardKept
  <2>1. CardInv' BY <1>4 DEF PageInv, CardKept, CardInv, Links, cfg
  <2>2. ShowsOwnOutcome' BY <1>4 DEF PageInv, CardKept, ShowsOwnOutcome
  <2> QED BY <1>1, <1>2, <2>1, <2>2
<1> QED BY <1>3, <1>4

(* One more share leaves the older ones alone, and is within the settings. *)
LEMMA AcceptKeeps ==
    ASSUME PageInv, TypeOK', NEW s \in Slugs, Accept(s)
    PROVE  PageInv'
<1> USE DEF PageInv
<1>1. /\ net = Sent /\ s \notin DOMAIN share /\ net' = Fetch("answer", 201, s)
      /\ UNCHANGED <<env, toml, via, page, chosen, rows, post, result, error, last>>
  BY DEF Accept, Store, server, form, card
<1>2. /\ DOMAIN share' = DOMAIN share \cup {s}
      /\ \A t \in DOMAIN share : share'[t] = share[t]
      /\ share'[s] = [kind |-> Kind, files |-> post.files, creds |-> via.creds]
  BY DEF Accept, Store
<1>3. /\ page \in {"home", "paste"} /\ post.files \in Seq(FileTypes) \ {<<>>} /\ post.listed = post.files
      /\ post.bucket <=> page = "home" /\ Len(post.files) > 1
  BY <1>1, FetchStates DEF PostInv, TypeOK
<1>4. Len(post.files) \in Nat \ {0} BY <1>3, EmptySeq, LenProperties
<1>5. PostInv'
  <2>1. net'.status = 201 /\ net'.share = s /\ net' # Idle BY <1>1, FetchStates
  <2>2. Kind' = Kind BY <1>1 DEF Kind
  <2> QED BY <1>1, <1>2, <1>3, <2>1, <2>2 DEF PostInv
<1>6. ShareInv'
  <2>1. Kind = "file" => ~post.bucket /\ page = "home" BY <1>3 DEF Kind
  <2>2. Kind = "file" => ~(Len(post.files) > 1) BY <1>3, <2>1, Zenon
  <2>3. \A n \in Nat \ {0} : ~(n > 1) => n = 1 OBVIOUS
  <2>4. Kind = "file" => Len(post.files) = 1 BY <1>4, <2>2, <2>3, Zenon
  <2> QED BY <1>2, <2>4 DEF ShareInv
<1>7. CardInv' BY <1>1, <1>2 DEF CardInv, Links, cfg
<1>8. ShowsOwnOutcome' BY <1>1, <1>2 DEF ShowsOwnOutcome, CardInv
<1>9. SettingsHold'
  <2>1. cfg[AuthEnabled] => via.creds = "right" BY DEF Accept, BasicAuth
  <2>2. Kind # "paste" => Len(post.files) <= cfg[MaxBytes]
    BY <1>3, <1>4, SettingsUsed DEF Accept, TooLarge, Kind
  <2>3. Operator(<<"auth", "enabled">>, AuthEnabled, FALSE) => via.creds = "right"
    BY <2>1, SettingsUsed
  <2>4. Kind # "paste" => Len(post.files) <= Operator(<<"upload", "max", "bytes">>, MaxBytes, DefaultMaxBytes)
    BY <2>2, SettingsUsed
  <2> DEFINE asked == Operator(<<"auth", "enabled">>, AuthEnabled, FALSE)
             limit == Operator(<<"upload", "max", "bytes">>, MaxBytes, DefaultMaxBytes)
  <2>5. asked' = asked /\ limit' = limit BY <1>1 DEF Operator
  <2>6. \A t \in DOMAIN share' : /\ asked => share'[t].creds = "right"
                                 /\ share'[t].kind # "paste" => Len(share'[t].files) <= limit
    <3>1. \A t \in DOMAIN share : /\ asked => share[t].creds = "right"
                                  /\ share[t].kind # "paste" => Len(share[t].files) <= limit
      BY DEF SettingsHold
    <3> HIDE DEF asked, limit
    <3>2. asked => via.creds = "right" BY <2>3 DEF asked
    <3>3. Kind # "paste" => Len(post.files) <= limit BY <2>4 DEF limit
    <3> QED BY <1>2, <3>1, <3>2, <3>3
  <2> QED BY <2>5, <2>6 DEF SettingsHold
<1> QED BY <1>5, <1>6, <1>7, <1>8, <1>9

(* Only a supported image is stored with an image type. *)
LEMMA ImageType == ASSUME NEW f, IsImage(StoredType(f)) PROVE f = "image"
BY DEF IsImage, StoredType, Detected, Replaced, ValidImageMagic

(* The answer that arrives is the one to what was listed. *)
LEMMA ReceiveKeeps ==
    ASSUME PageInv, TypeOK', Receive, net.status = 201, ShowResult(net.share)
    PROVE  PageInv'
<1> USE DEF PageInv
<1> DEFINE s == net.share
<1>1. /\ net # Idle /\ s \in DOMAIN share
      /\ share[s].files = post.files /\ share[s].kind = Kind
      /\ post.listed = post.files /\ post.files \in Seq(FileTypes) \ {<<>>}
      /\ post.bucket <=> page = "home" /\ Len(post.files) > 1
  BY DEF PostInv
<1>2. net' = Idle /\ UNCHANGED <<env, toml, via, page, chosen, rows, share>>
  BY DEF Receive, Settle, server, form
<1>3. /\ result'.visible /\ result'.share = s /\ result'.bucket = post.bucket
      /\ result'.listed = post.listed /\ result'.links = Links(share[s].kind, s)
      /\ result'.embedVisible <=> ~post.bucket /\ IsImageOf(s)
      /\ result'.embedVisible => result'.embed = s
      /\ error' = FALSE /\ last' = s
  BY DEF ShowResult
<1>4. PostInv' BY <1>2, FetchStates DEF PostInv
<1>5. ShareInv' BY <1>2 DEF ShareInv
<1>6. CardInv' BY <1>1, <1>2, <1>3 DEF CardInv, Links, cfg
<1>7. ShowsOwnOutcome'
  <2>1. post.bucket <=> share[s].kind = "bucket" BY <1>1 DEF Kind
  <2>2. IsImageOf(s) => share[s].kind = "file" /\ share[s].files = <<"image">>
    <3>1. IsImageOf(s) => share[s].kind = "file" /\ share[s].files[1] = "image"
      BY ImageType DEF IsImageOf
    <3>2. share[s].kind = "file" => Len(share[s].files) = 1 BY <1>1 DEF ShareInv
    <3> QED BY <1>1, <3>1, <3>2
  <2> QED BY <1>1, <1>2, <1>3, <2>1, <2>2 DEF ShowsOwnOutcome
<1>8. SettingsHold' BY <1>2 DEF SettingsHold, Operator
<1> QED BY <1>4, <1>5, <1>6, <1>7, <1>8

(* Every step keeps the inductive invariant. *)
LEMMA PageInvStep == PageInv /\ [Next]_vars => PageInv'
<1> SUFFICES ASSUME PageInv, [Next]_vars PROVE PageInv'
  OBVIOUS
<1>0. TypeOK' BY TypeStep
<1> USE FetchStates DEF server, form, card
<1>1. ASSUME NEW p \in {"home", "paste"}, OpenPage(p) PROVE PageInv'
  <2>1. CardHidden BY <1>1 DEF OpenPage, CardHidden, NoResult
  <2>2. PostInv' BY <1>1 DEF OpenPage, PostInv
  <2> QED BY <1>0, <2>1, <2>2, CardStays DEF PageInv
<1>2. CASE \/ \E files \in Selections : Select(files)
           \/ \E i \in DOMAIN chosen : RemoveRow(i)
           \/ Type
  \* the selection changes, what was posted does not
  <2>1. rows' = chosen' /\ UNCHANGED <<env, toml, via, page, net, post, share, result, error, last>>
    BY <1>2 DEF Select, RemoveRow, Type
  <2>2. CardKept BY <2>1 DEF CardKept
  <2>3. PostInv' BY <2>1 DEF PageInv, PostInv, Kind
  <2> QED BY <1>0, <2>2, <2>3, CardStays DEF PageInv
<1>3. CASE Submit
  <2>1. CardKept BY <1>3 DEF Submit, CardKept
  <2>2. PostInv' BY <1>3 DEF Submit, PageInv, PostInv, TypeOK
  <2> QED BY <1>0, <2>1, <2>2, CardStays DEF PageInv
<1>4. CASE SubmitNothing \/ NetworkError \/ (Receive /\ ShowError)
  <2>1. ShowError /\ UNCHANGED <<env, toml, via, page, chosen, rows, share>>
    BY <1>4 DEF SubmitNothing, NetworkError, Receive
  <2>2. CardHidden BY <2>1, <1>0 DEF ShowError, CardHidden, PageInv, TypeOK, NoResult
  <2>3. net' = Idle BY <1>4 DEF SubmitNothing, NetworkError, Receive, Settle
  <2>4. PostInv' BY <2>1, <2>3 DEF PageInv, PostInv
  <2> QED BY <1>0, <2>2, <2>4, CardStays DEF PageInv
<1>5. CASE Dismiss
  <2>1. /\ UNCHANGED <<env, toml, via, page, chosen, rows, net, post, share, result, last>>
        /\ error' = FALSE
    BY <1>5 DEF Dismiss
  <2>2. CardKept BY <2>1 DEF CardKept
  <2>3. PostInv' BY <2>1 DEF PageInv, PostInv, Kind
  <2> QED BY <1>0, <2>2, <2>3, CardStays DEF PageInv
<1>6. CASE Refuse
  <2>1. CardKept BY <1>6 DEF Refuse, CardKept
  <2>2. PICK code \in {401, 413, 500} : net' = Fetch("answer", code, None) BY <1>6 DEF Refuse, Refusals
  <2>3. net = Sent /\ UNCHANGED <<page, chosen, rows, post>> BY <1>6 DEF Refuse
  <2>4. net'.status # 201 BY <2>2
  <2>5. PostInv' BY <2>3, <2>4 DEF PageInv, PostInv
  <2> QED BY <1>0, <2>1, <2>5, CardStays DEF PageInv
<1>7. ASSUME NEW s \in Slugs, Accept(s) PROVE PageInv' BY <1>0, <1>7, AcceptKeeps
<1>8. CASE Receive /\ ~ShowError
  <2>1. net.status = 201 /\ ShowResult(net.share) BY <1>8 DEF Receive
  <2> QED BY <1>0, <1>8, <2>1, ReceiveKeeps
<1>9. CASE UNCHANGED vars
  <2>1. CardKept BY <1>9 DEF vars, CardKept
  <2>2. PostInv' BY <1>9 DEF vars, PageInv, PostInv, Kind
  <2> QED BY <1>0, <2>1, <2>2, CardStays DEF PageInv
<1> QED BY <1>1, <1>2, <1>3, <1>4, <1>5, <1>6, <1>7, <1>8, <1>9 DEF Next, User, Answer

(* The inductive invariant holds in every reachable state. *)
THEOREM PageSafe == Spec => []PageInv
<1>1. Init => PageInv
  <2> SUFFICES ASSUME Init PROVE PageInv
    OBVIOUS
  <2>1. <<>> \in Seq(FileTypes) /\ DOMAIN share = {} BY EmptySeq DEF Init
  <2>2. TypeOK BY <2>1 DEF Init, TypeOK, NoResult
  <2>3. PostInv BY FetchStates DEF Init, PostInv
  <2>4. ~result.visible /\ error = FALSE BY DEF Init, NoResult
  <2> QED BY <2>1, <2>2, <2>3, <2>4 DEF PageInv, ShareInv, CardInv, ShowsOwnOutcome, SettingsHold
<1> QED BY <1>1, PageInvStep, PTL DEF Spec

(* Type correctness of the pages. *)
THEOREM PageTypes == Spec => []TypeOK
<1>1. PageInv => TypeOK BY DEF PageInv
<1> QED BY <1>1, PageSafe, PTL

(* The page shows how the last submission ended, and the share it shows    *)
(* has the files that were listed when the button was pressed.             *)
THEOREM PageShowsOutcome == Spec => []ShowsOwnOutcome
<1>1. PageInv => ShowsOwnOutcome BY DEF PageInv
<1> QED BY <1>1, PageSafe, PTL

(* Whatever environment and config file the server was started with, every *)
(* share was made within the settings they give; for a section that a      *)
(* variable of its own name has replaced these are the defaults.           *)
THEOREM PageSettings == Spec => []SettingsHold
<1>1. PageInv => SettingsHold BY DEF PageInv
<1> QED BY <1>1, PageSafe, PTL
-----------------------------------------------------------------------------
(* The links.  What is on the card was made for a share that is still      *)
(* there, with the present settings.                                       *)

(* Only the part before the slashes is left of a URL. *)
LEMMA TrimRightURL ==
    ASSUME NEW u, IsURL(u)
    PROVE  TrimRight(u) = IF u = <<>> \/ Head(u) = "/" THEN <<>> ELSE <<Head(u)>>
<1> DEFINE S == {0} \cup {i \in DOMAIN u : u[i] # "/"}
<1>1. u \in Seq(STRING) /\ \A i \in DOMAIN u : i > 1 => u[i] = "/" BY DEF IsURL
<1>2. DOMAIN u = 1..Len(u) /\ Len(u) \in Nat BY <1>1, LenProperties
<1>3. \A i \in S : i \in {0, 1} BY <1>1, <1>2
<1>4. CASE u = <<>> \/ Head(u) = "/"
  <2>1. 1 \notin S
    <3>1. u = <<>> => Len(u) = 0 BY EmptySeq
    <3> QED BY <1>2, <1>4, <3>1
  <2>2. S = {0} BY <1>3, <2>1
  <2>3. Max(S) = 0 BY <2>2 DEF Max
  <2>4. SubSeq(u, 1, 0) = <<>> BY SubSeqEmpty
  <2> QED BY <1>4, <2>3, <2>4 DEF TrimRight
<1>5. CASE ~(u = <<>> \/ Head(u) = "/")
  <2>1. Len(u) \in Nat \ {0} BY <1>1, <1>5, EmptySeq
  <2>2. 1 \in DOMAIN u /\ u[1] = Head(u) /\ u[1] \in STRING BY <1>1, <1>2, <2>1, HeadTailProperties
  <2>3. S = {0, 1} BY <1>3, <1>5, <2>2
  <2>4. Max({0, 1}) = 1
    <3>1. \A x : (x \in {0, 1} /\ \A y \in {0, 1} : x >= y) <=> x = 1 OBVIOUS
    <3> QED BY <3>1 DEF Max
  <2>5. SubSeq(u, 1, 1) = <<u[1]>>
    <3>1. \A i \in 1..1 : u[i] \in STRING BY <2>2
    <3>2. /\ SubSeq(u, 1, 1) \in Seq(STRING) /\ Len(SubSeq(u, 1, 1)) = 1
          /\ SubSeq(u, 1, 1)[1] = u[1]
      BY <3>1, SubSeqProperties
    <3>3. <<u[1]>> \in Seq(STRING) /\ Len(<<u[1]>>) = 1 BY <2>2
    <3>4. \A i \in 1..Len(SubSeq(u, 1, 1)) : SubSeq(u, 1, 1)[i] = <<u[1]>>[i]
      <4>1. \A i \in 1..1 : i = 1 OBVIOUS
      <4>2. <<u[1]>>[1] = u[1] OBVIOUS
      <4> QED BY <3>2, <4>1, <4>2
    <3>5. Len(SubSeq(u, 1, 1)) = Len(<<u[1]>>) BY <3>2, <3>3, Zenon
    <3> HIDE DEF S
    <3> QED BY <3>2, <3>3, <3>4, <3>5, SeqEqual, Zenon
  <2> QED BY <1>5, <2>2, <2>3, <2>4, <2>5 DEF TrimRight
<1> QED BY <1>4, <1>5

(* The origin of the links is what the operator has set, or else what the  *)
(* browser sees.                                                           *)
LEMMA OriginOfLinks ==
    ASSUME TypeOK
    PROVE  BaseURL(cfg, via.request) =
             IF OperatorURL = <<>> \/ Head(OperatorURL) = "/" THEN via.origin ELSE <<Head(OperatorURL)>>
<1>1. env \in Envs /\ toml \in Tomls /\ via \in Origins BY DEF TypeOK
<1>2. cfg[PublicURL] = OperatorURL BY SettingsUsed
<1>3. IsURL(OperatorURL)
  <2>1. IsURL(<<>>) BY EmptySeq DEF IsURL
  <2> QED BY <1>1, <2>1, URLAssumption DEF OperatorURL, Operator
<1>4. <<Scheme(via.request), via.request.host>> = via.origin
  BY <1>1, OriginAssumption DEF Scheme
<1>5. <<Head(OperatorURL)>> # <<>>
  <2>1. \A x : <<x>> # <<>> OBVIOUS
  <2> QED BY <2>1, Zenon
<1> QED BY <1>2, <1>3, <1>4, <1>5, TrimRightURL DEF BaseURL
(* Paths of different lengths differ. *)
LEMMA PathsDiffer ==
    /\ \A a, b : Len(<<a>>) = 1 /\ (<<a>> = <<b>> <=> a = b)
    /\ \A a, b, x : Len(<<a, b>>) = 2 /\ <<a, b>> # <<x>>
    /\ \A a, b, c, x : Len(<<a, b, c>>) = 3 /\ <<a, b, c>> # <<x>>
    /\ \A a, b, c, d, x : Len(<<a, b, c, d>>) = 4 /\ <<a, b, c, d>> # <<x>>
OBVIOUS

(* Where the links of a stored share lead: those of a file, *)
LEMMA FileRoutes ==
    ASSUME NEW s \in Slugs, NEW isFile, isFile[s]
    PROVE  /\ Route(<<s, "info">>, isFile) = To("fileInfo", s, NoArg)
           /\ Route(<<s>>, isFile) = To("fileServe", s, NoArg)
           /\ Route(<<"delete", s, Secret>>, isFile) = To("fileDelete", s, Secret)
<1>1. s \notin {"health", "paste", "bucket", "info", "raw", "file"} BY SlugAssumption
<1> QED BY <1>1, PathsDiffer DEF Route

(* ... of a paste, *)
LEMMA PasteRoutes ==
    ASSUME NEW s \in Slugs, NEW isFile, ~isFile[s]
    PROVE  /\ Route(<<s>>, isFile) = To("pasteView", s, NoArg)
           /\ Route(<<s, "raw">>, isFile) = To("pasteRaw", s, NoArg)
           /\ Route(<<"delete", s, Secret>>, isFile) = To("pasteDelete", s, Secret)
<1>1. s \notin {"health", "paste", "bucket", "info", "raw", "file"} BY SlugAssumption
<1> QED BY <1>1, PathsDiffer DEF Route

(* ... and of a bucket. *)
LEMMA BucketRoutes ==
    ASSUME NEW s \in Slugs, NEW isFile
    PROVE  /\ Route(<<"b", s>>, isFile) = To("bucketView", s, NoArg)
           /\ Route(<<"b", s, "zip">>, isFile) = To("bucketZIP", s, NoArg)
           /\ Route(<<"b", s, "file", Key>>, isFile) = To("bucketFile", s, Key)
           /\ Route(<<"b", "delete", s, Secret>>, isFile) = To("bucketDelete", s, Secret)
<1>1. s \notin {"health", "paste", "bucket", "info", "raw", "file"} BY SlugAssumption
<1> QED BY <1>1, PathsDiffer DEF Route
(* What a route consists of. *)
LEMMA ToFields ==
    \A h, x, e : To(h, x, e).handler = h /\ To(h, x, e).slug = x /\ To(h, x, e).extra = e
BY DEF To

(* The handler each link is meant for. *)
LEMMA HandlerNames ==
    /\ Handlers["file"]["share"] = "fileInfo" /\ Handlers["file"]["download"] = "fileServe"
    /\ Handlers["file"]["delete"] = "fileDelete" /\ Handlers["file"]["serve"] = "fileServe"
    /\ Handlers["file"]["password"] = "fileServe"
    /\ Handlers["bucket"]["share"] = "bucketView" /\ Handlers["bucket"]["delete"] = "bucketDelete"
    /\ Handlers["bucket"]["zip"] = "bucketZIP" /\ Handlers["bucket"]["file"] = "bucketFile"
    /\ Handlers["bucket"]["password"] = "bucketView"
    /\ Handlers["paste"]["share"] = "pasteView" /\ Handlers["paste"]["delete"] = "pasteDelete"
    /\ Handlers["paste"]["raw"] = "pasteRaw" /\ Handlers["paste"]["password"] = "pasteView"
BY DEF Handlers

(* Path p leads to the handler of link w, with slug s and its secret. *)
Leads(kind, w, p, s) ==
    /\ Route(p, IsFile).handler = Handlers[kind][w]
    /\ Route(p, IsFile).slug = s
    /\ w = "delete" => Route(p, IsFile).extra = Secret

(* A route to its handler is where a link should lead. *)
LEMMA LeadsTo ==
    ASSUME NEW kind, NEW w, NEW p, NEW s, NEW extra, w = "delete" => extra = Secret,
           Route(p, IsFile) = To(Handlers[kind][w], s, extra)
    PROVE  Leads(kind, w, p, s)
BY ToFields DEF Leads

(* Once a share is stored, every link of the answer, and every link of the *)
(* pages behind it, leads where it should.                                 *)
LEMMA LinksAreRouted ==
    ASSUME TypeOK, NEW s \in DOMAIN share
    PROVE  LET kind == share[s].kind IN
           /\ \A w \in DOMAIN Paths(kind, s) : Leads(kind, w, Paths(kind, s)[w], s)
           /\ \A w \in DOMAIN OnwardPaths(kind, s) : Leads(kind, w, OnwardPaths(kind, s)[w], s)
<1>1. s \in Slugs /\ share[s].kind \in Kinds BY DEF TypeOK
<1>2. IsFile[s] <=> share[s].kind = "file" BY <1>1 DEF IsFile
<1>3. CASE share[s].kind = "file"
  <2>1. /\ DOMAIN Paths("file", s) = {"share", "download", "delete"}
        /\ Paths("file", s)["share"] = <<s, "info">>
        /\ Paths("file", s)["download"] = <<s>>
        /\ Paths("file", s)["delete"] = <<"delete", s, Secret>>
    BY DEF Paths
  <2>2. /\ Leads("file", "share", <<s, "info">>, s)
        /\ Leads("file", "download", <<s>>, s)
        /\ Leads("file", "delete", <<"delete", s, Secret>>, s)
    BY <1>1, <1>2, <1>3, FileRoutes, HandlerNames, LeadsTo
  <2>3. /\ DOMAIN OnwardPaths("file", s) = {"serve", "password"}
        /\ OnwardPaths("file", s)["serve"] = <<s>>
        /\ OnwardPaths("file", s)["password"] = <<s>>
    BY DEF OnwardPaths
  <2>4. /\ Leads("file", "serve", <<s>>, s)
        /\ Leads("file", "password", <<s>>, s)
    BY <1>1, <1>2, <1>3, FileRoutes, HandlerNames, LeadsTo
  <2> QED BY <1>3, <2>1, <2>2, <2>3, <2>4, Zenon
<1>4. CASE share[s].kind = "bucket"
  <2>1. /\ DOMAIN Paths("bucket", s) = {"share", "delete"}
        /\ Paths("bucket", s)["share"] = <<"b", s>>
        /\ Paths("bucket", s)["delete"] = <<"b", "delete", s, Secret>>
    BY DEF Paths
  <2>2. /\ Leads("bucket", "share", <<"b", s>>, s)
        /\ Leads("bucket", "delete", <<"b", "delete", s, Secret>>, s)
    BY <1>1, <1>2, <1>4, BucketRoutes, HandlerNames, LeadsTo
  <2>3. /\ DOMAIN OnwardPaths("bucket", s) = {"zip", "file", "password"}
        /\ OnwardPaths("bucket", s)["zip"] = <<"b", s, "zip">>
        /\ OnwardPaths("bucket", s)["file"] = <<"b", s, "file", Key>>
        /\ OnwardPaths("bucket", s)["password"] = <<"b", s>>
    BY DEF OnwardPaths
  <2>4. /\ Leads("bucket", "zip", <<"b", s, "zip">>, s)
        /\ Leads("bucket", "file", <<"b", s, "file", Key>>, s)
        /\ Leads("bucket", "password", <<"b", s>>, s)
    BY <1>1, <1>2, <1>4, BucketRoutes, HandlerNames, LeadsTo
  <2> QED BY <1>4, <2>1, <2>2, <2>3, <2>4, Zenon
<1>5. CASE share[s].kind = "paste"
  <2>1. /\ DOMAIN Paths("paste", s) = {"share", "delete"}
        /\ Paths("paste", s)["share"] = <<s>>
        /\ Paths("paste", s)["delete"] = <<"delete", s, Secret>>
    BY DEF Paths
  <2>2. /\ Leads("paste", "share", <<s>>, s)
        /\ Leads("paste", "delete", <<"delete", s, Secret>>, s)
    BY <1>1, <1>2, <1>5, PasteRoutes, HandlerNames, LeadsTo
  <2>3. /\ DOMAIN OnwardPaths("paste", s) = {"raw", "password"}
        /\ OnwardPaths("paste", s)["raw"] = <<s, "raw">>
        /\ OnwardPaths("paste", s)["password"] = <<s>>
    BY DEF OnwardPaths
  <2>4. /\ Leads("paste", "raw", <<s, "raw">>, s)
        /\ Leads("paste", "password", <<s>>, s)
    BY <1>1, <1>2, <1>5, PasteRoutes, HandlerNames, LeadsTo
  <2> QED BY <1>5, <2>1, <2>2, <2>3, <2>4, Zenon
<1> QED BY <1>1, <1>3, <1>4, <1>5 DEF Kinds

(* The invariant is enough for the links. *)
LEMMA LinksFollow == PageInv => LinksLeadBack
<1> SUFFICES ASSUME PageInv, result.visible PROVE LinksLeadBack
  BY DEF LinksLeadBack
<1> DEFINE s == result.share
           kind == share[s].kind
<1>1. TypeOK /\ s \in DOMAIN share /\ result.links = Links(kind, s) BY DEF PageInv, CardInv
<1>2. ASSUME NEW l \in result.links
      PROVE  /\ Leads(kind, l.what, l.url.path, s)
             /\ l.url.origin = BaseURL(cfg, via.request)
  <2>1. PICK w \in DOMAIN Paths(kind, s) :
          l = [what |-> w, url |-> [origin |-> BaseURL(cfg, via.request), path |-> Paths(kind, s)[w]]]
    BY <1>1 DEF Links, AbsURL
  <2>2. /\ l.what = w /\ l.url.path = Paths(kind, s)[w]
        /\ l.url.origin = BaseURL(cfg, via.request)
    BY <2>1
  <2>3. Leads(kind, w, Paths(kind, s)[w], s) BY <1>1, LinksAreRouted
  <2> QED BY <2>2, <2>3, Zenon
<1>3. \A w \in DOMAIN OnwardPaths(kind, s) : Leads(kind, w, OnwardPaths(kind, s)[w], s)
  BY <1>1, LinksAreRouted
<1>4. BaseURL(cfg, via.request) = IF OperatorURL = <<>> \/ Head(OperatorURL) = "/" THEN via.origin
                                  ELSE <<Head(OperatorURL)>>
  BY <1>1, OriginOfLinks
<1> QED BY <1>2, <1>3, <1>4, Zenon DEF LinksLeadBack, Leads

(* Every link a card shows leads to the handler it is meant for, with the  *)
(* slug of the share, and has the origin of the operator or the browser.   *)
THEOREM PageLinks == Spec => []LinksLeadBack
BY PageSafe, LinksFollow, PTL
=============================================================================
