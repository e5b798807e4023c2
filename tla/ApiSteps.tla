------------------------------- MODULE ApiSteps -------------------------------
(***************************************************************************)
(* What a Bot API method is made of.  Each method of a BotInstance is a    *)
(* straight line of steps: it refuses bad input, resolves the chat,        *)
(* uploads files, calls Telegram, and looks in the reply for what it       *)
(* returns.  Its branches depend on the shape of the request only, so a    *)
(* method is a function from the shape of a request to a sequence of       *)
(* steps.  The tables of ApiMedia and ApiMethods are written with the      *)
(* operators below; ApiRequests executes the steps.                        *)
(*                                                                         *)
(* A step is a record.  do: the kind of step.  what: the call or the input *)
(* it is about.  via: the connection it goes through, the bot's own        *)
(* ("bot"), the business connection of the request ("business": wrapped    *)
(* in invokeWithBusinessConnection; "direct": only sent to its             *)
(* datacenter).  parts: it consumes the file parts uploaded before it.     *)
(* says: the method puts the word "business" into the text of its error.   *)
(* skip: how many of the steps that follow are left out when it succeeds.  *)
(***************************************************************************)
EXTENDS Sequences

\* chat_id names a user, a basic group, a channel or supergroup with a known
\* access hash, or a channel nobody has seen.
Chats == {"user", "group", "channel", "unknown"}

\* What a media parameter holds: bytes of the request, attach:// without
\* them, the URL of a photo or of another file, the path of a readable local
\* file, a file_id, or none of these.
Sources == {"bytes", "attach", "photo url", "file url", "path", "file_id", "other"}

\* extra: the optional part of the method is asked for.
Shapes == [chat: Chats, business: BOOLEAN, inline: BOOLEAN, source: Sources, extra: BOOLEAN]
IsURL(r) == r.source \in {"photo url", "file url"}

-----------------------------------------------------------------------------
Kinds == {"check", "want", "refuse", "cache", "store", "upload",
          "lookup", "read", "set", "make", "send", "try"}

Step(do, what) ==
  <<[do |-> do, what |-> what, via |-> "bot", parts |-> FALSE, says |-> FALSE, skip |-> 0]>>

Nothing == << >>
Refuse(what) == Step("refuse", what)  \* an error, always
Check(what) == Step("check", what)    \* an error, if the input is bad
Want(what) == Step("want", what)      \* an error, if the reply does not hold it
Upload(what) == Step("upload", what)  \* file parts, kept for the next step
Read(rpc) == Step("read", rpc)        \* changes nothing
Set(rpc) == Step("set", rpc)          \* doing it twice is doing it once
Make(rpc) == Step("make", rpc)        \* doing it twice makes two
Send(rpc) == Step("send", rpc)        \* carries a random_id, or a form, got before it

\* messages.uploadMedia turns parts or a URL into media a later call names.
Ready == [Step("read", "messages.uploadMedia") EXCEPT ![1].parts = TRUE]

\* The last step consumes the parts, says "business" when it fails.
OfParts(steps) == [steps EXCEPT ![Len(steps)].parts = TRUE]
Saying(steps) == [i \in DOMAIN steps |-> [steps[i] EXCEPT !.says = TRUE]]

\* A call whose failure is ignored; the rest follows if it fails.
FirstTry(step, rest) == [step EXCEPT ![1].do = "try", ![1].skip = Len(rest)] \o rest
Try(what) == FirstTry(Upload(what), Nothing)

\* The media cache: the rest is left out if it holds the key.
Cached(key, rest) == [Step("cache", key) EXCEPT ![1].skip = Len(rest)] \o rest
Store(key) == Step("store", key)

Either(asked, yes, no) == IF asked THEN yes ELSE no

\* Two tables as one; the first counts where both have the name.
Joint(f, g) == [m \in DOMAIN f \cup DOMAIN g |-> IF m \in DOMAIN f THEN f[m] ELSE g[m]]
f ++ g == Joint(f, g)

(* resolvePeer: users are passed on without a hash, basic groups need none.*)
Peer(r) == Either(r.chat = "unknown", Refuse("chat not found"), Nothing)
ByChat(r, user, group, channel) ==
  Peer(r) \o CASE r.chat = "user" -> user
               [] r.chat = "group" -> group
               [] OTHER -> channel

(* inputChannel and the methods that check for a channel peer themselves.  *)
Channel(r) == Either(r.chat = "channel", Nothing, Refuse("supergroups and channels only"))

(* businessConnection: looked up in memory, in Redis, or by asking         *)
(* Telegram.                                                               *)
Lookup == Saying(Step("lookup", "account.getBotBusinessConnection"))

\* Mutants: parts uploaded by the bot; a call that looks the connection up,
\* then forgets it.
NotDirect(steps) == Lookup \o steps
RouteToTheBot(r, steps) == Either(r.business, Lookup \o steps, steps)

(* invokeBusiness, invokeBusinessDirect and businessRawClient.  Some       *)
(* methods say "business" when a call fails that they routed.              *)
Through(via, steps) == Lookup \o [i \in DOMAIN steps |-> [steps[i] EXCEPT !.via = via]]
Business(steps) == Through("business", steps)
Direct(steps) == Through("direct", steps)
Route(r, steps) == Either(r.business, Business(steps), steps)
Named(r, steps) == Route(r, Either(r.business, Saying(steps), steps))
=============================================================================
