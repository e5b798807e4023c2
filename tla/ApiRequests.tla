----------------------------- MODULE ApiRequests -----------------------------
(***************************************************************************)
(* One Bot API request from its dispatch to its answer: the steps of its   *)
(* handler and its method (ApiHandlers, ApiMedia, ApiMethods) one by one,  *)
(* the repetition of calls whose connection dropped, the deadline, the     *)
(* keys that Telegram refuses, and what the answer says of an error.       *)
(* Requests follow one another; they share the media cache.                *)
(*                                                                         *)
(* A call goes through the bot's own connection or through the pool of the *)
(* datacenter of a business connection, unless that is the bot's own       *)
(* datacenter.  Telegram executes a call it gets; whether the answer       *)
(* arrives is another matter.  It executes one random_id once.             *)
(***************************************************************************)
EXTENDS ApiMethods, ApiHandlers, Naturals

CONSTANTS
  Attempts,      \* of one call on one connection
  PoolAttempts   \* pools tried for a business call

ASSUME AttemptsAssumption == Attempts \in Nat \ {0} /\ PoolAttempts \in Nat \ {0}

VARIABLES
  method,     \* the Bot API method of the request
  steps,      \* what is left of the request
  retried,    \* the method its handler may call again, << >> for all but two
  ofBusiness, \* the request names a business connection
  home,       \* which is served by the bot's own datacenter
  call,       \* the call under way: attempts on this pool, pools, executed
  parts,      \* where uploaded file parts are: "none", "bot" or "pool"
  cache,      \* whose media each key of the cache holds
  done,       \* something was changed
  sends, makes, \* messages sent and things made, each of them counted
  lost,       \* the answer to an executed call did not arrive
  expired,    \* the deadline of the request is over
  reset,      \* the bot was started anew for this request
  cause,      \* the step that failed, and how
  answer      \* "none" until there is one: "ok" or an HTTP code

request == <<method, steps, retried, ofBusiness, home>>
telegram == <<done, sends, makes, lost>>
vars == <<request, call, parts, cache, telegram, expired, reset, cause, answer>>

Keys == {"link", "item", "business item"}
Fresh == [try |-> 1, pool |-> 1, executed |-> FALSE]
NoCause == [do |-> "none", what |-> "none", via |-> "none", error |-> "none"]

-----------------------------------------------------------------------------
(* HandleRequest: methods by name; a name nobody knows is refused.         *)
MessagesAndMedia(r) ==
  [sendMessage |-> SendMessage(r), editMessageText |-> EditMessage(r),
   editMessageCaption |-> EditMessage(r), editMessageReplyMarkup |-> EditMessage(r),
   editMessageMedia |-> EditMessageMedia(r), copyMessage |-> CopyMessage(r),
   sendPhoto |-> SendPhoto(r), sendVideo |-> SendVideo(r), sendDocument |-> SendDocument(r),
   sendVoice |-> SendVoice(r), sendVideoNote |-> SendVideoNote(r), sendAudio |-> SendAudio(r),
   sendSticker |-> SendSticker(r), sendAnimation |-> SendAnimation(r),
   sendMediaGroup |-> SendMediaGroup(r), sendPaidMedia |-> SendPaidMedia(r),
   postStory |-> PostStory(r), getBusinessConnection |-> Lookup, getFile |-> GetFile,
   getUserProfilePhotos |-> GetUserProfilePhotos,
   setPassportDataErrors |-> SetPassportDataErrors]
Methods(r) ==
  (MessagesAndMedia(r) ++ Deletion(r) ++ Answers(r) ++ BusinessAccount(r)
   ++ ChatReading(r) ++ Forwarding(r) ++ DeletionAndReactions(r) ++ Places(r) ++ Polls(r)
   ++ DiceAndPins(r))
  ++ (Members(r) ++ Moderation(r) ++ Administration(r) ++ InviteLinks(r) ++ ChatProfile(r)
      ++ BotProfile ++ ForumTopics(r) ++ InlineAnswers(r) ++ Invoices(r) ++ Stars
      ++ Verification(r))
  ++ (StickerSets ++ StickerChanges(r) ++ Games(r) ++ BotItself(r) ++ GuestQueries
      ++ BusinessSettings(r) ++ ManagedBots ++ StoriesAndDrafts(r) ++ Gifts(r)
      ++ SavedGifts(r) ++ Checklists(r) ++ RichMessages(r))

(* The handlers of sendMessage and editMessageText start the bot anew and  *)
(* call the method again if the bot's key is refused.                      *)
Requests ==
  UNION {LET methods == Methods(r)
         IN {[method |-> m, ofBusiness |-> NamesConnection(m, r),
              steps |-> Handlers[m] \o methods[m],
              retried |-> Either(m \in DOMAIN RetryingHandlers /\ ~r.business,
                                 methods[m], Nothing)] : m \in DOMAIN Handlers}
         : r \in Shapes}
Unknown ==
  [method |-> "unknown", ofBusiness |-> FALSE, steps |-> Refuse("method"), retried |-> Nothing]

-----------------------------------------------------------------------------
Init ==
  /\ method = "none" /\ steps = Nothing /\ retried = Nothing
  /\ ofBusiness = FALSE /\ home = FALSE
  /\ call = Fresh /\ parts = "none" /\ cache = [k \in Keys |-> "none"]
  /\ done = FALSE /\ sends = 0 /\ makes = 0 /\ lost = FALSE
  /\ expired = FALSE /\ reset = FALSE /\ cause = NoCause /\ answer = "idle"

Idle == answer = "idle"
Running == answer = "none"
step == Head(steps)
On(kinds) == Running /\ steps # Nothing /\ step.do \in kinds

(* Where a step goes.                                                      *)
connection == Either(step.via = "bot" \/ home, "bot", "pool")

(* A request comes in.                                                     *)
Begin ==
  /\ Idle
  /\ \E q \in Requests \cup {Unknown} :
       /\ method' = q.method /\ steps' = q.steps /\ retried' = q.retried
       /\ ofBusiness' = q.ofBusiness
       /\ home' \in BOOLEAN
       /\ ~ofBusiness' => ~home'
  /\ answer' = "none"
  /\ UNCHANGED <<call, parts, cache, telegram, expired, reset, cause>>

Proceed(skip) == steps' = SubSeq(steps, 2 + skip, Len(steps)) /\ call' = Fresh

\* Mutant: every refusal of a key resets the bot.
AnyKeyResets(error) ==
  CASE error \in {"key", "session"} -> "401"
    [] error = "dropped" -> "502"
    [] error = "deadline" -> "504"
    [] error = "server" -> "500"
    [] error = "unknown method" -> "404"
    [] OTHER -> "400"

(* respondError: an error is mapped by its text.  A key that is not known, *)
(* a session or a token that is no longer valid reset the bot, unless the  *)
(* text says "business": the method may, and businessErrorMiddleware adds  *)
(* it when the key of a wrapped call is not known.                         *)
Code(error) ==
  CASE error = "key" -> Either(step.says \/ step.via = "business", "400", "401")
    [] error = "session" -> Either(step.says, "400", "401")
    [] error = "dropped" -> "502"
    [] error = "deadline" -> "504"
    [] error = "server" -> "500"
    [] error = "unknown method" -> "404"
    [] OTHER -> "400"

Explain(error) ==
  cause' = [do |-> step.do, what |-> step.what, via |-> step.via, error |-> error]
Respond(error) ==
  /\ answer' = Code(error) /\ reset' = (reset \/ Code(error) = "401") /\ Explain(error)
  /\ UNCHANGED <<request, call, parts>>

(* ResetBot, GetOrCreate and the method once more, within the deadline.    *)
CallAgain(error) ==
  /\ error = "key" /\ retried # Nothing
  /\ steps' = retried /\ retried' = Nothing
  /\ reset' = TRUE /\ call' = Fresh /\ parts' = "none" /\ Explain(error)
  /\ UNCHANGED <<method, ofBusiness, home, answer>>

(* The error of a step: ignored, answered, or answered after another call. *)
Fails(error) ==
  IF step.do = "try"
  THEN /\ Proceed(0)
       /\ UNCHANGED <<method, retried, ofBusiness, home, parts, reset, cause, answer>>
  ELSE Respond(error) \/ CallAgain(error)

-----------------------------------------------------------------------------
(* Steps that do not leave the process.  A cache may have been emptied.    *)
LocalStep ==
  /\ On({"check", "want", "cache", "store"})
  /\ CASE step.do = "cache" ->
            /\ \/ Proceed(0)
               \/ cache[step.what] # "none" /\ Proceed(step.skip)
            /\ UNCHANGED cache
       [] step.do = "store" ->
            /\ Proceed(0)
            /\ \/ UNCHANGED cache
               \/ cache' = [cache EXCEPT ![step.what] = Either(ofBusiness, "business", "bot")]
       [] OTHER -> Proceed(0) /\ UNCHANGED cache
  /\ UNCHANGED <<method, retried, ofBusiness, home, parts, telegram, expired, reset, cause,
                 answer>>

(* Bad input, or a reply without what the method returns.                  *)
StepRefuses ==
  /\ On({"check", "want", "refuse"})
  /\ Fails(Either(step.what = "method", "unknown method", "refused"))
  /\ UNCHANGED <<cache, telegram, expired>>

(* The connection is known, here or in Redis, or has no datacenter.        *)
LookupKnown ==
  /\ On({"lookup"})
  /\ \/ /\ Proceed(0)
        /\ UNCHANGED <<method, retried, ofBusiness, home, parts, reset, cause, answer>>
     \/ Fails("refused")
  /\ UNCHANGED <<cache, telegram, expired>>

(* Every file was sent.                                                    *)
Finish ==
  /\ Running /\ steps = Nothing
  /\ answer' = "ok"
  /\ UNCHANGED <<request, call, parts, cache, telegram, expired, reset, cause>>

(* The answer is written; the next request finds the cache.                *)
Answered ==
  /\ answer \notin {"idle", "none"}
  /\ method' = "none" /\ steps' = Nothing /\ retried' = Nothing
  /\ ofBusiness' = FALSE /\ home' = FALSE
  /\ call' = Fresh /\ parts' = "none"
  /\ done' = FALSE /\ sends' = 0 /\ makes' = 0 /\ lost' = FALSE
  /\ expired' = FALSE /\ reset' = FALSE /\ cause' = NoCause /\ answer' = "idle"
  /\ UNCHANGED cache

-----------------------------------------------------------------------------
(* Calls.                                                                  *)
Calling == On({"lookup", "read", "set", "make", "send", "upload", "try"})

\* Mutant: the random_id is drawn for each attempt.
ExecuteWithFreshId ==
  /\ done' = (done \/ step.do \in {"set", "make", "send"})
  /\ makes' = makes + Either(step.do = "make", 1, 0)
  /\ sends' = sends + Either(step.do = "send", 1, 0)

(* Telegram executes a call: a message whose random_id it knows is not     *)
(* sent again.                                                             *)
Execute ==
  /\ done' = (done \/ step.do \in {"set", "make", "send"})
  /\ makes' = makes + Either(step.do = "make", 1, 0)
  /\ sends' = sends + Either(step.do = "send" /\ ~call.executed, 1, 0)

(* The connection dropped before the call arrived, or after it.            *)
Dropped(arrived) ==
  IF arrived THEN Execute /\ lost' = TRUE ELSE UNCHANGED telegram

CallSucceeds ==
  /\ Calling /\ ~expired
  /\ Execute /\ UNCHANGED lost
  /\ Proceed(Either(step.do = "try", step.skip, 0))
  /\ parts' = CASE step.do = "upload" \/ (step.do = "try" /\ ~step.parts) -> connection
                [] step.parts -> "none"
                [] OTHER -> parts
  /\ UNCHANGED <<method, retried, ofBusiness, home, cache, expired, reset, cause, answer>>

(* Telegram refuses the call, has an error of its own, does not know the   *)
(* key (AUTH_KEY_UNREGISTERED), or no longer accepts the session or the    *)
(* token (SESSION_REVOKED, ACCESS_TOKEN_INVALID, ...).                     *)
CallRefused ==
  /\ Calling /\ ~expired
  /\ \E error \in {"refused", "server", "key", "session"} : Fails(error)
  /\ UNCHANGED <<cache, telegram, expired>>

\* Mutants: one attempt too many; pools that are not counted.
OneMoreAttempt == call.try <= Attempts \/ (connection = "pool" /\ call.pool < PoolAttempts)
PoolsNotCounted(arrived) ==
  call' = [call EXCEPT !.try = Either(@ < Attempts, @ + 1, 1), !.executed = @ \/ arrived]

(* retryMiddleware and rawBusinessInvoker: a call whose connection dropped *)
(* is repeated, first on the same pool, then on a new one.                 *)
Repeatable == call.try < Attempts \/ (connection = "pool" /\ call.pool < PoolAttempts)
Repeat(arrived) ==
  call' = [try |-> Either(call.try < Attempts, call.try + 1, 1),
           pool |-> Either(call.try < Attempts, call.pool, call.pool + 1),
           executed |-> call.executed \/ arrived]

ConnectionDrops ==
  /\ Calling /\ ~expired
  /\ \E arrived \in BOOLEAN :
       /\ Dropped(arrived)
       /\ IF Repeatable
          THEN Repeat(arrived) /\ UNCHANGED <<request, parts, reset, cause, answer>>
          ELSE Fails("dropped")
  /\ UNCHANGED <<cache, expired>>

(* Another request gave the pool up, or the bot was hibernated or got a    *)
(* new client: the calls of the pool end with an error of their own.       *)
PoolClosed ==
  /\ Calling /\ ~expired /\ connection = "pool"
  /\ \E arrived \in BOOLEAN : Dropped(arrived)
  /\ Fails("closed")
  /\ UNCHANGED <<cache, expired>>

(* The deadline of the request: nothing is repeated after it.              *)
DeadlinePasses ==
  /\ Calling
  /\ expired' = TRUE
  /\ \E arrived \in BOOLEAN : (expired => ~arrived) /\ Dropped(arrived)
  /\ Fails("deadline")
  /\ UNCHANGED cache

ServerStep ==
  \/ LocalStep \/ StepRefuses \/ LookupKnown \/ Finish \/ Answered
  \/ CallSucceeds \/ CallRefused \/ ConnectionDrops \/ PoolClosed \/ DeadlinePasses

Next == Begin \/ ServerStep

(* Requests come from outside; what the server has begun it goes on with.  *)
Spec == Init /\ [][Next]_vars /\ WF_vars(ServerStep)

-----------------------------------------------------------------------------
(* The state, and the bounds of the repetition: as many attempts on a pool *)
(* and as many pools as the loops of retryMiddleware and                   *)
(* rawBusinessInvoker allow.                                               *)
TypeOK ==
  /\ DOMAIN steps = 1..Len(steps)
  /\ \A i \in DOMAIN steps :
       /\ steps[i].do \in Kinds /\ steps[i].via \in {"bot", "business", "direct"}
       /\ steps[i].parts \in BOOLEAN /\ steps[i].says \in BOOLEAN /\ steps[i].skip \in Nat
  /\ ofBusiness \in BOOLEAN /\ home \in BOOLEAN
  /\ call.try \in 1..Attempts /\ call.pool \in 1..PoolAttempts /\ call.executed \in BOOLEAN
  /\ parts \in {"none", "bot", "pool"}
  /\ cache \in [Keys -> {"none", "bot", "business"}]
  /\ answer \in {"idle", "none", "ok", "400", "401", "404", "500", "502", "504"}

(* A message is sent twice by one request only if the answer to the first  *)
(* was lost and the bot was started anew: a repeated call has the          *)
(* random_id of the first, the method called again draws another.  A link  *)
(* or a set has no random_id, and is made twice whenever an answer is lost.*)
CopiesNeedALoss ==
  /\ sends > 1 => lost /\ reset
  /\ makes > 1 => lost

(* A bot is started anew because a call of its own failed; a wrapped call  *)
(* never does that because a key is not known, which is about the business *)
(* connection.  The exceptions: stories are sent to the datacenter of the  *)
(* connection without being wrapped; and a session that was ended, or a    *)
(* token that is not valid, is taken for the bot's own whoever was called. *)
Unwrapped == {"stories.sendStory", "stories.editStory"}
ResetIsDeserved ==
  reset => cause.via = "bot" \/ cause.what \in Unwrapped \/ cause.error = "session"

(* An answer that says the request was bad (400) means that nothing was    *)
(* changed.  The exceptions: an answer of Telegram was lost before; the    *)
(* reply does not hold what the method returns; a list of messages was     *)
(* forwarded to a channel; the caption of a copy could not be edited.      *)
RefusalMeansNothingDone ==
  answer = "400" /\ done /\ ~lost =>
    \/ cause.do = "want"
    \/ cause.what \in {"without message ids", "caption markup", "messages.editMessage"}

(* File parts are consumed on the connection they were uploaded to: those  *)
(* of one datacenter do not exist in another.                              *)
PartsStayWhereUploaded ==
  On({"set", "send", "read", "try"}) /\ step.parts /\ parts # "none" => parts = connection

(* A request that names a business connection acts for its account: what   *)
(* it changes goes through the connection, never through the bot itself.   *)
(* The exceptions: the handler of deleteMessages drops the name; the live  *)
(* location of an inline message is edited without it.                     *)
Ignoring ==
  {<<"deleteMessages", "messages.deleteMessages">>,
   <<"deleteMessages", "channels.deleteMessages">>,
   <<"editMessageLiveLocation", "messages.editInlineBotMessage">>,
   <<"stopMessageLiveLocation", "messages.editInlineBotMessage">>}
OneAccount ==
  ofBusiness /\ On({"set", "make", "send"}) =>
    step.via # "bot" \/ <<method, step.what>> \in Ignoring

(* resolveInputSingleMedia: media stored for a business connection is      *)
(* found again by its requests only, whatever requests came in between.    *)
ItemsStayHome ==
  /\ cache["item"] \in {"none", "bot"}
  /\ cache["business item"] \in {"none", "business"}

(* Every request is answered: the repetition of calls ends.                *)
EventuallyAnswered == Running ~> ~Running
=============================================================================
