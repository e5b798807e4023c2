------------------------------- MODULE ApiMedia -------------------------------
(***************************************************************************)
(* The Bot API methods of botmanager/bot.go, from the shape of a request   *)
(* to the steps of the method: messages, media and stories.                *)
(***************************************************************************)
EXTENDS ApiSteps

\* Mutant: one key for all.
UnscopedKey(r) == "item"

(* What can be sent again without an upload.  The methods that send one    *)
(* file remember its URL, albums the URL and the business connection.      *)
LinkKey == "link"
ItemKey(r) == Either(r.business, "business item", "item")

(* A file: bytes, a readable path and a URL that can be streamed are       *)
(* uploaded; Telegram fetches any other URL itself.                        *)
File(r, thumbnail) ==
  CASE r.source = "bytes" -> Upload("file") \o Either(r.extra, thumbnail, Nothing)
    [] IsURL(r) -> Try("url")
    [] r.source = "path" -> Upload("file")
    [] r.source = "file_id" -> Nothing
    [] OTHER -> Refuse("no file")

(* sendMedia: a business connection accepts stored media only, so what is  *)
(* uploaded or external is stored first, through the bot's connection.     *)
Stored(r) ==
  Either(r.business /\ r.source # "file_id", Saying(Ready) \o Want("stored media"), Nothing)
SendMedia(r) == Route(r, Either(r.business, Send("messages.sendMedia"),
                                OfParts(Send("messages.sendMedia"))))

(* Cached media is sent as it is, other media is uploaded, then stored.    *)
SendFile(r, thumbnail, asks, remembers) ==
  LET media == File(r, thumbnail) \o Stored(r)
  IN Peer(r) \o Either(asks /\ IsURL(r), Cached(LinkKey, media), media) \o SendMedia(r) \o
     Either(remembers /\ IsURL(r), Store(LinkKey), Nothing)
Thumbnail == Try("thumbnail")

SendPhoto(r) == SendFile(r, Nothing, TRUE, TRUE)
SendVideo(r) == SendFile(r, Thumbnail, TRUE, TRUE)
SendDocument(r) == SendFile(r, Thumbnail, TRUE, FALSE)
SendVoice(r) == SendFile(r, Nothing, FALSE, FALSE)
SendVideoNote(r) == SendFile(r, Thumbnail, FALSE, FALSE)
SendAudio(r) == SendFile(r, Thumbnail, TRUE, FALSE)
SendSticker(r) == SendFile(r, Nothing, FALSE, TRUE)
SendAnimation(r) == SendFile(r, Thumbnail, TRUE, TRUE)

(* resolveInputSingleMedia: the URL of a photo is offered to Telegram      *)
(* first, then streamed.                                                   *)
ResolveInputSingleMedia(r) ==
  LET stored == Upload("file") \o Ready \o Want("stored media")
  IN CASE r.source \in {"bytes", "path"} -> stored
       [] r.source = "file url" -> Cached(ItemKey(r), stored \o Store(ItemKey(r)))
       [] r.source = "photo url" ->
            Cached(ItemKey(r), FirstTry(Ready, stored) \o Store(ItemKey(r)))
       [] r.source = "file_id" -> Nothing
       [] OTHER -> Refuse("no file")

-----------------------------------------------------------------------------
(* Messages: text, edits, deletion, actions.                               *)
SendMessage(r) == Peer(r) \o Named(r, Send("messages.sendMessage"))
EditMessage(r) == Peer(r) \o Named(r, Set("messages.editMessage"))

Deletion(r) ==
  LET delete == Set("messages.deleteMessages")
  IN [deleteMessage |->
        Either(r.business, Business(Saying(delete)),
               ByChat(r, delete, delete, Set("channels.deleteMessages"))),
      deleteBusinessMessages |-> Check("message_ids") \o Business(Saying(delete)),
      sendChatAction |-> Peer(r) \o Route(r, Set("messages.setTyping"))]

(* The copy exists when its caption is edited.                             *)
CopyMessage(r) ==
  Peer(r) \o Check("from_chat_id") \o Send("messages.forwardMessages") \o
  Want("message id") \o
  Either(r.extra, Check("caption markup") \o Set("messages.editMessage"), Nothing)

EditMessageMedia(r) ==
  Peer(r) \o ResolveInputSingleMedia(r) \o Named(r, Set("messages.editMessage"))

SendMediaGroup(r) ==
  Peer(r) \o Check("media") \o ResolveInputSingleMedia(r) \o
  Named(r, Send("messages.sendMultiMedia")) \o Want("messages")

(* Answers to queries, and what is asked of chats and users.               *)
Answers(r) ==
  [answerCallbackQuery |-> Check("callback_query_id") \o Set("messages.setBotCallbackAnswer"),
   answerPreCheckoutQuery |->
     Check("pre_checkout_query_id") \o Set("messages.setBotPrecheckoutResults"),
   setMyCommands |-> Set("bots.setBotCommands"),
   \* A stale access hash is forgotten and the member asked for again.
   getChatMember |->
     ByChat(r, Nothing, Read("messages.getFullChat") \o Want("full chat"),
            Check("user_id") \o FirstTry(Read("channels.getParticipant"),
                                         Read("channels.getParticipant")))]

GetFile == Nothing
GetUserProfilePhotos == Read("photos.getUserPhotos")

(* The profile and the stories of a connected business account, whose user *)
(* is always a peer.                                                       *)
BusinessAccount(r) ==
  LET profile == Business(Set("account.updateProfile"))
  IN [setBusinessAccountBio |-> profile,
      setBusinessAccountName |-> profile,
      setBusinessAccountUsername |-> Business(Set("account.updateUsername")),
      removeBusinessAccountProfilePhoto |-> Business(Set("photos.updateProfilePhoto")),
      deleteStory |-> Lookup \o Business(Set("stories.deleteStories")),
      readBusinessMessage |-> Peer(r) \o Business(Set("messages.readHistory"))]

PostStory(r) ==
  Lookup \o Check("content") \o ResolveInputSingleMedia([r EXCEPT !.business = TRUE]) \o
  Check("caption") \o Direct(Send("stories.sendStory")) \o Want("story id")
=============================================================================
