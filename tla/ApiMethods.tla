------------------------------ MODULE ApiMethods ------------------------------
(***************************************************************************)
(* The Bot API methods of botmanager/methods.go, in the order of the file, *)
(* and of gifts.go, checklists.go and rich.go: from the shape of a request *)
(* to the steps of the method.  What is sent inside a call, and the        *)
(* conversion of its result, is left out.                                  *)
(***************************************************************************)
EXTENDS ApiMedia

\* Mutant: the markup is looked at after the message is sent.
MarkupTooLate(r) == Route(r, Send("messages.sendMedia")) \o Check("reply_markup")

(* Helpers of several methods.                                             *)
HideChatJoinRequest(r) == Peer(r) \o Set("messages.hideChatJoinRequest")
EditGeneralForumTopic(r) == Peer(r) \o Set("messages.editForumTopic")
UploadStickerDocument == Check("file") \o Upload("file") \o Ready \o Want("document")
SendMediaMessage(r) == Check("reply_markup") \o Route(r, Send("messages.sendMedia"))
EditMediaMessage(r) ==
  Check("reply_markup") \o
  Either(r.inline, Check("inline_message_id") \o Set("messages.editInlineBotMessage"),
         Route(r, Set("messages.editMessage")))

-----------------------------------------------------------------------------
ChatReading(r) ==
  [getChat |-> ByChat(r, Read("users.getFullUser"), Read("messages.getFullChat"),
                         Read("channels.getFullChannel"))]

(* Only updates of private chats and basic groups are searched for the     *)
(* messages of forwardMessages and copyMessages.                           *)
Forwarded(r) == Either(r.chat = "channel", Refuse("without message ids"), Want("message ids"))
Forwarding(r) ==
  LET forward == Peer(r) \o Check("from_chat_id") \o Send("messages.forwardMessages")
  IN [forwardMessage |-> forward \o Want("message id"),
      forwardMessages |-> forward \o Forwarded(r),
      copyMessages |-> forward \o Forwarded(r)]

DeletionAndReactions(r) ==
  LET delete == Set("messages.deleteMessages")
  IN [deleteMessages |-> ByChat(r, delete, delete, Set("channels.deleteMessages")),
      setMessageReaction |-> Peer(r) \o Set("messages.sendReaction")]

Places(r) ==
  [sendLocation |-> Peer(r) \o SendMediaMessage(r),
   editMessageLiveLocation |-> Either(r.inline, Nothing, Peer(r)) \o EditMediaMessage(r),
   stopMessageLiveLocation |-> Either(r.inline, Nothing, Peer(r)) \o EditMediaMessage(r),
   sendVenue |-> Peer(r) \o SendMediaMessage(r),
   sendContact |-> Peer(r) \o SendMediaMessage(r)]

(* A poll is read, then closed; only replies for private chats and basic   *)
(* groups are understood.  A business chat is not read: the poll must be in*)
(* the reply to the closing.                                               *)
Polls(r) ==
  LET close == Check("reply_markup") \o Set("messages.editMessage")
      ofBot == ByChat(r, Read("messages.getMessages") \o Want("poll") \o close,
                         Read("messages.getMessages") \o Want("poll") \o close,
                         Read("channels.getMessages") \o Refuse("poll message not found"))
      ofBusiness == Peer(r) \o Check("reply_markup") \o
                    Business(Set("messages.editMessage")) \o Want("poll")
  IN [sendPoll |-> Peer(r) \o Check("options") \o SendMediaMessage(r),
      stopPoll |-> Either(r.business, ofBusiness, ofBot)]

DiceAndPins(r) ==
  LET pin == Peer(r) \o Route(r, Set("messages.updatePinnedMessage"))
  IN [sendDice |-> Peer(r) \o SendMediaMessage(r),
      pinChatMessage |-> pin,
      unpinChatMessage |-> pin,
      unpinAllChatMessages |-> Peer(r) \o Set("messages.unpinAllMessages"),
      leaveChat |-> ByChat(r, Refuse("private chat"), Set("messages.deleteChatUser"),
                              Set("channels.leaveChannel"))]

Members(r) ==
  LET fullChat == Read("messages.getFullChat") \o Want("full chat")
  IN [getChatAdministrators |->
        ByChat(r, Refuse("private chat"), fullChat,
                  Read("channels.getParticipants") \o Want("participants")),
      getChatMemberCount |->
        ByChat(r, Nothing, fullChat, Read("channels.getFullChannel") \o Want("full channel"))]

Moderation(r) ==
  LET ban == Peer(r) \o Channel(r) \o Set("channels.editBanned")
  IN [banChatMember |-> ban,
      unbanChatMember |-> ban,
      restrictChatMember |-> ban,
      promoteChatMember |-> Peer(r) \o Channel(r) \o Set("channels.editAdmin")]

Administration(r) ==
  LET banSender == Peer(r) \o Channel(r) \o Check("sender_chat_id") \o Set("channels.editBanned")
  IN [setChatAdministratorCustomTitle |->
        Peer(r) \o Channel(r) \o Read("channels.getParticipant") \o Want("administrator") \o
        Set("channels.editAdmin"),
      banChatSenderChat |-> banSender,
      unbanChatSenderChat |-> banSender,
      setChatPermissions |-> Peer(r) \o Set("messages.editChatDefaultBannedRights")]

(* Each call that exports a link makes a new one.                          *)
InviteLinks(r) ==
  LET new == Peer(r) \o Make("messages.exportChatInvite") \o Want("invite")
      edit == Peer(r) \o Set("messages.editExportedChatInvite") \o Want("invite")
  IN [exportChatInviteLink |-> new,
      createChatInviteLink |-> new,
      createChatSubscriptionInviteLink |-> new,
      editChatSubscriptionInviteLink |-> edit,
      editChatInviteLink |-> edit,
      revokeChatInviteLink |-> edit,
      approveChatJoinRequest |-> HideChatJoinRequest(r),
      declineChatJoinRequest |-> HideChatJoinRequest(r)]

ChatProfile(r) ==
  LET photo == OfParts(Set("channels.editPhoto"))
  IN [setChatPhoto |->
        Peer(r) \o Channel(r) \o
        Either(r.source = "bytes" \/ IsURL(r), Upload("photo") \o photo,
               Refuse("photo upload is required")),
      deleteChatPhoto |-> Peer(r) \o Channel(r) \o Set("channels.editPhoto"),
      setChatTitle |-> ByChat(r, Refuse("private chat"), Set("messages.editChatTitle"),
                                 Set("channels.editTitle")),
      setChatDescription |-> Peer(r) \o Set("messages.editChatAbout"),
      setChatMenuButton |-> Check("menu_button") \o Set("bots.setBotMenuButton"),
      getChatMenuButton |-> Read("bots.getBotMenuButton") \o Want("button")]

BotProfile ==
  LET setInfo == Set("bots.setBotInfo")
      getInfo == Read("bots.getBotInfo")
  IN [setMyDefaultAdministratorRights |-> Set("bots.setBotDefaultAdminRights"),
      getMyDefaultAdministratorRights |-> Read("users.getFullUser"),
      getMyCommands |-> Read("bots.getBotCommands"),
      deleteMyCommands |-> Set("bots.resetBotCommands"),
      setMyName |-> setInfo, getMyName |-> getInfo,
      setMyDescription |-> setInfo, getMyDescription |-> getInfo,
      setMyShortDescription |-> setInfo, getMyShortDescription |-> getInfo,
      setUserEmojiStatus |-> Check("custom_emoji_id") \o Set("bots.updateUserEmojiStatus")]

ForumTopics(r) ==
  LET edit == Peer(r) \o Set("messages.editForumTopic")
  IN [createForumTopic |->
        Peer(r) \o Check("icon_custom_emoji_id") \o Send("messages.createForumTopic") \o
        Want("message id"),
      editForumTopic |-> Peer(r) \o Check("icon_custom_emoji_id") \o Set("messages.editForumTopic"),
      closeForumTopic |-> edit,
      reopenForumTopic |-> edit,
      deleteForumTopic |-> Peer(r) \o Set("messages.deleteTopicHistory"),
      unpinAllForumTopicMessages |-> Peer(r) \o Set("messages.unpinAllMessages"),
      editGeneralForumTopic |-> EditGeneralForumTopic(r),
      closeGeneralForumTopic |-> EditGeneralForumTopic(r),
      reopenGeneralForumTopic |-> EditGeneralForumTopic(r),
      hideGeneralForumTopic |-> EditGeneralForumTopic(r),
      unhideGeneralForumTopic |-> EditGeneralForumTopic(r),
      unpinAllGeneralForumTopicMessages |-> Peer(r) \o Set("messages.unpinAllMessages"),
      getForumTopicIconStickers |-> Read("messages.getStickerSet") \o Want("stickers")]

InlineAnswers(r) ==
  LET stickers == Peer(r) \o Channel(r) \o Set("channels.setStickers")
  IN [setChatStickerSet |-> stickers,
      deleteChatStickerSet |-> stickers,
      answerInlineQuery |->
        Check("inline_query_id") \o Check("results") \o Set("messages.setInlineBotResults"),
      answerWebAppQuery |->
        Check("result") \o Send("messages.sendWebViewResultMessage") \o Want("inline_message_id"),
      savePreparedInlineMessage |->
        Check("result") \o Make("messages.savePreparedInlineMessage")]

Invoices(r) ==
  LET export == Make("payments.exportInvoice")
  IN [sendInvoice |->
        Peer(r) \o Check("prices") \o Check("reply_markup") \o Send("messages.sendMedia"),
      createInvoiceLink |-> Check("prices") \o Route(r, export),
      answerShippingQuery |->
        Check("shipping_query_id") \o Check("shipping_options") \o
        Set("messages.setBotShippingResults")]

SendPaidMedia(r) ==
  Peer(r) \o Check("media") \o ResolveInputSingleMedia(r) \o Check("reply_markup") \o
  Route(r, Send("messages.sendMedia"))

Stars ==
  [refundStarPayment |-> Set("payments.refundStarsCharge"),
   getStarTransactions |-> Read("payments.getStarsTransactions"),
   getAvailableGifts |-> Read("payments.getStarGifts") \o Want("gifts")]

(* A gift is paid with the form asked for just before.                     *)
Verification(r) ==
  LET chat == Peer(r) \o Set("bots.setCustomVerification")
      user == Set("bots.setCustomVerification")
  IN [sendGift |-> Check("gift_id") \o Read("payments.getPaymentForm") \o
                   Send("payments.sendStarsForm"),
      verifyUser |-> user,
      removeUserVerification |-> user,
      verifyChat |-> chat,
      removeChatVerification |-> chat]

StickerSets ==
  [getStickerSet |-> Read("messages.getStickerSet") \o Want("set"),
   getCustomEmojiStickers |->
     Check("custom_emoji_ids") \o Read("messages.getCustomEmojiDocuments"),
   uploadStickerFile |-> UploadStickerDocument,
   createNewStickerSet |-> Check("stickers") \o Make("stickers.createStickerSet"),
   addStickerToSet |-> Check("sticker") \o Make("stickers.addStickerToSet"),
   setStickerPositionInSet |-> Check("sticker") \o Set("stickers.changeStickerPosition"),
   deleteStickerFromSet |-> Check("sticker") \o Set("stickers.removeStickerFromSet"),
   replaceStickerInSet |->
     Check("old_sticker") \o Check("sticker") \o Set("stickers.replaceSticker"),
   setStickerEmojiList |-> Check("sticker") \o Set("stickers.changeSticker")]

StickerChanges(r) ==
  LET change == Check("sticker") \o Set("stickers.changeSticker")
      thumbnail == Set("stickers.setStickerSetThumb")
  IN [setStickerKeywords |-> change,
      setStickerMaskPosition |-> change,
      setStickerSetTitle |-> Set("stickers.renameStickerSet"),
      setStickerSetThumbnail |->
        Either(r.source = "bytes", UploadStickerDocument, Check("thumbnail")) \o thumbnail,
      setCustomEmojiStickerSetThumbnail |-> Check("custom_emoji_id") \o thumbnail,
      deleteStickerSet |-> Set("stickers.deleteStickerSet")]

(* A game is not uploaded: sendMedia only routes it.                       *)
Games(r) ==
  [sendGame |-> Peer(r) \o Check("reply_markup") \o Route(r, Send("messages.sendMedia")),
   setGameScore |->
     Either(r.inline, Check("inline_message_id") \o Set("messages.setInlineGameScore"),
            Peer(r) \o Set("messages.setGameScore")),
   getGameHighScores |->
     Either(r.inline, Check("inline_message_id") \o Read("messages.getInlineGameHighScores"),
            Peer(r) \o Read("messages.getGameHighScores"))]

SetPassportDataErrors == Check("errors") \o Set("users.setSecureValueErrors")

BotItself(r) ==
  LET react == Peer(r) \o Set("messages.sendReaction")
  IN [getUserChatBoosts |-> Peer(r) \o Read("premium.getUserBoosts"),
      readBusinessConnection |-> Read("account.getBotBusinessConnection"),
      logOut |-> Set("auth.logOut"),
      setMyProfilePhoto |->
        Check("photo") \o Upload("photo") \o OfParts(Set("photos.uploadProfilePhoto")),
      removeMyProfilePhoto |-> Set("photos.updateProfilePhoto"),
      getMyStarBalance |-> Read("payments.getStarsStatus"),
      deleteMessageReaction |-> react,
      deleteAllMessageReactions |-> react,
      setChatMemberTag |-> Peer(r) \o Channel(r) \o Set("channels.editAdmin")]

GuestQueries ==
  [getUserProfileAudios |-> Read("users.getSavedMusic"),
   answerChatJoinRequestQuery |-> Check("result") \o Set("bots.setJoinChatResults"),
   sendChatJoinRequestWebApp |-> Check("web_app_url") \o Set("bots.setJoinChatResults"),
   answerCustomQuery |-> Check("custom_query_id") \o Set("bots.answerWebhookJSONQuery"),
   sendCustomRequest |-> Check("method") \o Make("bots.sendCustomRequest"),
   answerGuestQuery |->
     Check("result") \o Set("messages.setBotGuestChatResult") \o Want("inline_message_id")]

(* The parts of a profile photo are uploaded on the connection that uses   *)
(* them; a wrong type is refused after that.                               *)
BusinessSettings(r) ==
  LET approval == Peer(r) \o Set("messages.toggleSuggestedPostApproval")
  IN [approveSuggestedPost |-> approval,
      declineSuggestedPost |-> approval,
      getBusinessAccountStarBalance |-> Lookup \o Business(Read("payments.getStarsStatus")),
      setBusinessAccountGiftSettings |->
        Check("accepted_gift_types") \o Business(Set("account.setGlobalPrivacySettings")),
      setBusinessAccountProfilePhoto |->
        Check("photo") \o Direct(Saying(Upload("photo"))) \o Check("photo_type") \o
        Business(OfParts(Set("photos.uploadProfilePhoto")))]

ManagedBots ==
  [getManagedBotToken |-> Read("bots.exportBotToken"),
   getManagedBotAccessSettings |-> Read("bots.getAccessSettings"),
   setManagedBotAccessSettings |->
     Check("added_user_ids") \o Set("bots.editAccessSettings"),
   replaceManagedBotToken |-> Make("bots.exportBotToken"),
   getUserPersonalChatMessages |-> Read("messages.getHistory"),
   editUserStarSubscription |-> Set("payments.changeStarsSubscription")]

StoriesAndDrafts(r) ==
  [repostStory |->
     Lookup \o Check("from_chat_id") \o Direct(Send("stories.sendStory")) \o Want("story id"),
   editStory |-> Lookup \o Direct(Set("stories.editStory")),
   savePreparedKeyboardButton |-> Check("button") \o Make("bots.requestWebViewButton"),
   sendLivePhoto |-> SendPhoto(r),
   sendMessageDraft |-> Peer(r) \o Set("messages.saveDraft")]

-----------------------------------------------------------------------------
(* gifts.go.  payStars: the price of the form must be the one the caller   *)
(* agreed to; it is paid on the connection that asked for it.              *)
PayStars(r) ==
  Route(r, Read("payments.getPaymentForm")) \o Want("agreed price") \o
  Route(r, Send("payments.sendStarsForm")) \o Want("no verification")

Gifts(r) ==
  LET gift == Check("owned_gift_id")
      orPay(call) == Either(r.extra, PayStars(r), Route(r, Set(call)))
  IN [convertGiftToStars |-> gift \o Route(r, Set("payments.convertStarGift")),
      upgradeGift |-> Check("star_count") \o gift \o orPay("payments.upgradeStarGift"),
      transferGift |->
        Check("star_count") \o gift \o Check("new_owner_chat_id") \o
        orPay("payments.transferStarGift"),
      transferBusinessAccountStars |-> Check("star_count") \o PayStars([r EXCEPT !.business = TRUE]),
      giftPremiumSubscription |-> Check("star_count") \o PayStars([r EXCEPT !.business = FALSE])]

SavedGifts(r) ==
  LET saved == Read("payments.getSavedStarGifts")
  IN [getChatGifts |-> Peer(r) \o saved,
      getUserGifts |-> saved,
      getBusinessAccountGifts |-> Lookup \o Business(saved)]

Checklists(r) ==
  [sendChecklist |->
     Check("checklist") \o Peer(r) \o Check("reply_markup") \o Route(r, Send("messages.sendMedia")),
   editMessageChecklist |->
     Check("checklist") \o Peer(r) \o Check("reply_markup") \o
     Route(r, Set("messages.editMessage"))]

(* The media of a rich message is stored like that of an album.            *)
RichMessages(r) ==
  LET refused == Refuse("needs a newer layer")
  IN [sendRichMessage |->
        Peer(r) \o Check("rich_message") \o Either(r.extra, ResolveInputSingleMedia(r), Nothing) \o
        Check("reply_markup") \o Route(r, Send("messages.sendMessage")),
      sendRichMessageDraft |-> refused,
      deleteEphemeralMessage |->
        Check("receiver_user_id") \o Peer(r) \o Set("ephemeral.deleteMessage"),
      editEphemeralMessageText |-> refused,
      editEphemeralMessageMedia |-> refused,
      editEphemeralMessageCaption |-> refused,
      editEphemeralMessageReplyMarkup |-> refused]
=============================================================================
