----------------------------- MODULE ApiHandlers -----------------------------
(***************************************************************************)
(* The HTTP handlers of the Bot API methods, api/extra_handlers.go and     *)
(* api/server.go in the order of the files: what a handler asks of the     *)
(* parameters before it calls the method of the bot.  Everything else they *)
(* do is the same: a deadline, the call, the answer.                       *)
(***************************************************************************)
EXTENDS ApiSteps

Bare(methods) == [m \in methods |-> Nothing]
Bound(methods) == [m \in methods |-> Check("payload")]
Required(methods) == [m \in methods |-> Check("payload") \o Check("required parameters")]

-----------------------------------------------------------------------------
MemberHandlers ==
  Bound({"getChatAdministrators", "getChatMemberCount", "banChatMember",
         "unbanChatMember", "restrictChatMember", "promoteChatMember",
         "setChatAdministratorCustomTitle"})
  ++ Required({"getChat"})
InviteHandlers ==
  Bound({"banChatSenderChat", "unbanChatSenderChat", "setChatPermissions",
         "exportChatInviteLink", "createChatInviteLink",
         "editChatInviteLink", "revokeChatInviteLink",
         "approveChatJoinRequest"})
ProfileHandlers ==
  Bound({"declineChatJoinRequest", "setChatPhoto", "deleteChatPhoto",
         "setChatTitle", "setChatDescription", "leaveChat",
         "setChatMenuButton", "getChatMenuButton"})
ForwardHandlers ==
  Bound({"setMyDefaultAdministratorRights",
         "getMyDefaultAdministratorRights", "forwardMessage",
         "forwardMessages", "copyMessages", "deleteMessages",
         "setMessageReaction", "sendLocation"})
PlaceHandlers ==
  Bound({"editMessageLiveLocation", "stopMessageLiveLocation", "sendVenue",
         "sendContact", "sendPoll", "stopPoll", "sendDice",
         "pinChatMessage"})
CommandHandlers ==
  Bound({"unpinChatMessage", "unpinAllChatMessages", "getMyCommands",
         "deleteMyCommands", "setMyName", "getMyName", "setMyDescription",
         "getMyDescription"})
TopicHandlers ==
  Bound({"setMyShortDescription", "getMyShortDescription",
         "setUserEmojiStatus", "createForumTopic", "editForumTopic",
         "closeForumTopic", "reopenForumTopic", "deleteForumTopic"})
GeneralTopicHandlers ==
  Bound({"unpinAllForumTopicMessages", "editGeneralForumTopic",
         "closeGeneralForumTopic", "reopenGeneralForumTopic",
         "hideGeneralForumTopic", "unhideGeneralForumTopic",
         "unpinAllGeneralForumTopicMessages"})
  ++ Bare({"getForumTopicIconStickers"})
InlineHandlers ==
  Bound({"answerInlineQuery", "answerWebAppQuery",
         "savePreparedInlineMessage", "sendInvoice", "createInvoiceLink",
         "answerShippingQuery", "sendPaidMedia", "refundStarPayment"})
GiftHandlers ==
  Bound({"getStarTransactions", "sendGift", "verifyUser", "verifyChat",
         "removeUserVerification", "removeChatVerification",
         "getStickerSet"})
  ++ Bare({"getAvailableGifts"})
StickerHandlers ==
  Bound({"getCustomEmojiStickers", "uploadStickerFile",
         "createNewStickerSet", "addStickerToSet",
         "setStickerPositionInSet", "deleteStickerFromSet",
         "replaceStickerInSet", "setStickerEmojiList"})
StickerSetHandlers ==
  Bound({"setStickerKeywords", "setStickerMaskPosition",
         "setStickerSetTitle", "setStickerSetThumbnail",
         "setCustomEmojiStickerSetThumbnail", "deleteStickerSet",
         "sendGame", "setGameScore"})
GameHandlers ==
  Bound({"getGameHighScores", "setPassportDataErrors", "getUserChatBoosts",
         "readBusinessConnection", "createChatSubscriptionInviteLink",
         "editChatSubscriptionInviteLink", "setChatStickerSet",
         "deleteChatStickerSet"})
  ++ Bare({"logOut"})
StoryHandlers ==
  Bound({"deleteStory", "readBusinessMessage", "setBusinessAccountUsername",
         "removeBusinessAccountProfilePhoto"})
  ++ Required({"setMyProfilePhoto", "deleteMessageReaction",
               "deleteAllMessageReactions"})
  ++ Bare({"removeMyProfilePhoto", "getMyStarBalance"})
JoinRequestHandlers ==
  Bound({"answerChatJoinRequestQuery", "sendChatJoinRequestWebApp",
         "answerCustomQuery", "sendCustomRequest", "answerGuestQuery",
         "approveSuggestedPost"})
  ++ Required({"setChatMemberTag", "getUserProfileAudios"})
OwnedGiftHandlers ==
  Bound({"declineSuggestedPost", "convertGiftToStars", "upgradeGift",
         "transferGift", "getChatGifts", "getUserGifts",
         "getBusinessAccountGifts", "getBusinessAccountStarBalance",
         "transferBusinessAccountStars"})
ManagedBotHandlers ==
  Bound({"setBusinessAccountGiftSettings", "getManagedBotToken",
         "getManagedBotAccessSettings", "setManagedBotAccessSettings",
         "replaceManagedBotToken", "getUserPersonalChatMessages"})
  ++ Required({"setBusinessAccountProfilePhoto"})
DraftHandlers ==
  Bound({"giftPremiumSubscription", "editUserStarSubscription",
         "repostStory", "editStory", "savePreparedKeyboardButton",
         "sendLivePhoto", "sendMessageDraft", "sendRichMessageDraft"})
RichHandlers ==
  Bound({"sendRichMessage", "sendChecklist", "editMessageChecklist",
         "editEphemeralMessageText", "editEphemeralMessageMedia",
         "editEphemeralMessageCaption", "editEphemeralMessageReplyMarkup",
         "deleteEphemeralMessage"})
EditHandlers ==
  Bound({"deleteMessage", "editMessageMedia", "sendChatAction",
         "copyMessage", "editMessageCaption", "editMessageReplyMarkup",
         "answerCallbackQuery"})
PhotoHandlers ==
  Required({"sendPhoto", "sendVideo", "sendDocument", "sendVoice"})
AudioHandlers ==
  Required({"sendVideoNote", "sendAudio", "sendSticker"})
AnimationHandlers ==
  Required({"sendAnimation", "getFile"})
AlbumHandlers ==
  Bound({"answerPreCheckoutQuery", "getChatMember", "setMyCommands"})
  ++ Required({"getBusinessConnection", "deleteBusinessMessages",
               "getUserProfilePhotos", "sendMediaGroup"})
BusinessHandlers ==
  Bound({"postStory"})
  ++ Required({"setBusinessAccountBio", "setBusinessAccountName"})

-----------------------------------------------------------------------------
(* Whether a request names a business connection: the parameter of the     *)
(* methods that are about a connection or its account, and of those that   *)
(* act for the account instead of the bot if it is there.                  *)
AboutConnection ==
  {"getBusinessConnection", "readBusinessConnection", "deleteBusinessMessages",
   "readBusinessMessage", "setBusinessAccountBio", "setBusinessAccountName",
   "setBusinessAccountUsername", "setBusinessAccountProfilePhoto",
   "removeBusinessAccountProfilePhoto", "setBusinessAccountGiftSettings",
   "getBusinessAccountGifts", "getBusinessAccountStarBalance",
   "transferBusinessAccountStars", "postStory", "repostStory", "editStory", "deleteStory"}
MayActForAccount ==
  {"sendMessage", "sendPhoto", "sendVideo", "sendDocument", "sendVoice", "sendAudio",
   "sendAnimation", "sendVideoNote", "sendSticker", "sendMediaGroup", "sendPaidMedia",
   "sendLivePhoto", "sendLocation", "sendVenue", "sendContact", "sendPoll", "sendDice",
   "sendGame", "sendRichMessage", "sendChecklist", "sendChatAction", "createInvoiceLink",
   "editMessageText", "editMessageCaption", "editMessageReplyMarkup", "editMessageMedia",
   "editMessageLiveLocation", "stopMessageLiveLocation", "editMessageChecklist", "stopPoll",
   "deleteMessage", "deleteMessages", "pinChatMessage", "unpinChatMessage",
   "convertGiftToStars", "upgradeGift", "transferGift"}
NamesConnection(m, r) == m \in AboutConnection \/ (r.business /\ m \in MayActForAccount)

-----------------------------------------------------------------------------
(* The two handlers that start the bot anew and call the method again.     *)
RetryingHandlers == Required({"sendMessage"}) ++ Bound({"editMessageText"})

Handlers ==
  (MemberHandlers ++ InviteHandlers ++ ProfileHandlers ++ ForwardHandlers
   ++ PlaceHandlers ++ CommandHandlers ++ TopicHandlers ++ GeneralTopicHandlers
   ++ InlineHandlers ++ GiftHandlers ++ StickerHandlers ++ StickerSetHandlers)
  ++ (GameHandlers ++ StoryHandlers ++ JoinRequestHandlers ++ OwnedGiftHandlers
      ++ ManagedBotHandlers ++ DraftHandlers ++ RichHandlers ++ EditHandlers
      ++ PhotoHandlers ++ AudioHandlers ++ AnimationHandlers ++ AlbumHandlers
      ++ BusinessHandlers ++ RetryingHandlers)
=============================================================================
