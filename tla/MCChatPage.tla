----------------------------- MODULE MCChatPage -----------------------------
EXTENDS ChatPage

CONSTANT s1
MCSession == {s1}
=============================================================================
