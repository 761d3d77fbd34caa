--------------------------- MODULE MCWebsocketHub ---------------------------
EXTENDS WebsocketHub
=============================================================================
