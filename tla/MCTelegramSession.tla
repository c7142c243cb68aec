------------------------- MODULE MCTelegramSession -------------------------
EXTENDS TelegramSession
=============================================================================
