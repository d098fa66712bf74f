---------------------------- MODULE MCModelReview ----------------------------
EXTENDS ModelReview
TwoChannels == <<"gemini", "grok">>
=============================================================================
