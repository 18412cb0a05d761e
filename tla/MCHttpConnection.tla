-------------------------- MODULE MCHttpConnection --------------------------
\* HttpConnection with small sets of model values.
EXTENDS HttpConnection
CONSTANTS h1, h2, h3, s1, s2, io1, io2
=============================================================================
