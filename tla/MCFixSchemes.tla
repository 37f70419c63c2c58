---------------------------- MODULE MCFixSchemes ----------------------------
\* Two directories and two runs of the script.
EXTENDS FixSchemes

CONSTANTS k1, k2, document, dynamodb, other

MCKeys == <<k1, k2>>
MCOneKey == <<k1>>
=============================================================================
